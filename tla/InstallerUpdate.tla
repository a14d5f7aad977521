--------------------------- MODULE InstallerUpdate ---------------------------
(***************************************************************************)
(* The installer plugin driven by DU Master, as the du_master.json of       *)
(* README.md drives it: action 0 writes deploy when the plugin is IDLE and  *)
(* ends on PENDING_COMMIT, action 1 then writes commit and ends on IDLE;    *)
(* both fail on ERROR.  DU Master knows of the plugin what is notified: the *)
(* state and the pending run level.  It asks for the run level the plugin   *)
(* is waiting for and lowers it again afterwards.  DU Master is not part of *)
(* the repository; it is modelled from that file and from what the plugin   *)
(* exports.                                                                 *)
(***************************************************************************)
EXTENDS DuInstaller

VARIABLES
  action,   \* "deploy" or "commit", or how the update ended
  sent,     \* the action's command has been written
  package,  \* the path the update deploys
  told,     \* the pending run level last notified
  seen,     \* the state last notified
  lost      \* history: a dulinkTriggerNotify has failed

master == <<action, sent, package, told, seen, lost>>
uvars == <<vars, master>>

UpdateInit ==
  /\ Init
  /\ action = "deploy" /\ sent = FALSE
  /\ package \in Paths
  /\ told = RL_INVALID /\ seen = "IDLE" /\ lost = FALSE

\* exitOnStateTransitionTo and failOnStateTransitionTo.
Observe(s) ==
  /\ seen' = s
  /\ \/ s = "ERROR" /\ action' = "failed" /\ sent' = FALSE
     \/ sent /\ action = "deploy" /\ s = "PENDING_COMMIT"
        /\ action' = "commit" /\ sent' = FALSE
     \/ sent /\ action = "commit" /\ s = "IDLE"
        /\ action' = "done" /\ sent' = FALSE
     \/ /\ s # "ERROR"
        /\ sent => <<action, s>> \notin {<<"deploy", "PENDING_COMMIT">>, <<"commit", "IDLE">>}
        /\ UNCHANGED <<action, sent>>

\* The notification of setInstallerState reaches DU Master, or fails.
NotifiedState ==
  IF pc = "notify"
  THEN \/ Observe(state) /\ UNCHANGED lost
       \/ UNCHANGED <<action, sent, seen>> /\ lost' = TRUE
  ELSE UNCHANGED <<action, sent, seen>>

\* Variant with a bug: only the withdrawal is notified.
NotifiedWithdrawal ==
  /\ told' = IF pendingRl' # pendingRl /\ pendingRl' = RL_INVALID THEN pendingRl'
             ELSE told
  /\ pc # "notify" => lost' = lost

\* So does that of setInstallerPendingRl; when it fails the plugin is on its way
\* to ERROR.
NotifiedPendingRl ==
  IF pendingRl' = pendingRl THEN told' = told /\ (pc # "notify" => lost' = lost)
  ELSE \/ goal' # "ERROR" /\ told' = pendingRl' /\ UNCHANGED lost
       \/ goal' = "ERROR" /\ UNCHANGED told /\ lost' = TRUE

\* The plugin comes up: a start that fails is no update.
PluginStep ==
  MainStep /\ pc' # "exited" /\ NotifiedState /\ NotifiedPendingRl
    /\ UNCHANGED package

Write(c) == InstallerCmdCB(c) /\ sent' = TRUE /\ UNCHANGED <<action, package, told, seen, lost>>

\* startOnState.  The update starts when the plugin is up.
MasterDeploy ==
  /\ action = "deploy" /\ ~sent /\ seen = "IDLE" /\ ~Starting
  /\ Write([word |-> "deploy", path |-> package, name |-> NoName])

MasterCommit ==
  /\ action = "commit" /\ ~sent /\ seen = "PENDING_COMMIT"
  /\ Write([word |-> "commit", path |-> NoPath, name |-> NoName])

\* A failed update is cleared before the next one.
MasterClear ==
  /\ action = "failed" /\ ~sent /\ seen = "ERROR"
  /\ Write([word |-> "clear_error", path |-> NoPath, name |-> NoName])

NextUpdate ==
  /\ action \in {"done", "failed"} /\ seen = "IDLE"
  /\ action' = "deploy" /\ sent' = FALSE
  /\ package' \in Paths
  /\ UNCHANGED <<vars, told, seen, lost>>

\* Run levels: what the plugin waits for, and back.
MasterRunLevel ==
  LET rl == IF told < RL_INVALID THEN told ELSE RL_DORMANT
  IN currentRl # rl /\ StoreRunLevel(rl) /\ UNCHANGED master

MasterStep == MasterDeploy \/ MasterCommit \/ MasterClear \/ NextUpdate

UpdateNext ==
  \/ PluginStep
  \/ MasterStep
  \/ MasterRunLevel
  \/ SignalRunLevel /\ UNCHANGED master

UpdateSpec == UpdateInit /\ [][UpdateNext]_uvars

\* Neither side stops; new updates and the clearing of errors are optional.
UpdateFair ==
  /\ UpdateSpec
  /\ WF_uvars(PluginStep)
  /\ WF_uvars(MasterDeploy) /\ WF_uvars(MasterCommit) /\ WF_uvars(MasterRunLevel)
  /\ WF_uvars(SignalRunLevel /\ UNCHANGED master)

-----------------------------------------------------------------------------

UpdateTypeOK ==
  /\ TypeOK
  /\ action \in {"deploy", "commit", "done", "failed"}
  /\ sent \in BOOLEAN /\ package \in Paths
  /\ told \in AnyRunLevel /\ seen \in States /\ lost \in BOOLEAN

\* When DU Master takes the update for done, the package stands complete under
\* its name: across retries, cleared errors, earlier updates of the same name and
\* notifications that got lost (execDeployCmd, execCommitCmd, setState).
DoneMeansInstalled ==
  action = "done" => saved[<<Root, Basename[package]>>] = Full(package)

\* Nobody waits for a run level nobody knows of: a plugin in PENDING_RL has told
\* its listeners what it waits for.  (duinstaller_common.h: setInstallerPendingRl
\* will "send a notification to .notify listeners if the new value is different
\* than the previous one".)
PendingRlAnnounced ==
  state = "PENDING_RL" /\ pc = "run" => told = pendingRl

\* When notifications arrive an update ends, well or badly: plugin and master
\* never wait for each other.
UpdateEnds ==
  []~lost => (action \in {"deploy", "commit"} ~> action \in {"done", "failed"})

=============================================================================
