---------------------------- MODULE UpdateClient ----------------------------
(***************************************************************************)
(* The update client (driveupdate/driveupdate.c): it triggers the           *)
(* deployment of a package, monitors it, and can abort it.                  *)
(*                                                                         *)
(* The main thread runs the command line; a monitor thread per deployment   *)
(* polls DUCC.  A signal runs its handler on a thread that does not block   *)
(* it: blockSig blocks for the calling thread only.  Each action is one     *)
(* call to DU Link or DUCC with the thread-local work next to it: nothing   *)
(* here is protected by a lock.  DU Master and DU TII are external.         *)
(***************************************************************************)
EXTENDS Naturals

CONSTANTS
  Packages,   \* the packages a user may deploy
  NoPkg,      \* the empty context
  Main,       \* the main thread
  Monitors,   \* thread ids of monitors; also the bound on how many run at once
  NoThread    \* the zero monitorThread starts with

Threads == {Main} \union Monitors

ASSUME ClientAssumption ==
  NoPkg \notin Packages /\ Main \notin Monitors /\ NoThread \notin Threads

VARIABLES
  \* the process
  main,           \* where the main thread is
  pkg,            \* the package of the deploy it executes
  quit,           \* one command only; exit
  monitorThread,  \* the monitor created last
  gbRmCbPath,     \* push_cb was registered with DU TII
  mon,            \* where each monitor is
  blocked,        \* the threads that block signals
  ab,             \* where each thread is inside abortDeploy
  dying,          \* the threads that run abortDeploy in the signal handler
  \* outside the process
  exported,       \* the node push_cb; gone with the process
  tii,            \* DU TII has push_cb on its list
  ctx,            \* the persistent context: the package to resume
  dm, dmPkg,      \* DU Master's state, and the package it is about
  pa,             \* pendingAction is PA_RUNLEVEL
  aborting,       \* DU Master has accepted an abort
  raised,         \* the run level is above RL_DORMANT
  \* history: the context and the update went different ways for a reason that
  \* shows in the log (see the properties); likewise push_cb; the last command
  \* was an abort that met no error
  ctxTrouble, cbTrouble, aborted

deploy  == <<main, pkg, quit>>
process == <<deploy, monitorThread, gbRmCbPath, mon, blocked, ab, dying>>
master  == <<dm, dmPkg, pa, aborting>>
outside == <<exported, tii, ctx, master, raised>>
history == <<ctxTrouble, cbTrouble, aborted>>
vars    == <<process, outside, history>>

\* DUCC's states.  STATE_NO_CONNECTIVITY is left out: the monitor treats it like
\* STATE_DORMANT, deployPackage refuses to deploy, abortDeploy has nothing to abort.
States == {"DORMANT", "UP_TO_DATE", "UPDATE_AVAILABLE", "UPDATE_IN_PROGRESS",
           "UPDATE_FAILED", "FATAL_ERROR"}
Updating == dm \in {"UPDATE_AVAILABLE", "UPDATE_IN_PROGRESS"}
Ended == dm \in {"UP_TO_DATE", "UPDATE_FAILED", "FATAL_ERROR"}

Alive == main # "gone"
Running(m) == mon[m] \notin {"free", "ended"}
Aborting == \E t \in Threads : ab[t] # "none"

\* No process: what is exported is gone, what others keep stays.
Gone ==
  /\ main' = "gone" /\ pkg' = NoPkg /\ quit' = FALSE
  /\ monitorThread' = NoThread /\ gbRmCbPath' = FALSE
  /\ mon' = [m \in Monitors |-> "free"]
  /\ blocked' = {} /\ ab' = [t \in Threads |-> "none"] /\ dying' = {}
  /\ exported' = FALSE

Init ==
  /\ main = "gone" /\ pkg = NoPkg /\ quit = FALSE
  /\ monitorThread = NoThread /\ gbRmCbPath = FALSE
  /\ mon = [m \in Monitors |-> "free"]
  /\ blocked = {} /\ ab = [t \in Threads |-> "none"] /\ dying = {}
  /\ exported = FALSE /\ tii = FALSE /\ ctx = NoPkg
  /\ dm = "DORMANT" /\ dmPkg = NoPkg /\ pa = FALSE /\ aborting = FALSE
  /\ raised = FALSE
  /\ ctxTrouble = FALSE /\ cbTrouble = FALSE /\ aborted = FALSE

-----------------------------------------------------------------------------
(* DU Master, as the client sees it (external) *)

MasterGoes(s) == dm' = s /\ pa' = FALSE /\ aborting' = FALSE

\* An update starts, may need a run level, and ends.
MasterStarts ==
  /\ dm = "UPDATE_AVAILABLE"
  /\ dm' = "UPDATE_IN_PROGRESS"
  /\ UNCHANGED <<process, exported, tii, ctx, dmPkg, pa, aborting, raised, history>>

MasterNeedsRunLevel ==
  /\ dm = "UPDATE_IN_PROGRESS" /\ ~raised /\ ~pa
  /\ pa' = TRUE
  /\ UNCHANGED <<process, exported, tii, ctx, dm, dmPkg, aborting, raised, history>>

MasterEnds ==
  /\ dm = "UPDATE_IN_PROGRESS" /\ ~pa
  /\ \E s \in {"UP_TO_DATE", "UPDATE_FAILED", "FATAL_ERROR"} : MasterGoes(s)
  /\ UNCHANGED <<process, exported, tii, ctx, dmPkg, raised, history>>

MasterAborts ==
  /\ Updating /\ aborting
  /\ MasterGoes("UPDATE_FAILED")
  /\ UNCHANGED <<process, exported, tii, ctx, dmPkg, raised, history>>

MasterRestarts ==
  /\ MasterGoes("DORMANT") /\ dmPkg' = NoPkg /\ raised' = FALSE
  /\ UNCHANGED <<process, exported, tii, ctx, history>>

\* DUCC_Request_RunLevel, when it succeeds.
RequestRunLevel(up) ==
  /\ raised' = up
  /\ pa' = (pa /\ ~up)

-----------------------------------------------------------------------------
(* The process starts and stops *)

NewMonitor(m) ==
  /\ mon' = [mon EXCEPT ![m] = "poll"]
  /\ monitorThread' = m
  /\ blocked' = IF Main \in blocked THEN blocked \union {m} ELSE blocked \ {m}

\* main up to its command loop: with a context and no command on the command line
\* a monitor is started.  push_cb is not registered again.
Start(oneShot) ==
  /\ ~Alive
  /\ main' = "prompt" /\ quit' = oneShot
  /\ IF ctx # NoPkg /\ ~oneShot
     THEN \E m \in Monitors : NewMonitor(m)
     ELSE UNCHANGED <<mon, monitorThread, blocked>>
  /\ cbTrouble' = (cbTrouble /\ tii) /\ aborted' = FALSE
  /\ UNCHANGED <<pkg, gbRmCbPath, ab, dying, outside, ctxTrouble>>

\* Killed.  An update that was triggered and is not yet saved is not resumed.
Crash ==
  /\ Alive
  /\ Gone
  /\ ctxTrouble' = (ctxTrouble \/ main = "context")
  /\ cbTrouble' = (cbTrouble \/ tii)
  /\ UNCHANGED <<tii, ctx, master, raised, aborted>>

\* cleanUpConn and abortDeploy take push_cb off DU TII's list, if gbRmCbPath tells
\* so, and if DU TII answers.
Deregistered ==
  \/ gbRmCbPath /\ tii' = FALSE /\ UNCHANGED cbTrouble
  \/ gbRmCbPath /\ UNCHANGED tii /\ cbTrouble' = TRUE
  \/ ~gbRmCbPath /\ UNCHANGED tii /\ cbTrouble' = (cbTrouble \/ main = "registered")

\* A signal is taken by the main thread unless that blocks it.
TakesSignal(t) ==
  /\ Alive /\ t \notin blocked
  /\ t # Main => Main \in blocked /\ Running(t)

\* sigHandler, SIGINT and SIGTERM.
Interrupt ==
  /\ \E t \in Threads : TakesSignal(t)
  /\ Deregistered
  /\ Gone
  /\ ctxTrouble' = (ctxTrouble \/ main = "context")
  /\ UNCHANGED <<ctx, master, raised, aborted>>

-----------------------------------------------------------------------------
(* deployPackage *)

\* Where the main thread goes after a command.
Back == main' = (IF quit THEN "join" ELSE "prompt") /\ pkg' = NoPkg

Prompt == main = "prompt" /\ ab[Main] = "none"

Deploy(p, u) ==
  /\ Prompt
  /\ \E m \in Monitors : ~Running(m)
  /\ pkg' = p
  /\ main' = IF u /\ ~gbRmCbPath THEN "export" ELSE "status"
  /\ ctxTrouble' = ((ctxTrouble /\ Updating) \/ \E m \in Monitors : Running(m))
  /\ aborted' = FALSE
  /\ UNCHANGED <<quit, monitorThread, gbRmCbPath, mon, blocked, ab, dying, outside,
                 cbTrouble>>

\* dulinkExportFile.
DeployExport ==
  /\ main = "export"
  /\ \/ exported' = TRUE /\ main' = "register" /\ UNCHANGED pkg
     \/ UNCHANGED exported /\ Back
  /\ UNCHANGED <<quit, monitorThread, gbRmCbPath, mon, blocked, ab, dying, tii, ctx,
                 master, raised, history>>

\* The write to push_mode.notify.
DeployRegister ==
  /\ main = "register"
  /\ \/ tii' = TRUE /\ main' = "registered" /\ UNCHANGED pkg
     \/ UNCHANGED tii /\ Back
  /\ UNCHANGED <<quit, monitorThread, gbRmCbPath, mon, blocked, ab, dying, exported,
                 ctx, master, raised, history>>

DeployRegistered ==
  /\ main = "registered"
  /\ gbRmCbPath' = TRUE /\ main' = "status"
  /\ UNCHANGED <<pkg, quit, monitorThread, mon, blocked, ab, dying, outside,
                 history>>

Deployable == dm \in {"DORMANT", "UPDATE_FAILED", "UP_TO_DATE"} /\ ~pa

\* DUCC_Get_Current_Status.  What cannot be deployed is still saved and monitored.
DeployStatus ==
  /\ main = "status"
  /\ \/ Back /\ UNCHANGED <<blocked, ctxTrouble>>
     \/ /\ Deployable
        /\ main' = "trigger" /\ blocked' = blocked \union {Main}
        /\ UNCHANGED <<pkg, ctxTrouble>>
     \/ /\ ~Deployable
        /\ main' = "context" /\ ctxTrouble' = TRUE
        /\ UNCHANGED <<pkg, blocked>>
  /\ UNCHANGED <<quit, monitorThread, gbRmCbPath, mon, ab, dying, outside, cbTrouble,
                 aborted>>

\* triggerUpdate.  When it fails signals stay blocked.
DeployTrigger ==
  /\ main = "trigger"
  /\ \/ /\ Deployable
        /\ dm' = "UPDATE_AVAILABLE" /\ dmPkg' = pkg
        /\ main' = "context" /\ blocked' = blocked \ {Main}
        /\ UNCHANGED pkg
     \/ Back /\ UNCHANGED <<dm, dmPkg, blocked>>
  /\ UNCHANGED <<quit, monitorThread, gbRmCbPath, mon, ab, dying, exported, tii, ctx,
                 pa, aborting, raised, history>>

\* Variant with a bug: the buffer of an empty context is not initialised.
UpdateContextUnset(p) ==
  ctx' = (IF p = NoPkg THEN "garbage" ELSE p) /\ UNCHANGED ctxTrouble

\* updateContext: a failing write is only logged.
UpdateContext(p) ==
  \/ ctx' = p /\ UNCHANGED ctxTrouble
  \/ UNCHANGED ctx /\ ctxTrouble' = TRUE

DeployContext ==
  /\ main = "context"
  /\ UpdateContext(pkg)
  /\ main' = "monitor"
  /\ UNCHANGED <<pkg, quit, monitorThread, gbRmCbPath, mon, blocked, ab, dying,
                 exported, tii, master, raised, cbTrouble, aborted>>

\* pthread_create, which overwrites monitorThread.
DeployMonitor ==
  /\ main = "monitor"
  /\ \/ \E m \in Monitors : ~Running(m) /\ NewMonitor(m)
     \/ UNCHANGED <<mon, monitorThread, blocked>>
  /\ Back
  /\ UNCHANGED <<quit, gbRmCbPath, ab, dying, outside, history>>

-----------------------------------------------------------------------------
(* monitorUpdate *)

\* Variant with a bug: the context is cleared when DUCC does not answer, too.
MonitorFailsAsDone(m) ==
  /\ mon[m] = "poll"
  /\ mon' = [mon EXCEPT ![m] = "clear"]
  /\ UNCHANGED <<deploy, monitorThread, gbRmCbPath, blocked, ab, dying, outside, history>>

\* DUCC does not answer: the monitor ends and leaves the context.
MonitorFails(m) ==
  /\ mon[m] = "poll"
  /\ mon' = [mon EXCEPT ![m] = "ended"]
  /\ UNCHANGED <<deploy, monitorThread, gbRmCbPath, blocked, ab, dying, outside, history>>

\* Variant with a bug: a failed update is waited for to be repeated.
MonitorSeesSuccess(m) ==
  /\ mon[m] = "poll" /\ dm = "UP_TO_DATE"
  /\ mon' = [mon EXCEPT ![m] = "clear"]
  /\ UNCHANGED <<deploy, monitorThread, gbRmCbPath, blocked, ab, dying, outside, history>>

\* The update has ended.
MonitorSeesEnd(m) ==
  /\ mon[m] = "poll" /\ Ended
  /\ mon' = [mon EXCEPT ![m] = "clear"]
  /\ UNCHANGED <<deploy, monitorThread, gbRmCbPath, blocked, ab, dying, outside, history>>

\* PA_RUNLEVEL, and not in controlled mode, or the user says yes.
MonitorSeesPending(m) ==
  /\ mon[m] = "poll" /\ pa
  /\ mon' = [mon EXCEPT ![m] = "runlevel"]
  /\ UNCHANGED <<deploy, monitorThread, gbRmCbPath, blocked, ab, dying, outside, history>>

\* DUCC_Request_RunLevel, whose result is not looked at.
MonitorRequestsRunLevel(m) ==
  /\ mon[m] = "runlevel"
  /\ RequestRunLevel(TRUE) \/ UNCHANGED <<raised, pa>>
  /\ mon' = [mon EXCEPT ![m] = "poll"]
  /\ UNCHANGED <<deploy, monitorThread, gbRmCbPath, blocked, ab, dying, exported, tii,
                 ctx, dm, dmPkg, aborting, history>>

MonitorClearsContext(m) ==
  /\ mon[m] = "clear"
  /\ UpdateContext(NoPkg)
  /\ mon' = [mon EXCEPT ![m] = "ended"]
  /\ UNCHANGED <<deploy, monitorThread, gbRmCbPath, blocked, ab, dying, exported, tii,
                 master, raised, cbTrouble, aborted>>

-----------------------------------------------------------------------------
(* abortDeploy *)

AbortGoto(t, place) == ab' = [ab EXCEPT ![t] = place]

\* Variant with a bug: the callback is taken off the list, the flag stays.
DeregisterKeepsFlag ==
  /\ Deregistered
  /\ exported' \in {FALSE, exported}
  /\ UNCHANGED gbRmCbPath

\* Take push_cb off DU TII's list and unlink it, which may both fail.
Deregister ==
  /\ Deregistered
  /\ exported' \in IF gbRmCbPath THEN {FALSE, exported} ELSE {exported}
  /\ gbRmCbPath' = FALSE

AbortBegin(t) ==
  /\ AbortGoto(t, "status")
  /\ blocked' = blocked \union {t}
  /\ Deregister

\* The command, and the signal SIGQUIT, whose handler ends the process.
AbortCommand ==
  /\ Prompt
  /\ AbortBegin(Main)
  /\ aborted' = FALSE
  /\ UNCHANGED <<deploy, monitorThread, mon, dying, ctx, master, raised, ctxTrouble>>

AbortSignal(t) ==
  /\ TakesSignal(t) /\ t \notin dying
  /\ AbortBegin(t)
  /\ dying' = dying \union {t}
  /\ ctxTrouble' = (ctxTrouble \/ (t = Main /\ main = "context"))
  /\ IF t = Main THEN main' = "handler" /\ UNCHANGED mon
     ELSE mon' = [mon EXCEPT ![t] = "handler"] /\ UNCHANGED main
  /\ UNCHANGED <<pkg, quit, monitorThread, ctx, master, raised, aborted>>

\* DUCC_Get_Current_Status and, if there is something to abort, the abort.
AbortStatus(t) ==
  /\ ab[t] = "status"
  /\ \/ AbortGoto(t, "context") /\ ctxTrouble' = TRUE /\ UNCHANGED aborting
     \/ ~Updating /\ AbortGoto(t, "context") /\ UNCHANGED <<ctxTrouble, aborting>>
     \/ /\ Updating /\ AbortGoto(t, "wait")
        /\ aborting' \in {TRUE, aborting}
        /\ UNCHANGED ctxTrouble
  /\ UNCHANGED <<deploy, monitorThread, gbRmCbPath, mon, blocked, dying, exported, tii,
                 ctx, dm, dmPkg, pa, raised, cbTrouble, aborted>>

\* Once a second, until the update has failed ...
AbortWait(t) ==
  /\ ab[t] = "wait"
  /\ dm = "UPDATE_FAILED"
  /\ AbortGoto(t, "context")
  /\ UNCHANGED <<deploy, monitorThread, gbRmCbPath, mon, blocked, dying, outside,
                 history>>

\* ... or DUCC does not answer.
AbortWaitFails(t) ==
  /\ ab[t] = "wait"
  /\ AbortGoto(t, "context") /\ ctxTrouble' = TRUE
  /\ UNCHANGED <<deploy, monitorThread, gbRmCbPath, mon, blocked, dying, outside,
                 cbTrouble, aborted>>

AbortContext(t) ==
  /\ ab[t] = "context"
  /\ UpdateContext(NoPkg)
  /\ AbortGoto(t, "join")
  /\ UNCHANGED <<deploy, monitorThread, gbRmCbPath, mon, blocked, dying, exported, tii,
                 master, raised, cbTrouble, aborted>>

\* Variant with a bug: the monitor is not waited for.
DoesNotJoin(t) == UNCHANGED mon

\* pthread_join(monitorThread): EDEADLK for a monitor that joins itself; a thread id
\* that was never created or already joined is undefined, here it returns or (Crash)
\* ends the process.
Join(t) ==
  \/ /\ monitorThread \in Monitors /\ mon[monitorThread] = "ended"
     /\ mon' = [mon EXCEPT ![monitorThread] = "free"]
  \/ /\ monitorThread \in {m \in Monitors : mon[m] = "free"} \union {NoThread, t}
     /\ UNCHANGED mon

AbortJoin(t) ==
  /\ ab[t] = "join"
  /\ Join(t)
  /\ AbortGoto(t, "runlevel")
  /\ UNCHANGED <<deploy, monitorThread, gbRmCbPath, blocked, dying, outside, history>>

\* The run level back to RL_DORMANT; then back to the prompt, or exit(), which is
\* not preceded by cleanUpConn.
AbortRunLevel(t) ==
  /\ ab[t] = "runlevel"
  /\ \/ RequestRunLevel(FALSE)
        /\ aborted' = ~(ctxTrouble \/ cbTrouble)
     \/ UNCHANGED <<raised, pa>> /\ aborted' = FALSE
  /\ IF t \in dying
     THEN Gone /\ cbTrouble' = (cbTrouble \/ (t # Main /\ tii))
     ELSE /\ AbortGoto(t, "none")
          /\ blocked' = blocked \ {t}
          /\ Back
          /\ UNCHANGED <<quit, monitorThread, gbRmCbPath, mon, dying, exported,
                         cbTrouble>>
  /\ UNCHANGED <<tii, ctx, dm, dmPkg, aborting, ctxTrouble>>

-----------------------------------------------------------------------------
(* The other commands *)

\* set_runlevel.
SetRunLevel ==
  /\ Prompt
  /\ \/ \E up \in BOOLEAN : RequestRunLevel(up)
     \/ UNCHANGED <<raised, pa>>
  /\ aborted' = FALSE
  /\ Back
  /\ UNCHANGED <<quit, monitorThread, gbRmCbPath, mon, blocked, ab, dying, exported,
                 tii, ctx, dm, dmPkg, aborting, ctxTrouble, cbTrouble>>

\* exit cancels the monitor created last, with an abort its signal handler is in; main
\* joins it, cleans up and returns.
Leave ==
  /\ Prompt
  /\ main' = "join" /\ quit' = TRUE
  /\ IF monitorThread \in Monitors /\ Running(monitorThread)
     THEN /\ mon' = [mon EXCEPT ![monitorThread] = "ended"]
          /\ AbortGoto(monitorThread, "none")
          /\ dying' = dying \ {monitorThread}
     ELSE UNCHANGED <<mon, ab, dying>>
  /\ UNCHANGED <<pkg, monitorThread, gbRmCbPath, blocked, outside, history>>

End ==
  /\ main = "join"
  /\ \/ monitorThread \notin Monitors
     \/ monitorThread \in Monitors /\ ~Running(monitorThread)
  /\ Deregistered
  /\ Gone
  /\ UNCHANGED <<ctx, master, raised, ctxTrouble, aborted>>

-----------------------------------------------------------------------------

DeployStep ==
  \/ DeployExport \/ DeployRegister \/ DeployRegistered \/ DeployStatus
  \/ DeployTrigger \/ DeployContext \/ DeployMonitor

MonitorStep(m) ==
  \/ MonitorSeesEnd(m) \/ MonitorSeesPending(m)
  \/ MonitorRequestsRunLevel(m) \/ MonitorClearsContext(m)

AbortStep(t) ==
  \/ AbortStatus(t) \/ AbortWait(t) \/ AbortContext(t) \/ AbortJoin(t)
  \/ AbortRunLevel(t)

Command ==
  \/ \E p \in Packages, u \in BOOLEAN : Deploy(p, u)
  \/ AbortCommand \/ SetRunLevel \/ Leave

MasterStep ==
  MasterStarts \/ MasterNeedsRunLevel \/ MasterEnds \/ MasterAborts

Next ==
  \/ \E oneShot \in BOOLEAN : Start(oneShot)
  \/ Command \/ DeployStep \/ End
  \/ \E m \in Monitors : MonitorStep(m) \/ MonitorFails(m)
  \/ \E t \in Threads : AbortStep(t) \/ AbortWaitFails(t) \/ AbortSignal(t)
  \/ MasterStep \/ MasterRestarts
  \/ Crash \/ Interrupt

Spec == Init /\ [][Next]_vars

\* Threads run on, calls need not fail, and DU Master gets on with what it does.
\* Users, signals, crashes and restarts are optional.
FairSpec ==
  /\ Spec
  /\ WF_vars(DeployStep) /\ WF_vars(End)
  /\ \A m \in Monitors : WF_vars(MonitorStep(m))
  /\ \A t \in Threads : WF_vars(AbortStep(t))
  /\ WF_vars(MasterStep)

-----------------------------------------------------------------------------
(* Properties *)

ClientTypeOK ==
  /\ main \in {"gone", "prompt", "export", "register", "registered", "status",
               "trigger", "context", "monitor", "handler", "join"}
  /\ pkg \in Packages \union {NoPkg} /\ quit \in BOOLEAN
  /\ monitorThread \in Monitors \union {NoThread}
  /\ gbRmCbPath \in BOOLEAN
  /\ mon \in [Monitors -> {"free", "poll", "runlevel", "clear", "handler", "ended"}]
  /\ blocked \subseteq Threads /\ dying \subseteq Threads
  /\ ab \in [Threads -> {"none", "status", "wait", "context", "join", "runlevel"}]
  /\ exported \in BOOLEAN /\ tii \in BOOLEAN
  /\ ctx \in Packages \union {NoPkg}
  /\ dm \in States /\ dmPkg \in Packages \union {NoPkg}
  /\ pa \in BOOLEAN /\ aborting \in BOOLEAN /\ raised \in BOOLEAN
  /\ ctxTrouble \in BOOLEAN /\ cbTrouble \in BOOLEAN /\ aborted \in BOOLEAN

\* While an update runs the persistent context names its package, so that a client
\* that is killed and started again goes on monitoring it: no monitor and no
\* abort clears it too early, over any number of restarts.  (ctxTrouble: a write
\* failed, DUCC did not answer an abort, a deploy was refused or began before the
\* monitor of the one before had ended, or the client died between the trigger and
\* the write.)
ContextNamesUpdate ==
  Updating /\ ~ctxTrouble /\ main # "context" => ctx = dmPkg

\* The client and DU TII agree on whether push_cb is registered, across aborts,
\* signals and the next push update; a client that ends leaves nothing registered.
\* (cbTrouble: DU TII did not answer, or the client died in between.)
CallbackTracked ==
  ~cbTrouble /\ main # "registered" =>
    tii = gbRmCbPath /\ (gbRmCbPath => exported)

\* After an abort that met no error nothing is left of the update, and no
\* monitor that saw PA_RUNLEVEL before raises the run level after it was brought
\* back: abortDeploy joins it first.
AbortLeavesNothing ==
  aborted => ~Updating /\ ctx = NoPkg /\ ~raised /\ ~tii

\* When the update has failed for good no abort keeps waiting, for DU Master or for
\* a monitor.
AbortEnds == <>[](dm = "UPDATE_FAILED") => []<>~Aborting

-----------------------------------------------------------------------------
(* What the documentation says and the code does not do *)

\* README.md on driveupdate: "Exits when state reaches UP_TO_DATE or UPDATE_FAILED".
\* abortDeploy only looks for UPDATE_FAILED.
EndsWithTheUpdate ==
  <>[](dm \in {"UP_TO_DATE", "UPDATE_FAILED"}) => []<>~Aborting

=============================================================================
