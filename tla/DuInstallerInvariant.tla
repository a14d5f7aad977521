------------------------ MODULE DuInstallerInvariant ------------------------
(***************************************************************************)
(* The inductive invariant of DuInstaller from which DuInstallerProofs      *)
(* derives its safety properties.                                           *)
(***************************************************************************)
EXTENDS DuInstallerRefinement

\* The main thread is inside setState, before the state changes.
Moving == pc \in {"setState", "reset", "setInstallerState"}

\* The state the main thread is in or, inside setState, bound for.
Target == IF Moving THEN goal ELSE state

\* From which states setState is called with which target.  IDLE to IDLE is the
\* call installerInit makes.
Moves ==
  {<<"IDLE", "IDLE">>, <<"IDLE", "PENDING_RL">>, <<"IDLE", "INSTALLING">>,
   <<"PENDING_RL", "INSTALLING">>, <<"INSTALLING", "PENDING_COMMIT">>,
   <<"PENDING_COMMIT", "IDLE">>, <<"ERROR", "IDLE">>}
    \union States \X {"ERROR"}

\* Where the main thread is agrees with the state.
PlaceOK ==
  /\ pc \in {"boot", "register", "exited", "setPendingRl"} => state = "IDLE"
  /\ pc \in {"boot", "register"} => goal = "IDLE"
  /\ pc = "clearPendingRl" => state = "PENDING_RL"
  /\ pc = "copy" => state = "INSTALLING"
  /\ pc = "commit" => state = "PENDING_COMMIT"
  /\ Moving => <<state, goal>> \in Moves
  /\ pc = "reset" => goal \in {"IDLE", "PENDING_COMMIT", "ERROR"}

\* A command that is being worked on is parsed and still pending, so that no
\* callback can replace it and no reset can drop another one.
Working ==
  \/ pc \in {"setPendingRl", "clearPendingRl", "copy", "commit"}
  \/ Target \in {"PENDING_RL", "INSTALLING"}
  \/ pc \in {"setState", "reset"} /\ ~Starting

CommandOK ==
  /\ Working => bCmdPending /\ taken
  /\ pc = "setPendingRl" \/ Target \in {"PENDING_RL", "INSTALLING"} =>
       (cmdId = "deploy" => filePath \in Paths)
  /\ pc = "copy" => filePath = deployedPath

\* The run level was seen, or is still awaited under the right threshold.
RunLevelOK ==
  /\ pendingRl \in {RL_BG_APPLY, RL_INVALID}
  /\ Target = "PENDING_RL" => pendingRl = RL_BG_APPLY
  /\ currentRl >= RL_BG_APPLY => rlReached
  /\ pc = "clearPendingRl" \/ Target = "INSTALLING" \/ state = "INSTALLING"
       => rlReached

\* bUpdateFailed is set from the way into ERROR to the way out of it.
FailureOK ==
  /\ bUpdateFailed =>
       state = "ERROR" \/ (goal = "ERROR" /\ pc \in {"reset", "setInstallerState"})
  /\ state = "ERROR" =>
       bUpdateFailed \/ (goal = "IDLE" /\ pc = "setInstallerState")
  /\ pc = "setInstallerState" /\ goal = "IDLE" => ~bUpdateFailed
  /\ pc \in {"reset", "setInstallerState"} /\ goal = "ERROR" => bUpdateFailed
  /\ state = "ERROR" /\ Moving /\ goal = "IDLE" =>
       /\ cmdId = "clear_error"
       /\ pc # "setState" => lastDeployedResult = "FAILED"

\* The staged file: what has been read so far, then all of it, then the committed
\* file.
CopyOK ==
  /\ pc = "copy" =>
       /\ stagedFile \in Files /\ deployedPath \in Paths
       /\ remaining <= Size[deployedPath]
       /\ staged[stagedFile] =
            [src |-> deployedPath, len |-> Size[deployedPath] - remaining]
  /\ Target = "PENDING_COMMIT" =>
       /\ stagedFile \in Files /\ deployedPath \in Paths
       /\ filePath = deployedPath
       /\ ~FlushMayFail => staged[stagedFile] = Full(deployedPath)
  /\ state = "PENDING_COMMIT" /\ goal = "IDLE" /\ pc \in {"setState", "reset"} =>
       /\ stagedFile \in Files /\ filePath \in Paths
       /\ staged[stagedFile] = Absent
       /\ ~FlushMayFail => saved[CommitFile(stagedFile)] = Full(filePath)
       /\ pc = "reset" => lastDeployedResult = "SUCCESS"
                          /\ lastDeployedMetadata = filePath
  /\ state = "PENDING_COMMIT" /\ goal = "IDLE" /\ pc = "setInstallerState" =>
       stagedFile = NoFile

IInv ==
  /\ TypeOK
  /\ PlaceOK
  /\ CommandOK
  /\ RunLevelOK
  /\ FailureOK
  /\ CopyOK
  /\ ~FlushMayFail => CommittedComplete

=============================================================================
