-------------------------- MODULE DuInstallerProofs --------------------------
(***************************************************************************)
(* Proofs about DuInstaller: IInv is inductive, the safety properties that  *)
(* follow from it, and the refinement of InstallerPromise.                  *)
(***************************************************************************)
EXTENDS DuInstallerInvariant, TLAPS

-----------------------------------------------------------------------------
(* Facts about the operators *)

\* What setInstallerPendingRl stores is one of the two levels it chooses from.
LEMMA MergedPendingRlType ==
  ASSUME NEW old \in AnyRunLevel, NEW wanted \in AnyRunLevel
  PROVE  /\ MergedPendingRl(old, wanted) \in AnyRunLevel
         /\ MergedPendingRl(old, wanted) \in {old, wanted}
  BY DEF MergedPendingRl, AnyRunLevel, RL_DORMANT, RL_INVALID

\* The values the variables start with have their types.
LEMMA ConstantsTyped ==
  /\ NoCmd \in Command
  /\ RL_DORMANT \in ValidRunLevel
  /\ RL_INVALID \in AnyRunLevel /\ RL_BG_APPLY \in AnyRunLevel
  /\ Absent \in Content
  BY DEF NoCmd, Command, Words, Absent, Content, ValidRunLevel, AnyRunLevel,
     RL_DORMANT, RL_INVALID, RL_BG_APPLY

\* The final name of a staged file is a file of the same directory.
LEMMA CommitFileType ==
  ASSUME NEW f \in Files
  PROVE  CommitFile(f) \in Files
  BY InstallerAssumption DEF CommitFile, Files

\* execDeployCmd makes a staged path of a deploy command's path.
LEMMA StagedFileType ==
  ASSUME TypeOK, filePath \in Paths
  PROVE  SaveName \in Names /\ StagedFile \in Files
<1>1. SaveName \in Names
  BY InstallerAssumption DEF TypeOK, SaveName
<1>2. JoinDir(installDir) \in {Cwd, Root}
  BY DEF TypeOK, JoinDir
<1> QED
  BY <1>1, <1>2 DEF StagedFile, Files

-----------------------------------------------------------------------------
(* Every step preserves each part of IInv *)

\* What DU Link may deliver: any command, any run level, in any order.
AnyCallback ==
  \/ \E c \in Command : InstallerCmdCB(c)
  \/ \E rl \in ValidRunLevel : StoreRunLevel(rl)
  \/ SignalRunLevel
  \/ InstallerPersistCtxCB

\* The steps of Next, whatever Requests and RunLevelRequests are.
AnyStep == MainStep \/ AnyCallback \/ CrashRestart

\* The clients of Next are among them.
LEMMA NextIsAnyStep == Next => AnyStep
BY InstallerAssumption DEF Next, CallbackStep, AnyStep, AnyCallback

\* Every variable keeps its type.
LEMMA TypeStep ==
  ASSUME IInv, [AnyStep]_vars
  PROVE  TypeOK'
<1> USE DEF IInv, TypeOK
<1>1. CASE InstallerOpen \/ InstallerRegister
  BY <1>1 DEF InstallerOpen, InstallerRegister, SetState, States, Places,
     shared, buffers, control, files, history
<1>2. CASE WaitForCmd \/ WaitForRl \/ RlReached
  <2>1. pc' \in Places /\ asleep' \in BOOLEAN
    BY <1>2 DEF WaitForCmd, WaitForRl, RlReached, Places
  <2> QED
    BY <1>2, <2>1 DEF WaitForCmd, WaitForRl, RlReached, shared, buffers, files,
       history
<1>3. CASE IdleTakeCmd \/ PendingCommitTakeCmd \/ ErrorTakeCmd
  <2>1. TakeCmd /\ pc' \in Places /\ goal' \in States
    BY <1>3 DEF IdleTakeCmd, PendingCommitTakeCmd, ErrorTakeCmd, SetState,
       States, Places
  <2>3. rlReached' \in BOOLEAN
    <3>1. CASE IdleTakeCmd
      <4>1. (currentRl >= RL_BG_APPLY) \in BOOLEAN
        BY DEF RL_BG_APPLY, ValidRunLevel, RL_DORMANT, RL_INVALID
      <4> QED
        BY <3>1, <4>1, Zenon DEF IdleTakeCmd
    <3>2. CASE PendingCommitTakeCmd \/ ErrorTakeCmd
      BY <3>2 DEF PendingCommitTakeCmd, ErrorTakeCmd
    <3> QED
      BY <1>3, <3>1, <3>2
  <2>2. /\ cmdId' \in Words \ {"other"} /\ filePath' \in Paths \union {NoPath}
        /\ savename' \in Names \union {NoName}
    BY <2>1 DEF TakeCmd, ParseCmd, ParseOK, Command, Words
  <2> QED
    BY <2>1, <2>2, <2>3 DEF TakeCmd, shared, files
<1>4. CASE RaisePendingRl \/ ClearPendingRl
  BY <1>4, ConstantsTyped, MergedPendingRlType DEF RaisePendingRl,
     ClearPendingRl, SetPendingRl, SetState, States, Places, buffers, files,
     history
<1>5. CASE RejectNonDeploy \/ DeployNoSource
  BY <1>5 DEF RejectNonDeploy, DeployNoSource, SetState, States, Places,
     shared, buffers, control, files, history
<1>6. CASE OpenStaged
  <2>1. filePath \in Paths
    BY <1>6 DEF OpenStaged, CommandOK, Target, Moving
  <2>2. [src |-> filePath, len |-> 0] \in Content /\ Size[filePath] \in Nat
    BY <2>1, InstallerAssumption DEF Content
  <2>3. staged' \in [Files -> Content] /\ remaining' \in Nat
    <3>1. CASE UNCHANGED <<remaining, staged>>
      BY <3>1
    <3>2. CASE /\ staged' = [staged EXCEPT ![StagedFile] =
                                [src |-> filePath, len |-> 0]]
               /\ remaining' = Size[filePath]
      BY <2>1, <2>2, <3>2, StagedFileType
    <3> QED
      BY <1>6, <3>1, <3>2 DEF OpenStaged
  <2>4. pc' \in Places /\ goal' \in States
    BY <1>6 DEF OpenStaged, SetState, Places, States
  <2> QED
    BY <1>6, <2>1, <2>3, <2>4, StagedFileType DEF OpenStaged, shared
<1>7. CASE \E n \in 1..MAX_CHUNK_LEN : CopyChunk(n)
  <2> PICK n \in 1..MAX_CHUNK_LEN : CopyChunk(n)
    BY <1>7
  <2>1. stagedFile \in Files /\ staged[stagedFile] \in Content
    BY DEF CopyChunk, CopyOK
  <2>2. staged' \in [Files -> Content] /\ remaining' \in Nat
    BY <2>1, InstallerAssumption DEF CopyChunk, Content
  <2> QED
    BY <2>2 DEF CopyChunk, shared, buffers, history
<1>8. CASE CopyFails \/ CloseStaged
  <2>1. pc' \in Places /\ goal' \in States /\ remaining' \in Nat
    BY <1>8 DEF CopyFails, CloseStaged, SetState, Places, States
  <2>2. staged' \in [Files -> Content]
    <3>1. CASE CopyFails
      BY <3>1 DEF CopyFails, files
    <3>2. CASE CloseStaged
      <4>1. stagedFile \in Files /\ staged[stagedFile] \in Content
        BY <3>2 DEF CloseStaged, CopyOK
      <4> QED
        BY <3>2, <4>1 DEF CloseStaged, Content
    <3> QED
      BY <1>8, <3>1, <3>2
  <2> QED
    BY <1>8, <2>1, <2>2
    DEF CopyFails, CloseStaged, shared, buffers, files, history
<1>9. CASE ExecCommit \/ CommitFails
  <2>1. pc' \in Places /\ goal' \in States
    BY <1>9 DEF ExecCommit, CommitFails, SetState, Places, States
  <2>2. staged' \in [Files -> Content] /\ saved' \in [Files -> Content]
    <3>1. CASE CommitFails
      BY <3>1 DEF CommitFails, files
    <3>2. CASE ExecCommit
      <4>1. stagedFile \in Files /\ staged[stagedFile] \in Content
        BY <3>2 DEF ExecCommit, CopyOK, PlaceOK, Target, Moving
      <4> QED
        BY <3>2, <4>1, ConstantsTyped DEF ExecCommit
    <3> QED
      BY <1>9, <3>1, <3>2
  <2> QED
    BY <1>9, <2>1, <2>2
    DEF ExecCommit, CommitFails, shared, buffers, files, history
<1>10. CASE BeginSetState \/ ResetCmd
  <2>1. CASE BeginSetState
    BY <2>1 DEF BeginSetState, Places, files, history
  <2>2. CASE ResetCmd
    <3>1. /\ filePath' \in Paths \cup {NoPath} /\ savename' \in Names \cup {NoName}
          /\ stagedFile' \in Files \cup {NoFile} /\ installDir' \in {Cwd, Empty}
          /\ bUpdateFailed' \in BOOLEAN
      <4>1. CASE goal = "IDLE"
        BY <2>2, <4>1 DEF ResetCmd
      <4>2. CASE goal # "IDLE"
        BY <2>2, <4>2 DEF ResetCmd
      <4> QED
        BY <4>1, <4>2
    <3>2. installerCmd' \in Command /\ bCmdPending' \in BOOLEAN
      BY <2>2, ConstantsTyped DEF ResetCmd
    <3>3. pc' \in Places
      BY <2>2 DEF ResetCmd, Places
    <3> QED
      BY <2>2, <3>1, <3>2, <3>3 DEF ResetCmd, files, history
  <2> QED
    BY <1>10, <2>1, <2>2
<1>11. CASE SetInstallerState \/ NotifyState
  BY <1>11 DEF SetInstallerState, NotifyState, Places, shared, buffers,
     control, files, history
<1>12. CASE AnyCallback
  <2>1. CASE \E c \in Command : InstallerCmdCB(c)
    BY <2>1, InstallerAssumption DEF InstallerCmdCB, buffers, files
  <2>2. CASE \E rl \in ValidRunLevel : StoreRunLevel(rl)
    <3> PICK rl \in ValidRunLevel : StoreRunLevel(rl)
      BY <2>2
    <3>1. rlReached' \in BOOLEAN
      BY Zenon DEF StoreRunLevel
    <3> QED
      BY <3>1, InstallerAssumption DEF StoreRunLevel, buffers, files
  <2>3. CASE SignalRunLevel
    <3>1. rlStored' \in BOOLEAN /\ asleep' \in BOOLEAN
      BY <2>3 DEF SignalRunLevel
    <3> QED
      BY <2>3, <3>1 DEF SignalRunLevel, shared, buffers, files, history
  <2>4. CASE InstallerPersistCtxCB
    <3>1. bResumePending' \in BOOLEAN /\ asleep' \in BOOLEAN
      BY <2>4 DEF InstallerPersistCtxCB
    <3> QED
      BY <2>4, <3>1 DEF InstallerPersistCtxCB, buffers, files, history
  <2> QED
    BY <1>12, <2>1, <2>2, <2>3, <2>4 DEF AnyCallback
<1>13. CASE CrashRestart
  <2>1. state' \in States /\ goal' \in States /\ pc' \in Places
    BY <1>13 DEF CrashRestart, States, Places
  <2>2. cmdId' \in Words \ {"other"}
    BY <1>13 DEF CrashRestart, Words
  <2> QED
    BY <1>13, <2>1, <2>2, ConstantsTyped DEF CrashRestart, files
<1>14. CASE UNCHANGED vars
  BY <1>14 DEF vars, shared, buffers, control, files, history
<1> QED
  BY <1>1, <1>2, <1>3, <1>4, <1>5, <1>6, <1>7, <1>8, <1>9, <1>10, <1>11,
     <1>12, <1>13, <1>14 DEF AnyStep, MainStep

\* Where the main thread is keeps agreeing with the state.
LEMMA PlaceStep ==
  ASSUME IInv, [AnyStep]_vars
  PROVE  PlaceOK'
<1> USE DEF IInv, PlaceOK, Moving, Moves, States
<1>1. CASE InstallerOpen \/ InstallerRegister
  BY <1>1 DEF InstallerOpen, InstallerRegister, SetState, shared, buffers,
     control, files, history
<1>2. CASE WaitForCmd \/ WaitForRl \/ RlReached
  BY <1>2 DEF WaitForCmd, WaitForRl, RlReached, shared, buffers, control,
     files, history
<1>3. CASE IdleTakeCmd \/ PendingCommitTakeCmd \/ ErrorTakeCmd
  BY <1>3 DEF IdleTakeCmd, PendingCommitTakeCmd, ErrorTakeCmd, TakeCmd,
     ParseCmd, ParseOK, SetState, shared, buffers, control, files, history
<1>4. CASE RaisePendingRl \/ ClearPendingRl
  BY <1>4 DEF RaisePendingRl, ClearPendingRl, SetPendingRl, SetState,
     shared, buffers, control, files, history
<1>5. CASE RejectNonDeploy \/ DeployNoSource
  BY <1>5 DEF RejectNonDeploy, DeployNoSource, SetState, shared, buffers,
     control, files, history
<1>6. CASE OpenStaged
  BY <1>6 DEF OpenStaged, SetState, shared, buffers, control, files,
     history
<1>7. CASE \E n \in 1..MAX_CHUNK_LEN : CopyChunk(n)
  BY <1>7 DEF CopyChunk, shared, buffers, control, files, history
<1>8. CASE CopyFails \/ CloseStaged
  BY <1>8 DEF CopyFails, CloseStaged, SetState, shared, buffers, control,
     files, history
<1>9. CASE ExecCommit \/ CommitFails
  BY <1>9 DEF ExecCommit, CommitFails, SetState, shared, buffers, control,
     files, history
<1>10. CASE BeginSetState \/ ResetCmd
  BY <1>10 DEF BeginSetState, ResetCmd, shared, buffers, control, files,
     history
<1>11. CASE SetInstallerState \/ NotifyState
  BY <1>11 DEF SetInstallerState, NotifyState, shared, buffers, control,
     files, history
<1>12. CASE AnyCallback
  BY <1>12 DEF AnyCallback, InstallerCmdCB, StoreRunLevel,
     SignalRunLevel, InstallerPersistCtxCB, Serving, shared, buffers,
     control, files, history
<1>13. CASE CrashRestart
  BY <1>13 DEF CrashRestart, shared, buffers, control, files, history
<1>14. CASE UNCHANGED vars
  BY <1>14 DEF vars, shared, buffers, control, files, history
<1> QED
  BY <1>1, <1>2, <1>3, <1>4, <1>5, <1>6, <1>7, <1>8, <1>9, <1>10, <1>11,
     <1>12, <1>13, <1>14 DEF AnyStep, MainStep

\* A command being worked on stays pending, and stays the one that was parsed.
LEMMA CommandStep ==
  ASSUME IInv, [AnyStep]_vars
  PROVE  CommandOK'
<1> USE DEF IInv, TypeOK, PlaceOK, CommandOK, Working, Target, Moving, Moves, Starting
<1>1. CASE InstallerOpen \/ InstallerRegister
  BY <1>1 DEF InstallerOpen, InstallerRegister, SetState, shared, buffers,
     control, files, history
<1>2. CASE WaitForCmd \/ WaitForRl \/ RlReached
  BY <1>2 DEF WaitForCmd, WaitForRl, RlReached, shared, buffers, control,
     files, history
<1>3. CASE IdleTakeCmd \/ PendingCommitTakeCmd \/ ErrorTakeCmd
  BY <1>3 DEF IdleTakeCmd, PendingCommitTakeCmd, ErrorTakeCmd, TakeCmd,
     ParseCmd, ParseOK, SetState, Command, Words, shared, buffers,
     control, files, history
<1>4. CASE RaisePendingRl \/ ClearPendingRl
  BY <1>4 DEF RaisePendingRl, ClearPendingRl, SetPendingRl, SetState,
     shared, buffers, control, files, history
<1>5. CASE RejectNonDeploy \/ DeployNoSource
  BY <1>5 DEF RejectNonDeploy, DeployNoSource, SetState, shared, buffers,
     control, files, history
<1>6. CASE OpenStaged
  BY <1>6 DEF OpenStaged, SetState, shared, buffers, control, files,
     history
<1>7. CASE \E n \in 1..MAX_CHUNK_LEN : CopyChunk(n)
  BY <1>7 DEF CopyChunk, shared, buffers, control, files, history
<1>8. CASE CopyFails \/ CloseStaged
  BY <1>8 DEF CopyFails, CloseStaged, SetState, shared, buffers, control,
     files, history
<1>9. CASE ExecCommit \/ CommitFails
  BY <1>9 DEF ExecCommit, CommitFails, SetState, shared, buffers, control,
     files, history
<1>10. CASE BeginSetState \/ ResetCmd
  BY <1>10 DEF BeginSetState, ResetCmd, shared, buffers, control, files,
     history
<1>11. CASE SetInstallerState \/ NotifyState
  BY <1>11 DEF SetInstallerState, NotifyState, shared, buffers, control,
     files, history
<1>12. CASE AnyCallback
  BY <1>12 DEF AnyCallback, InstallerCmdCB, StoreRunLevel,
     SignalRunLevel, InstallerPersistCtxCB, Serving, shared, buffers,
     control, files, history
<1>13. CASE CrashRestart
  BY <1>13 DEF CrashRestart, shared, buffers, control, files, history
<1>14. CASE UNCHANGED vars
  BY <1>14 DEF vars, shared, buffers, control, files, history
<1> QED
  BY <1>1, <1>2, <1>3, <1>4, <1>5, <1>6, <1>7, <1>8, <1>9, <1>10, <1>11,
     <1>12, <1>13, <1>14 DEF AnyStep, MainStep

\* The run level that was seen, or is awaited, stays on record until INSTALLING.
LEMMA RunLevelStep ==
  ASSUME IInv, [AnyStep]_vars
  PROVE  RunLevelOK'
<1> USE DEF IInv, TypeOK, PlaceOK, RunLevelOK, Target, Moving, Moves, RL_BG_APPLY, RL_INVALID, RL_DORMANT, ValidRunLevel
<1>1. CASE InstallerOpen \/ InstallerRegister
  BY <1>1 DEF InstallerOpen, InstallerRegister, SetState, shared, buffers,
     control, files, history
<1>2. CASE WaitForCmd \/ WaitForRl \/ RlReached
  BY <1>2 DEF WaitForCmd, WaitForRl, RlReached, AwaitingRl, shared,
     buffers, control, files, history
<1>3. CASE IdleTakeCmd \/ PendingCommitTakeCmd \/ ErrorTakeCmd
  BY <1>3 DEF IdleTakeCmd, PendingCommitTakeCmd, ErrorTakeCmd, TakeCmd,
     ParseCmd, ParseOK, SetState, shared, buffers, control, files, history
<1>4. CASE RaisePendingRl \/ ClearPendingRl
  BY <1>4 DEF RaisePendingRl, ClearPendingRl, SetPendingRl, SetState,
     MergedPendingRl, shared, buffers, control, files, history
<1>5. CASE RejectNonDeploy \/ DeployNoSource
  BY <1>5 DEF RejectNonDeploy, DeployNoSource, SetState, shared, buffers,
     control, files, history
<1>6. CASE OpenStaged
  BY <1>6 DEF OpenStaged, SetState, shared, buffers, control, files,
     history
<1>7. CASE \E n \in 1..MAX_CHUNK_LEN : CopyChunk(n)
  BY <1>7 DEF CopyChunk, shared, buffers, control, files, history
<1>8. CASE CopyFails \/ CloseStaged
  BY <1>8 DEF CopyFails, CloseStaged, SetState, shared, buffers, control,
     files, history
<1>9. CASE ExecCommit \/ CommitFails
  BY <1>9 DEF ExecCommit, CommitFails, SetState, shared, buffers, control,
     files, history
<1>10. CASE BeginSetState \/ ResetCmd
  BY <1>10 DEF BeginSetState, ResetCmd, shared, buffers, control, files,
     history
<1>11. CASE SetInstallerState \/ NotifyState
  BY <1>11 DEF SetInstallerState, NotifyState, shared, buffers, control,
     files, history
<1>12. CASE AnyCallback
  BY <1>12, InstallerAssumption DEF AnyCallback, InstallerCmdCB,
     StoreRunLevel, SignalRunLevel, InstallerPersistCtxCB, Serving,
     shared, buffers, control, files, history
<1>13. CASE CrashRestart
  BY <1>13 DEF CrashRestart, shared, buffers, control, files, history
<1>14. CASE UNCHANGED vars
  BY <1>14 DEF vars, shared, buffers, control, files, history
<1> QED
  BY <1>1, <1>2, <1>3, <1>4, <1>5, <1>6, <1>7, <1>8, <1>9, <1>10, <1>11,
     <1>12, <1>13, <1>14 DEF AnyStep, MainStep

\* bUpdateFailed stays set from the way into ERROR to the way out of it.
LEMMA FailureStep ==
  ASSUME IInv, [AnyStep]_vars
  PROVE  FailureOK'
<1> USE DEF IInv, TypeOK, PlaceOK, FailureOK, Moving, Moves
<1>1. CASE InstallerOpen \/ InstallerRegister
  BY <1>1 DEF InstallerOpen, InstallerRegister, SetState, shared, buffers,
     control, files, history
<1>2. CASE WaitForCmd \/ WaitForRl \/ RlReached
  BY <1>2 DEF WaitForCmd, WaitForRl, RlReached, shared, buffers, control,
     files, history
<1>3. CASE IdleTakeCmd \/ PendingCommitTakeCmd \/ ErrorTakeCmd
  BY <1>3 DEF IdleTakeCmd, PendingCommitTakeCmd, ErrorTakeCmd, TakeCmd,
     ParseCmd, ParseOK, SetState, shared, buffers, control, files, history
<1>4. CASE RaisePendingRl \/ ClearPendingRl
  BY <1>4 DEF RaisePendingRl, ClearPendingRl, SetPendingRl, SetState,
     shared, buffers, control, files, history
<1>5. CASE RejectNonDeploy \/ DeployNoSource
  BY <1>5 DEF RejectNonDeploy, DeployNoSource, SetState, shared, buffers,
     control, files, history
<1>6. CASE OpenStaged
  BY <1>6 DEF OpenStaged, SetState, shared, buffers, control, files,
     history
<1>7. CASE \E n \in 1..MAX_CHUNK_LEN : CopyChunk(n)
  BY <1>7 DEF CopyChunk, shared, buffers, control, files, history
<1>8. CASE CopyFails \/ CloseStaged
  BY <1>8 DEF CopyFails, CloseStaged, SetState, shared, buffers, control,
     files, history
<1>9. CASE ExecCommit \/ CommitFails
  BY <1>9 DEF ExecCommit, CommitFails, SetState, shared, buffers, control,
     files, history
<1>10. CASE BeginSetState \/ ResetCmd
  BY <1>10 DEF BeginSetState, ResetCmd, shared, buffers, control, files,
     history
<1>11. CASE SetInstallerState \/ NotifyState
  BY <1>11 DEF SetInstallerState, NotifyState, shared, buffers, control,
     files, history
<1>12. CASE AnyCallback
  BY <1>12 DEF AnyCallback, InstallerCmdCB, StoreRunLevel,
     SignalRunLevel, InstallerPersistCtxCB, Serving, shared, buffers,
     control, files, history
<1>13. CASE CrashRestart
  BY <1>13 DEF CrashRestart, shared, buffers, control, files, history
<1>14. CASE UNCHANGED vars
  BY <1>14 DEF vars, shared, buffers, control, files, history
<1> QED
  BY <1>1, <1>2, <1>3, <1>4, <1>5, <1>6, <1>7, <1>8, <1>9, <1>10, <1>11,
     <1>12, <1>13, <1>14 DEF AnyStep, MainStep

\* The staged file keeps holding what the copy loop has read.
LEMMA CopyStep ==
  ASSUME IInv, [AnyStep]_vars
  PROVE  CopyOK'
<1> USE DEF IInv, CopyOK, Target, Moving
<1>1. CASE InstallerOpen \/ InstallerRegister
  BY <1>1 DEF InstallerOpen, InstallerRegister, SetState, PlaceOK, Moves,
     shared, buffers, control, files, history
<1>2. CASE WaitForCmd \/ WaitForRl \/ RlReached
  BY <1>2 DEF WaitForCmd, WaitForRl, RlReached, PlaceOK, Moves, shared,
     buffers, control, files, history
<1>3. CASE IdleTakeCmd \/ PendingCommitTakeCmd \/ ErrorTakeCmd
  BY <1>3 DEF IdleTakeCmd, PendingCommitTakeCmd, ErrorTakeCmd, TakeCmd,
     ParseCmd, ParseOK, SetState, PlaceOK, Moves, shared, buffers,
     control, files, history
<1>4. CASE RaisePendingRl \/ ClearPendingRl
  BY <1>4 DEF RaisePendingRl, ClearPendingRl, SetPendingRl, SetState,
     PlaceOK, Moves, shared, buffers, control, files, history
<1>5. CASE RejectNonDeploy \/ DeployNoSource
  BY <1>5 DEF RejectNonDeploy, DeployNoSource, SetState, PlaceOK, Moves,
     shared, buffers, control, files, history
<1>6. CASE OpenStaged
  <2>1. filePath \in Paths
    BY <1>6 DEF OpenStaged, CommandOK, Target, Moving
  <2>2. CASE SetState("ERROR")
    BY <1>6, <2>2 DEF OpenStaged, SetState, shared
  <2>3. CASE /\ pc' = "copy" /\ remaining' = Size[filePath]
             /\ staged' = [staged EXCEPT ![StagedFile] =
                              [src |-> filePath, len |-> 0]]
    <3>1. Size[filePath] \in Nat
      BY <2>1, InstallerAssumption
    <3>2. StagedFile \in Files
      BY <2>1, StagedFileType
    <3>3. staged'[StagedFile] = [src |-> filePath, len |-> 0]
      BY <2>3, <3>2 DEF TypeOK
    <3> QED
      BY <1>6, <2>1, <2>3, <3>1, <3>2, <3>3 DEF OpenStaged, shared
  <2> QED
    BY <1>6, <2>2, <2>3 DEF OpenStaged
<1>7. CASE \E n \in 1..MAX_CHUNK_LEN : CopyChunk(n)
  <2> PICK n \in 1..MAX_CHUNK_LEN : CopyChunk(n)
    BY <1>7
  <2> QED
    BY InstallerAssumption DEF CopyChunk, TypeOK, PlaceOK, shared, buffers,
       history
<1>8. CASE CopyFails \/ CloseStaged
  <2>1. CASE CopyFails
    BY <2>1 DEF CopyFails, SetState, PlaceOK, shared
  <2>2. CASE CloseStaged
    <3>1. /\ stagedFile \in Files /\ deployedPath \in Paths
          /\ filePath = deployedPath /\ state = "INSTALLING"
          /\ staged[stagedFile] = Full(deployedPath)
      BY <2>2, InstallerAssumption DEF CloseStaged, CommandOK, PlaceOK, Full
    <3>2. ~FlushMayFail => staged' = staged
      BY <2>2 DEF CloseStaged
    <3> QED
      BY <2>2, <3>1, <3>2
      DEF CloseStaged, SetState, Full, shared, buffers, history
  <2> QED
    BY <1>8, <2>1, <2>2
<1>9. CASE ExecCommit \/ CommitFails
  <2>1. CASE CommitFails
    BY <2>1 DEF CommitFails, SetState, PlaceOK, shared
  <2>2. CASE ExecCommit
    <3>1. /\ state = "PENDING_COMMIT"
          /\ stagedFile \in Files /\ deployedPath \in Paths
          /\ filePath = deployedPath
          /\ ~FlushMayFail => staged[stagedFile] = Full(deployedPath)
      BY <2>2 DEF ExecCommit, PlaceOK
    <3>2. staged'[stagedFile] = Absent
      BY <2>2, <3>1 DEF ExecCommit, TypeOK
    <3>3. ~FlushMayFail => saved'[CommitFile(stagedFile)] = Full(filePath)
      BY <2>2, <3>1, CommitFileType DEF ExecCommit, TypeOK
    <3> QED
      BY <2>2, <3>1, <3>2, <3>3
      DEF ExecCommit, SetState, CommitFile, Full, shared, buffers
  <2> QED
    BY <1>9, <2>1, <2>2
<1>10. CASE BeginSetState \/ ResetCmd
  <2>1. CASE ResetCmd
    BY <2>1 DEF ResetCmd, PlaceOK, Moves, files, history
  <2>2. CASE BeginSetState /\ goal = "IDLE" /\ state = "PENDING_COMMIT"
    <3>1. ~bUpdateFailed
      BY <2>2 DEF BeginSetState, FailureOK
    <3>2. lastDeployedResult' = "SUCCESS" /\ lastDeployedMetadata' = filePath
      BY <2>2, <3>1 DEF BeginSetState
    <3> QED
      BY <2>2, <3>2 DEF BeginSetState, CommitFile, files, history
  <2>3. CASE BeginSetState /\ ~(goal = "IDLE" /\ state = "PENDING_COMMIT")
    BY <2>3 DEF BeginSetState, PlaceOK, files, history
  <2> QED
    BY <1>10, <2>1, <2>2, <2>3
<1>11. CASE SetInstallerState \/ NotifyState
  BY <1>11 DEF SetInstallerState, NotifyState, PlaceOK, Moves, shared,
     buffers, control, files, history
<1>12. CASE AnyCallback
  BY <1>12 DEF AnyCallback, InstallerCmdCB, StoreRunLevel,
     SignalRunLevel, InstallerPersistCtxCB, Serving, PlaceOK, Moves,
     shared, buffers, control, files, history
<1>13. CASE CrashRestart
  BY <1>13 DEF CrashRestart, PlaceOK, Moves, shared, buffers, control,
     files, history
<1>14. CASE UNCHANGED vars
  BY <1>14 DEF vars, PlaceOK, Moves, shared, buffers, control, files,
     history
<1> QED
  BY <1>1, <1>2, <1>3, <1>4, <1>5, <1>6, <1>7, <1>8, <1>9, <1>10, <1>11,
     <1>12, <1>13, <1>14 DEF AnyStep, MainStep

\* Only whole copies get a final name, as long as fclose loses nothing.
LEMMA CommittedStep ==
  ASSUME IInv, ~FlushMayFail, [AnyStep]_vars
  PROVE  CommittedComplete'
<1> USE DEF IInv, CommittedComplete
<1>1. CASE InstallerOpen \/ InstallerRegister
  BY <1>1 DEF InstallerOpen, InstallerRegister, SetState, shared, buffers,
     control, files, history
<1>2. CASE WaitForCmd \/ WaitForRl \/ RlReached
  BY <1>2 DEF WaitForCmd, WaitForRl, RlReached, shared, buffers, control,
     files, history
<1>3. CASE IdleTakeCmd \/ PendingCommitTakeCmd \/ ErrorTakeCmd
  BY <1>3 DEF IdleTakeCmd, PendingCommitTakeCmd, ErrorTakeCmd, TakeCmd,
     ParseCmd, ParseOK, SetState, shared, buffers, control, files, history
<1>4. CASE RaisePendingRl \/ ClearPendingRl
  BY <1>4 DEF RaisePendingRl, ClearPendingRl, SetPendingRl, SetState,
     shared, buffers, control, files, history
<1>5. CASE RejectNonDeploy \/ DeployNoSource
  BY <1>5 DEF RejectNonDeploy, DeployNoSource, SetState, shared, buffers,
     control, files, history
<1>6. CASE OpenStaged
  BY <1>6 DEF OpenStaged, SetState, shared, buffers, control, files,
     history
<1>7. CASE \E n \in 1..MAX_CHUNK_LEN : CopyChunk(n)
  BY <1>7 DEF CopyChunk, shared, buffers, control, files, history
<1>8. CASE CopyFails \/ CloseStaged
  BY <1>8 DEF CopyFails, CloseStaged, SetState, shared, buffers, control,
     files, history
<1>9. CASE ExecCommit \/ CommitFails
  <2>1. CASE CommitFails
    BY <2>1 DEF CommitFails, files
  <2>2. CASE ExecCommit
    <3>1. stagedFile \in Files /\ staged[stagedFile] = Full(deployedPath)
      BY <2>2 DEF ExecCommit, CopyOK, PlaceOK, Target, Moving
    <3>2. \A f \in Files : saved'[f] \in {saved[f], Full(deployedPath)}
      BY <2>2, <3>1 DEF ExecCommit, TypeOK
    <3>3. Full(deployedPath) = Full(Full(deployedPath).src)
      BY DEF Full
    <3> QED
      BY <2>2, <3>2, <3>3 DEF ExecCommit, Full
  <2> QED
    BY <1>9, <2>1, <2>2
<1>10. CASE BeginSetState \/ ResetCmd
  BY <1>10 DEF BeginSetState, ResetCmd, shared, buffers, control, files,
     history
<1>11. CASE SetInstallerState \/ NotifyState
  BY <1>11 DEF SetInstallerState, NotifyState, shared, buffers, control,
     files, history
<1>12. CASE AnyCallback
  BY <1>12 DEF AnyCallback, InstallerCmdCB, StoreRunLevel,
     SignalRunLevel, InstallerPersistCtxCB, Serving, shared, buffers,
     control, files, history
<1>13. CASE CrashRestart
  BY <1>13 DEF CrashRestart, shared, buffers, control, files, history
<1>14. CASE UNCHANGED vars
  BY <1>14 DEF vars, shared, buffers, control, files, history
<1> QED
  BY <1>1, <1>2, <1>3, <1>4, <1>5, <1>6, <1>7, <1>8, <1>9, <1>10, <1>11,
     <1>12, <1>13, <1>14 DEF AnyStep, MainStep

-----------------------------------------------------------------------------
(* IInv is an invariant *)

\* The start satisfies the invariant.
LEMMA InitIInv == Init => IInv
<1> SUFFICES ASSUME Init PROVE IInv
  OBVIOUS
<1>1. state \in States /\ goal \in States /\ pc \in Places
  BY DEF Init, States, Places
<1>2. cmdId \in Words \ {"other"}
  BY DEF Init, Words
<1>3. TypeOK
  BY <1>1, <1>2, ConstantsTyped DEF Init, TypeOK
<1>4. PlaceOK /\ CommandOK /\ FailureOK /\ CopyOK
  BY DEF Init, PlaceOK, CommandOK, FailureOK, CopyOK, Working, Target, Moving
<1>5. RunLevelOK
  BY DEF Init, RunLevelOK, Target, Moving, RL_DORMANT, RL_BG_APPLY, RL_INVALID
<1>6. CommittedComplete
  BY DEF Init, CommittedComplete
<1> QED
  BY <1>3, <1>4, <1>5, <1>6 DEF IInv

\* Every step keeps the invariant, whoever the clients are.
LEMMA AnyStepIInv == IInv /\ [AnyStep]_vars => IInv'
<1> SUFFICES ASSUME IInv, [AnyStep]_vars PROVE IInv'
  OBVIOUS
<1>1. ~FlushMayFail => CommittedComplete'
  BY CommittedStep DEF IInv
<1> QED
  BY <1>1, TypeStep, PlaceStep, CommandStep, RunLevelStep, FailureStep, CopyStep
  DEF IInv

\* The invariant of the installer holds in every reachable state: where the main
\* thread of installerRun is agrees with DU_INSTALLER and with the files.
THEOREM Invariance == Spec => []IInv
<1>1. IInv /\ [Next]_vars => IInv'
  BY AnyStepIInv, NextIsAnyStep
<1> QED
  BY <1>1, InitIInv, PTL DEF Spec

\* Only setInstallerState and a restart change the state.
LEMMA StateChanges ==
  ASSUME Next, state' # state, pc' # "boot"
  PROVE  SetInstallerState
<1> USE DEF shared
<1>1. ~CrashRestart /\ ~CallbackStep
  BY DEF CrashRestart, CallbackStep, InstallerCmdCB, StoreRunLevel,
     SignalRunLevel, InstallerPersistCtxCB
<1>2. ~(InstallerOpen \/ InstallerRegister \/ WaitForCmd \/ IdleTakeCmd
        \/ PendingCommitTakeCmd \/ ErrorTakeCmd \/ WaitForRl \/ RlReached)
  BY DEF InstallerOpen, InstallerRegister, WaitForCmd, IdleTakeCmd, TakeCmd,
     PendingCommitTakeCmd, ErrorTakeCmd, WaitForRl, RlReached
<1>3. ~(RaisePendingRl \/ ClearPendingRl \/ RejectNonDeploy \/ DeployNoSource
        \/ OpenStaged)
  BY DEF RaisePendingRl, ClearPendingRl, SetPendingRl, RejectNonDeploy,
     DeployNoSource, OpenStaged
<1>4. ~((\E n \in 1..MAX_CHUNK_LEN : CopyChunk(n)) \/ CopyFails \/ CloseStaged
        \/ ExecCommit \/ CommitFails)
  BY DEF CopyChunk, CopyFails, CloseStaged, ExecCommit, CommitFails
<1>5. ~(BeginSetState \/ ResetCmd \/ NotifyState)
  BY DEF BeginSetState, ResetCmd, NotifyState
<1> QED
  BY <1>1, <1>2, <1>3, <1>4, <1>5 DEF Next, MainStep

\* Only the reset inside setState and a restart clear bCmdPending.
LEMMA PendingCleared ==
  ASSUME Next, bCmdPending, ~bCmdPending', pc' # "boot"
  PROVE  ResetCmd
<1> USE DEF shared
<1>1. ~CrashRestart /\ ~CallbackStep
  BY DEF CrashRestart, CallbackStep, InstallerCmdCB, StoreRunLevel,
     SignalRunLevel, InstallerPersistCtxCB
<1>2. ~(InstallerOpen \/ InstallerRegister \/ WaitForCmd \/ IdleTakeCmd
        \/ PendingCommitTakeCmd \/ ErrorTakeCmd \/ WaitForRl \/ RlReached)
  BY DEF InstallerOpen, InstallerRegister, WaitForCmd, IdleTakeCmd, TakeCmd,
     PendingCommitTakeCmd, ErrorTakeCmd, WaitForRl, RlReached
<1>3. ~(RaisePendingRl \/ ClearPendingRl \/ RejectNonDeploy \/ DeployNoSource
        \/ OpenStaged)
  BY DEF RaisePendingRl, ClearPendingRl, SetPendingRl, RejectNonDeploy,
     DeployNoSource, OpenStaged
<1>4. ~((\E n \in 1..MAX_CHUNK_LEN : CopyChunk(n)) \/ CopyFails \/ CloseStaged
        \/ ExecCommit \/ CommitFails)
  BY DEF CopyChunk, CopyFails, CloseStaged, ExecCommit, CommitFails
<1>5. ~(BeginSetState \/ SetInstallerState \/ NotifyState)
  BY DEF BeginSetState, SetInstallerState, NotifyState
<1> QED
  BY <1>1, <1>2, <1>3, <1>4, <1>5 DEF Next, MainStep

-----------------------------------------------------------------------------
(* The properties *)

\* In every reachable state every variable of the installer has its type: the
\* states, run levels, buffers and files of DU_INSTALLER and SAMPLE_INSTALLER.
THEOREM TypeCorrect == Spec => []TypeOK
<1>1. IInv => TypeOK
  BY DEF IInv
<1> QED
  BY <1>1, Invariance, PTL

\* A final name never holds anything but a whole copy of one source, for every
\* set of sources, names, commands and chunk sizes, as long as fclose loses
\* nothing (execDeployCmd, execCommitCmd).
THEOREM CommittedAlwaysComplete ==
  ASSUME ~FlushMayFail
  PROVE  Spec => []CommittedComplete
<1>1. IInv => CommittedComplete
  BY DEF IInv
<1> QED
  BY <1>1, Invariance, PTL

\* PENDING_COMMIT is only ever shown with a whole staged copy behind it
\* (execDeployCmd, setState), as long as fclose loses nothing.
THEOREM PendingCommitAlwaysStaged ==
  ASSUME ~FlushMayFail
  PROVE  Spec => []PendingCommitHasStaged
<1>1. IInv => PendingCommitHasStaged
  <2> SUFFICES ASSUME IInv, state = "PENDING_COMMIT", pc \in {"run", "notify"}
               PROVE  stagedFile # NoFile /\ staged[stagedFile] = Full(deployedPath)
    BY DEF PendingCommitHasStaged
  <2> QED
    BY InstallerAssumption DEF IInv, CopyOK, Target, Moving
<1> QED
  BY <1>1, Invariance, PTL

\* No deploy starts on a run level that was too low ever since its command was
\* taken (installerStateIdle, installerStatePendingRL), whatever run levels DU
\* Master writes and when.
THEOREM InstallAlwaysAfterRunLevel == Spec => []InstallOnlyAfterRunLevel
<1>1. IInv => InstallOnlyAfterRunLevel
  BY DEF IInv, RunLevelOK, InstallOnlyAfterRunLevel
<1> QED
  BY <1>1, Invariance, PTL

\* last_deployed/result and last_deployed/metadata agree with the file system
\* whenever an update ends (setState, execCommitCmd), as long as fclose loses
\* nothing.
THEOREM ReportAlwaysMatchesDisk ==
  ASSUME ~FlushMayFail
  PROVE  Spec => []ReportMatchesDisk
<1>1. IInv => ReportMatchesDisk
  <2> SUFFICES ASSUME IInv, pc = "reset", goal = "IDLE", state # "IDLE"
               PROVE  /\ lastDeployedResult = "SUCCESS" <=> state = "PENDING_COMMIT"
                      /\ lastDeployedResult = "SUCCESS" =>
                           saved[CommitFile(stagedFile)] = Full(lastDeployedMetadata)
    BY DEF ReportMatchesDisk
  <2>1. state = "PENDING_COMMIT" \/ state = "ERROR"
    BY DEF IInv, PlaceOK, Moving, Moves
  <2>2. state = "ERROR" => lastDeployedResult = "FAILED"
    BY DEF IInv, FailureOK, Moving
  <2> QED
    BY <2>1, <2>2 DEF IInv, CopyOK
<1> QED
  BY <1>1, Invariance, PTL

\* No reset of bCmdPending (setState) drops a command that was not parsed, once
\* installerInit is over.
THEOREM NoCommandEverLost == Spec => NoCommandLost
<1>1. IInv /\ [Next]_vars =>
        [bCmdPending /\ ~bCmdPending' /\ pc' # "boot" /\ ~Starting => taken]_vars
  <2> SUFFICES ASSUME IInv, Next, bCmdPending, ~bCmdPending', pc' # "boot",
                      ~Starting
               PROVE  taken
    OBVIOUS
  <2>1. ResetCmd
    BY PendingCleared
  <2> QED
    BY <2>1 DEF ResetCmd, IInv, CommandOK, Working
<1> QED
  BY <1>1, Invariance, PTL DEF Spec, NoCommandLost

\* ERROR is left for IDLE only, by clear_error only (installerStateError), and
\* with FAILED on record.
THEOREM OnlyClearErrorEverLeavesError == Spec => OnlyClearErrorLeavesError
<1>1. IInv /\ [Next]_vars =>
        [state = "ERROR" /\ state' # "ERROR" /\ pc' # "boot" =>
           state' = "IDLE" /\ cmdId = "clear_error"
             /\ lastDeployedResult = "FAILED"]_vars
  <2> SUFFICES ASSUME IInv, Next, state = "ERROR", state' # "ERROR",
                      pc' # "boot"
               PROVE  state' = "IDLE" /\ cmdId = "clear_error"
                        /\ lastDeployedResult = "FAILED"
    OBVIOUS
  <2>1. SetInstallerState
    BY StateChanges
  <2> QED
    BY <2>1 DEF SetInstallerState, IInv, FailureOK, PlaceOK, Moving, Moves
<1> QED
  BY <1>1, Invariance, PTL DEF Spec, OnlyClearErrorLeavesError

-----------------------------------------------------------------------------
(* The refinement *)

\* Steps that touch neither the state nor a file on offer are stutters of the
\* promise.
LEMMA PromiseStutters ==
  ASSUME state' = state, saved' = saved, pc' = "boot" <=> pc = "boot",
         state = "PENDING_COMMIT" =>
           staged' = staged /\ stagedFile' = stagedFile
  PROVE  UNCHANGED Promise!vars
  BY DEF Promise!vars, Offered, WholeCopyOf, Full, Absent

\* Promise!Init in the variables of the installer.
LEMMA PromiseInit == Init => Promise!Init
  BY DEF Init, Promise!Init, Offered, WholeCopyOf

\* The commit publishes what was on offer under the final name.
LEMMA CommitPublishes ==
  ASSUME IInv, ~FlushMayFail, ExecCommit
  PROVE  Promise!Publish(CommitFile(stagedFile))
<1>1. /\ state = "PENDING_COMMIT" /\ state' = state
      /\ stagedFile \in Files /\ stagedFile' = stagedFile
      /\ staged[stagedFile] = Full(deployedPath) /\ deployedPath \in Paths
      /\ staged[stagedFile] # Absent
  BY DEF ExecCommit, IInv, PlaceOK, CopyOK, Target, Moving, shared, buffers
<1>2. stagedFile # NoFile /\ NoPath \notin Paths
  BY <1>1, InstallerAssumption
<1>3. Offered = deployedPath
  BY <1>1, <1>2 DEF Offered, WholeCopyOf, Full
<1>4. Offered' = NoPath
  <2>1. staged'[stagedFile] = Absent
    BY <1>1 DEF ExecCommit, IInv, TypeOK
  <2> QED
    BY <1>1, <2>1 DEF Offered, WholeCopyOf
<1>5. [f \in Files |-> WholeCopyOf(saved[f])]'
        = [[f \in Files |-> WholeCopyOf(saved[f])]
             EXCEPT ![CommitFile(stagedFile)] = deployedPath]
  <2>1. \A f \in Files : saved'[f] = IF f = CommitFile(stagedFile)
                                    THEN Full(deployedPath) ELSE saved[f]
    BY <1>1 DEF ExecCommit, IInv, TypeOK
  <2>2. WholeCopyOf(Full(deployedPath)) = deployedPath
    BY <1>1, <1>2 DEF WholeCopyOf, Full, Absent
  <2>3. \A f \in Files : WholeCopyOf(saved'[f]) =
          IF f = CommitFile(stagedFile) THEN deployedPath
          ELSE WholeCopyOf(saved[f])
    BY <2>1, <2>2
  <2> QED
    BY <2>3, <1>1, CommitFileType DEF WholeCopyOf, Full
<1> QED
  BY <1>1, <1>2, <1>3, <1>4, <1>5 DEF Promise!Publish

\* setInstallerState makes the step of the promise its move stands for.
LEMMA StatePromise ==
  ASSUME IInv, ~FlushMayFail, SetInstallerState
  PROVE  [Promise!Next]_Promise!vars
<1> USE DEF SetInstallerState
<1>1. <<state, goal>> \in Moves /\ state' = goal /\ saved' = saved
      /\ staged' = staged /\ stagedFile' = stagedFile
  BY DEF IInv, PlaceOK, Moving, buffers, files
<1>2. [f \in Files |-> WholeCopyOf(saved[f])]'
        = [f \in Files |-> WholeCopyOf(saved[f])]
  BY <1>1 DEF WholeCopyOf, Full
<1>3. pc # "boot" /\ pc' # "boot"
  OBVIOUS
<1>4. CASE state' = state
  BY <1>1, <1>3, <1>4, PromiseStutters
<1>5. SUFFICES ASSUME state' # state
               PROVE  Promise!Work
  BY <1>4 DEF Promise!Next
<1>6. CASE goal = "ERROR"
  <2>1. Promise!Fail
    BY <1>1, <1>2, <1>5, <1>6 DEF Promise!Fail, Offered
  <2> QED
    BY <2>1, <1>3 DEF Promise!Work
<1>7. CASE goal \in {"PENDING_RL", "INSTALLING"}
  <2>1. Promise!Accept
    BY <1>1, <1>2, <1>5, <1>7 DEF Moves, Promise!Accept, Promise!Trans, Offered
  <2> QED
    BY <2>1, <1>3 DEF Promise!Work
<1>8. CASE goal = "PENDING_COMMIT"
  <2>1. /\ stagedFile \in Files /\ deployedPath \in Paths
        /\ staged[stagedFile] = Full(deployedPath)
    BY <1>8 DEF IInv, CopyOK, Target, Moving
  <2>2. Offered' = deployedPath
    BY <1>1, <1>8, <2>1, InstallerAssumption
    DEF Offered, WholeCopyOf, Full, Absent
  <2>3. Promise!Stage(deployedPath)
    BY <1>1, <1>2, <1>8, <2>2 DEF Moves, Promise!Stage, Promise!Trans, States
  <2> QED
    BY <2>1, <2>3, <1>3 DEF Promise!Work
<1>9. CASE goal = "IDLE" /\ state = "PENDING_COMMIT"
  <2>1. Offered = NoPath /\ Offered' = NoPath
    BY <1>1, <1>9 DEF IInv, CopyOK, Offered
  <2>2. Promise!Finish
    BY <1>1, <1>2, <1>9, <2>1 DEF Promise!Finish, Promise!Trans
  <2> QED
    BY <2>2, <1>3 DEF Promise!Work
<1>10. CASE goal = "IDLE" /\ state = "ERROR"
  <2>1. Promise!Clear
    BY <1>1, <1>2, <1>10 DEF Promise!Clear, Promise!Trans, Offered
  <2> QED
    BY <2>1, <1>3 DEF Promise!Work
<1> QED
  BY <1>1, <1>5, <1>6, <1>7, <1>8, <1>9, <1>10 DEF Moves, States, IInv, TypeOK

\* Every step of the installer is a step of the promise or leaves it alone.
LEMMA NextPromise ==
  ASSUME IInv, ~FlushMayFail, [Next]_vars
  PROVE  [Promise!Next]_Promise!vars
<1>1. CASE ExecCommit
  <2>1. Promise!Publish(CommitFile(stagedFile))
    BY <1>1, CommitPublishes
  <2>2. CommitFile(stagedFile) \in Files
    BY <1>1, CommitFileType
    DEF ExecCommit, IInv, CopyOK, PlaceOK, Target, Moving
  <2>3. pc # "boot" /\ pc' # "boot"
    BY <1>1 DEF ExecCommit, SetState
  <2> QED
    BY <2>1, <2>2, <2>3 DEF Promise!Next, Promise!Work
<1>2. CASE SetInstallerState
  BY <1>2, StatePromise
<1>3. CASE CrashRestart
  BY <1>3 DEF CrashRestart, files, Promise!Next, Promise!Restart, Offered,
     WholeCopyOf, Full
<1>4. CASE ResetCmd
  <2>1. Offered' = Offered
    BY <1>4 DEF ResetCmd, files, IInv, PlaceOK, CopyOK, Moving, Moves, Offered,
       WholeCopyOf, Full
  <2>2. [f \in Files |-> WholeCopyOf(saved[f])]'
          = [f \in Files |-> WholeCopyOf(saved[f])]
    BY <1>4 DEF ResetCmd, files, WholeCopyOf, Full
  <2> QED
    BY <1>4, <2>1, <2>2 DEF ResetCmd, Promise!vars
<1>5. CASE InstallerRegister \/ WaitForCmd \/ WaitForRl
           \/ RlReached \/ BeginSetState \/ NotifyState
  BY <1>5, PromiseStutters DEF InstallerRegister, WaitForCmd, WaitForRl,
     RlReached, BeginSetState, NotifyState, SetState, shared, buffers, files
<1>6. CASE IdleTakeCmd \/ PendingCommitTakeCmd \/ ErrorTakeCmd
  BY <1>6, PromiseStutters DEF IdleTakeCmd, PendingCommitTakeCmd, ErrorTakeCmd,
     TakeCmd, SetState, shared, files
<1>7. CASE RaisePendingRl \/ ClearPendingRl
  BY <1>7, PromiseStutters DEF RaisePendingRl, ClearPendingRl, SetPendingRl,
     SetState, buffers, files
<1>8. CASE RejectNonDeploy \/ DeployNoSource \/ CopyFails \/ CommitFails
  BY <1>8, PromiseStutters DEF RejectNonDeploy, DeployNoSource, CopyFails,
     CommitFails, SetState, shared, buffers, files
<1>9. CASE OpenStaged
  BY <1>9, PromiseStutters DEF OpenStaged, SetState, shared
<1>10. CASE (\E n \in 1..MAX_CHUNK_LEN : CopyChunk(n)) \/ CloseStaged
  <2>1. /\ state = "INSTALLING" /\ state' = state /\ saved' = saved
        /\ pc # "boot" /\ pc' # "boot"
    BY <1>10 DEF CopyChunk, CloseStaged, SetState, IInv, PlaceOK, shared
  <2> QED
    BY <2>1, PromiseStutters
<1>11. CASE CallbackStep
  BY <1>11, PromiseStutters DEF CallbackStep, InstallerCmdCB, StoreRunLevel,
     SignalRunLevel, InstallerPersistCtxCB, Serving, shared, buffers, files
<1>12. CASE UNCHANGED vars
  BY <1>12, PromiseStutters DEF vars, shared, buffers, control, files
<1>13. CASE InstallerOpen
  BY <1>13 DEF InstallerOpen, shared, buffers, files, Promise!Next, Promise!Boot,
     Offered, WholeCopyOf, Full
<1> QED
  BY <1>1, <1>2, <1>3, <1>4, <1>5, <1>6, <1>7, <1>8, <1>9, <1>10, <1>11, <1>12,
     <1>13
  DEF Next, MainStep

\* The installer implements the state machine of the README, with the commit as
\* the one step that publishes a file, as long as fclose loses nothing: for
\* every set of paths, names, commands and run levels.
THEOREM Implementation ==
  ASSUME ~FlushMayFail
  PROVE  Spec => ImplementsPromise
<1>1. IInv /\ [Next]_vars => [Promise!Next]_Promise!vars
  BY NextPromise
<1> QED
  BY <1>1, PromiseInit, Invariance, PTL DEF Spec, ImplementsPromise, Promise!Spec

=============================================================================
