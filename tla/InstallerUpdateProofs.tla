------------------------- MODULE InstallerUpdateProofs -------------------------
(***************************************************************************)
(* Proofs about InstallerUpdate: the types, and that an update DU Master      *)
(* takes for done is installed, whatever notifications get lost.              *)
(***************************************************************************)
EXTENDS InstallerUpdate, DuInstallerProofs

-----------------------------------------------------------------------------
(* The inductive invariant *)

\* The file the update ends in: nothing changes installDir after the start, when
\* it is emptied.
Home == <<Root, Basename[package]>>
Installed == saved[Home] = Full(package)

Deploy == [word |-> "deploy", path |-> package, name |-> NoName]
Commit == [word |-> "commit", path |-> NoPath, name |-> NoName]
Clear == [word |-> "clear_error", path |-> NoPath, name |-> NoName]

\* The command buffer is free.  Once it is, it stays so until DU Master writes.
Quiet == ~bCmdPending

At(s) == state = s /\ pc = "run"
Resting(s) == Quiet /\ state = s /\ pc \in {"notify", "run"}

\* The main thread is on its way to s; it has freed the buffer before the last step.
Bound(s) == Moving /\ goal = s /\ (pc = "setInstallerState" => Quiet)

Idle ==
  /\ state = "IDLE"
  /\ \/ pc \in {"boot", "register", "run"}
     \/ Moving /\ goal = "IDLE"

StagedHome == filePath = package /\ stagedFile = Home

Failing == Bound("ERROR") \/ Resting("ERROR")

\* DU Master has nothing outstanding: the plugin waits where DU Master thinks it does.
Waiting ==
  /\ Quiet
  /\ \/ action = "deploy" /\ Idle
     \/ action = "commit" /\ At("PENDING_COMMIT") /\ StagedHome
     \/ action = "failed" /\ At("ERROR") /\ seen = "ERROR"
     \/ action = "done" /\ At("IDLE") /\ Installed

\* The deploy is parsed and its file is not open yet.
Preparing ==
  /\ cmdId = "deploy" /\ filePath = package /\ savename = NoName
  /\ \/ state = "IDLE" /\ pc = "setPendingRl"
     \/ state = "PENDING_RL" /\ pc \in {"run", "notify", "clearPendingRl"}
     \/ state = "INSTALLING" /\ pc \in {"run", "notify"}
     \/ Moving /\ goal \in {"PENDING_RL", "INSTALLING"}

\* Where the plugin is while a deploy, a commit and a clear_error is outstanding.
Deploying ==
  \/ Idle /\ ~Starting /\ bCmdPending /\ installerCmd = Deploy
  \/ Preparing
  \/ StagedHome /\ (pc = "copy" \/ Bound("PENDING_COMMIT") \/ Resting("PENDING_COMMIT"))
  \/ Failing

Committing ==
  \/ At("PENDING_COMMIT") /\ bCmdPending /\ installerCmd = Commit /\ StagedHome
  \/ pc = "commit" /\ StagedHome
  \/ Installed /\ (Bound("IDLE") \/ Resting("IDLE"))
  \/ Failing

Clearing ==
  \/ At("ERROR") /\ bCmdPending /\ installerCmd = Clear /\ seen = "ERROR"
  \/ state = "ERROR" /\ Bound("IDLE") /\ seen = "ERROR"
  \/ Resting("IDLE") /\ (pc = "notify" => seen = "ERROR")

Outstanding ==
  \/ action = "deploy" /\ Deploying
  \/ action = "commit" /\ Committing
  \/ action = "failed" /\ Clearing

MasterTypeOK ==
  /\ action \in {"deploy", "commit", "done", "failed"}
  /\ sent \in BOOLEAN /\ package \in Paths
  /\ told \in AnyRunLevel /\ seen \in States /\ lost \in BOOLEAN

\* Between the two sides: what DU Master waits for is what the plugin is doing.
Agreement ==
  /\ ~Starting => installDir = Empty
  /\ sent \/ Waiting
  /\ sent => Outstanding

UpdateInv == IInv /\ MasterTypeOK /\ Agreement

\* No file of an update has a name with ".staged" in it: for such a name the committed
\* file is not the one the update names.
PlainNames == \A p \in Paths : CommitName[Basename[p]] = Basename[p]

-----------------------------------------------------------------------------
(* Both sides keep their types *)

\* The plugin makes no other steps under DU Master than under any clients.
LEMMA UpdateAnyStep ==
  ASSUME MasterTypeOK, [UpdateNext]_uvars
  PROVE  [AnyStep]_vars
<1>1. CASE PluginStep
  BY <1>1 DEF PluginStep, AnyStep
<1>2. CASE MasterStep
  <2>1. CASE NextUpdate
    BY <2>1 DEF NextUpdate
  <2>2. CASE \E c \in Command : Write(c)
    BY <2>2 DEF Write, AnyStep, AnyCallback
  <2>3. package \in Paths \union {NoPath}
    BY DEF MasterTypeOK
  <2>4. MasterDeploy \/ MasterCommit \/ MasterClear => \E c \in Command : Write(c)
    BY <2>3 DEF MasterDeploy, MasterCommit, MasterClear, Command, Words
  <2> QED BY <1>2, <2>1, <2>2, <2>4 DEF MasterStep
<1>3. CASE MasterRunLevel
  <2>1. PICK rl \in ValidRunLevel : StoreRunLevel(rl)
    <3>1. \A l \in AnyRunLevel : l < RL_INVALID => l \in ValidRunLevel
      BY DEF AnyRunLevel, ValidRunLevel, RL_INVALID, RL_DORMANT
    <3>2. RL_DORMANT \in ValidRunLevel
      BY ConstantsTyped
    <3> QED BY <1>3, <3>1, <3>2 DEF MasterRunLevel, MasterTypeOK
  <2> QED BY <2>1 DEF AnyStep, AnyCallback
<1>4. CASE SignalRunLevel
  BY <1>4 DEF AnyStep, AnyCallback
<1>5. CASE UNCHANGED uvars
  BY <1>5 DEF uvars
<1> QED BY <1>1, <1>2, <1>3, <1>4, <1>5 DEF UpdateNext

\* The plugin's invariant and DU Master's types hold at the start ...
LEMMA TypesInit == UpdateInit => IInv /\ MasterTypeOK
<1>1. UpdateInit => MasterTypeOK
  BY ConstantsTyped DEF UpdateInit, MasterTypeOK, States
<1> QED BY <1>1, InitIInv DEF UpdateInit

\* ... and every step keeps them.
LEMMA TypesNext == IInv /\ MasterTypeOK /\ [UpdateNext]_uvars => (IInv /\ MasterTypeOK)'
<1> SUFFICES ASSUME IInv, MasterTypeOK, [UpdateNext]_uvars PROVE IInv' /\ MasterTypeOK'
  OBVIOUS
<1>1. IInv'
  BY UpdateAnyStep, AnyStepIInv
<1>2. MasterTypeOK'
  <2> USE DEF MasterTypeOK
  <2>1. CASE PluginStep
    <3>1. state \in States /\ pendingRl' \in AnyRunLevel
      BY <1>1 DEF IInv, TypeOK
    <3>2. /\ action' \in {"deploy", "commit", "done", "failed"}
          /\ sent' \in BOOLEAN /\ seen' \in States
      BY <2>1, <3>1 DEF PluginStep, NotifiedState, Observe
    <3>3. lost' \in BOOLEAN
      BY <2>1 DEF PluginStep, NotifiedState, NotifiedPendingRl
    <3>4. told' \in AnyRunLevel
      BY <2>1, <3>1 DEF PluginStep, NotifiedPendingRl
    <3> QED BY <2>1, <3>2, <3>3, <3>4 DEF PluginStep
  <2>2. CASE MasterStep
    BY <2>2 DEF MasterStep, MasterDeploy, MasterCommit, MasterClear, Write, NextUpdate
  <2>3. CASE UNCHANGED master
    BY <2>3 DEF master
  <2> QED BY <2>1, <2>2, <2>3 DEF UpdateNext, MasterRunLevel, uvars
<1> QED BY <1>1, <1>2

-----------------------------------------------------------------------------
(* Every step keeps the agreement *)

\* installDir is what it was before the start ended, or empty: only a reset changes it.
LEMMA DirStep ==
  ASSUME IInv, ~Starting => installDir = Empty, MainStep, pc' # "exited"
  PROVE  ~Starting' => installDir' = Empty
<1> USE DEF Starting, buffers
<1>1. CASE InstallerOpen \/ InstallerRegister
  BY <1>1 DEF InstallerOpen, InstallerRegister, SetState, IInv, PlaceOK, shared
<1>2. CASE WaitForCmd \/ WaitForRl \/ RlReached \/ NotifyState
  BY <1>2 DEF WaitForCmd, WaitForRl, RlReached, NotifyState
<1>3. CASE IdleTakeCmd \/ PendingCommitTakeCmd \/ ErrorTakeCmd
  BY <1>3 DEF IdleTakeCmd, PendingCommitTakeCmd, ErrorTakeCmd, TakeCmd
<1>4. CASE RaisePendingRl \/ ClearPendingRl \/ RejectNonDeploy \/ DeployNoSource \/ OpenStaged
  BY <1>4 DEF RaisePendingRl, ClearPendingRl, SetPendingRl, RejectNonDeploy, DeployNoSource,
     OpenStaged
<1>5. CASE (\E n \in 1..MAX_CHUNK_LEN : CopyChunk(n)) \/ CopyFails \/ CloseStaged
             \/ ExecCommit \/ CommitFails
  BY <1>5 DEF CopyChunk, CopyFails, CloseStaged, ExecCommit, CommitFails
<1>6. CASE BeginSetState \/ ResetCmd \/ SetInstallerState
  BY <1>6 DEF BeginSetState, ResetCmd, SetInstallerState, IInv, PlaceOK, Moving, Moves
<1> QED BY <1>1, <1>2, <1>3, <1>4, <1>5, <1>6 DEF MainStep

\* A step of the plugin that DU Master does not see.
Unseen == pc # "notify" /\ UNCHANGED <<action, sent, seen, package>>

\* With nothing outstanding the plugin only starts up and falls asleep.
LEMMA WaitingStep ==
  ASSUME IInv, Waiting, MainStep, Unseen, pc' # "exited"
  PROVE  Waiting'
<1> USE DEF IInv, PlaceOK, Moving, Moves, Waiting, Quiet, At, Idle, Unseen, StagedHome, Installed,
        Home, Full, shared, buffers, files
<1>1. CASE InstallerOpen \/ InstallerRegister
  BY <1>1 DEF InstallerOpen, InstallerRegister, SetState
<1>2. CASE WaitForCmd \/ WaitForRl \/ RlReached
  BY <1>2 DEF WaitForCmd, WaitForRl, RlReached
<1>3. CASE BeginSetState \/ ResetCmd \/ SetInstallerState
  BY <1>3 DEF BeginSetState, ResetCmd, SetInstallerState
<1>4. ~(IdleTakeCmd \/ PendingCommitTakeCmd \/ ErrorTakeCmd)
  BY DEF IdleTakeCmd, PendingCommitTakeCmd, ErrorTakeCmd, TakeCmd
<1>5. ~(RaisePendingRl \/ ClearPendingRl \/ RejectNonDeploy \/ DeployNoSource \/ OpenStaged)
  BY DEF RaisePendingRl, ClearPendingRl, RejectNonDeploy, DeployNoSource, OpenStaged
<1>6. ~((\E n \in 1..MAX_CHUNK_LEN : CopyChunk(n)) \/ CopyFails \/ CloseStaged
          \/ ExecCommit \/ CommitFails \/ NotifyState)
  BY DEF CopyChunk, CopyFails, CloseStaged, ExecCommit, CommitFails, NotifyState
<1> QED BY <1>1, <1>2, <1>3, <1>4, <1>5, <1>6 DEF MainStep

\* A step on the way into ERROR, or in it, stays there until the notification.
LEMMA FailingStep ==
  ASSUME IInv, Failing, MainStep, pc # "notify"
  PROVE  Failing'
<1> USE DEF IInv, PlaceOK, Moving, Moves, Failing, Bound, Resting, Quiet, shared
<1>1. CASE WaitForCmd
  BY <1>1 DEF WaitForCmd
<1>2. CASE BeginSetState \/ ResetCmd \/ SetInstallerState
  BY <1>2 DEF BeginSetState, ResetCmd, SetInstallerState
<1>3. ~(InstallerOpen \/ InstallerRegister \/ WaitForRl \/ RlReached \/ NotifyState)
  BY DEF InstallerOpen, InstallerRegister, WaitForRl, RlReached, NotifyState
<1>4. ~(IdleTakeCmd \/ PendingCommitTakeCmd \/ ErrorTakeCmd)
  BY DEF IdleTakeCmd, PendingCommitTakeCmd, ErrorTakeCmd, TakeCmd
<1>5. ~(RaisePendingRl \/ ClearPendingRl \/ RejectNonDeploy \/ DeployNoSource \/ OpenStaged)
  BY DEF RaisePendingRl, ClearPendingRl, RejectNonDeploy, DeployNoSource, OpenStaged
<1>6. ~((\E n \in 1..MAX_CHUNK_LEN : CopyChunk(n)) \/ CopyFails \/ CloseStaged
          \/ ExecCommit \/ CommitFails)
  BY DEF CopyChunk, CopyFails, CloseStaged, ExecCommit, CommitFails
<1> QED BY <1>1, <1>2, <1>3, <1>4, <1>5, <1>6 DEF MainStep

\* A clear_error leads to IDLE.
LEMMA ClearingStep ==
  ASSUME IInv, Clearing, MainStep, Unseen
  PROVE  Clearing'
<1> USE DEF IInv, PlaceOK, Moving, Moves, Clearing, Clear, At, Bound, Resting, Quiet, Unseen, shared
<1>1. CASE WaitForCmd
  BY <1>1 DEF WaitForCmd
<1>2. CASE BeginSetState \/ ResetCmd \/ SetInstallerState
  BY <1>2 DEF BeginSetState, ResetCmd, SetInstallerState
<1>3. CASE ErrorTakeCmd
  BY <1>3 DEF ErrorTakeCmd, TakeCmd, ParseCmd, ParseOK, SetState
<1>4. ~(InstallerOpen \/ InstallerRegister \/ WaitForRl \/ RlReached \/ NotifyState)
  BY DEF InstallerOpen, InstallerRegister, WaitForRl, RlReached, NotifyState
<1>5. ~(IdleTakeCmd \/ PendingCommitTakeCmd)
  BY DEF IdleTakeCmd, PendingCommitTakeCmd, TakeCmd
<1>6. ~(RaisePendingRl \/ ClearPendingRl \/ RejectNonDeploy \/ DeployNoSource \/ OpenStaged)
  BY DEF RaisePendingRl, ClearPendingRl, RejectNonDeploy, DeployNoSource, OpenStaged
<1>7. ~((\E n \in 1..MAX_CHUNK_LEN : CopyChunk(n)) \/ CopyFails \/ CloseStaged
          \/ ExecCommit \/ CommitFails)
  BY DEF CopyChunk, CopyFails, CloseStaged, ExecCommit, CommitFails
<1> QED BY <1>1, <1>2, <1>3, <1>4, <1>5, <1>6, <1>7 DEF MainStep

\* The commit puts what is staged under its name.
LEMMA CommitInstalls ==
  ASSUME IInv, ~FlushMayFail, PlainNames, package \in Paths, StagedHome, ExecCommit
  PROVE  saved'[Home] = Full(package)
<1>1. state = "PENDING_COMMIT" /\ pc = "commit"
  BY DEF ExecCommit, IInv, PlaceOK
<1>2. /\ stagedFile \in Files /\ filePath = deployedPath
      /\ staged[stagedFile] = Full(deployedPath)
  BY <1>1 DEF IInv, CopyOK, Target, Moving
<1>3. CommitFile(stagedFile) = Home
  BY DEF StagedHome, Home, CommitFile, PlainNames
<1>4. saved \in [Files -> Content] /\ Home \in Files
  BY <1>2 DEF IInv, TypeOK, StagedHome
<1> QED BY <1>2, <1>3, <1>4 DEF ExecCommit, StagedHome

\* A commit leads to IDLE with the package installed, or to ERROR.
LEMMA CommittingStep ==
  ASSUME IInv, MasterTypeOK, ~FlushMayFail, PlainNames, Committing, MainStep, Unseen
  PROVE  Committing'
<1>0. CASE Failing
  BY <1>0, FailingStep DEF Committing, Unseen
<1>00. SUFFICES ASSUME ~Failing PROVE Committing'
  BY <1>0
<1> USE DEF IInv, PlaceOK, Moving, Moves, Committing, Commit, At, Bound, Resting, Quiet, Unseen, shared
<1>1. CASE WaitForCmd
  <2>1. (StagedHome <=> StagedHome') /\ (Installed <=> Installed')
    BY <1>1 DEF WaitForCmd, buffers, files, StagedHome, Home, Installed, Full
  <2> QED BY <1>00, <1>1, <2>1 DEF WaitForCmd
<1>2. CASE BeginSetState \/ ResetCmd \/ SetInstallerState
  <2>1. Installed /\ (Bound("IDLE") \/ Resting("IDLE"))
    BY <1>2, <1>00 DEF BeginSetState, ResetCmd, SetInstallerState
  <2>2. Installed'
    BY <1>2, <2>1 DEF BeginSetState, ResetCmd, SetInstallerState, files, Installed, Home, Full
  <2>3. Bound("IDLE")' \/ Resting("IDLE")'
    BY <1>2, <2>1 DEF BeginSetState, ResetCmd, SetInstallerState
  <2> QED BY <2>2, <2>3
<1>3. CASE PendingCommitTakeCmd
  <2>1. StagedHome /\ installerCmd = Commit
    BY <1>3, <1>00 DEF PendingCommitTakeCmd, TakeCmd
  <2>2. pc' = "commit" /\ UNCHANGED <<filePath, stagedFile>>
    BY <1>3, <2>1 DEF PendingCommitTakeCmd, TakeCmd, ParseCmd, ParseOK
  <2> QED BY <2>1, <2>2 DEF StagedHome, Home
<1>4. CASE ExecCommit
  <2>1. StagedHome
    BY <1>4, <1>00 DEF ExecCommit
  <2>2. Installed'
    BY <1>4, <2>1, CommitInstalls DEF MasterTypeOK, Installed, Home, Full
  <2>3. Bound("IDLE")'
    BY <1>4 DEF ExecCommit, SetState
  <2> QED BY <2>2, <2>3
<1>5. CASE CommitFails
  <2>1. Bound("ERROR")'
    BY <1>5 DEF CommitFails, SetState
  <2> QED BY <2>1 DEF Failing
<1>6. ~(InstallerOpen \/ InstallerRegister \/ WaitForRl \/ RlReached \/ NotifyState)
  BY <1>00 DEF InstallerOpen, InstallerRegister, WaitForRl, RlReached, NotifyState
<1>7. ~(IdleTakeCmd \/ ErrorTakeCmd)
  BY <1>00 DEF IdleTakeCmd, ErrorTakeCmd, TakeCmd
<1>8. ~(RaisePendingRl \/ ClearPendingRl \/ RejectNonDeploy \/ DeployNoSource \/ OpenStaged)
  BY <1>00 DEF RaisePendingRl, ClearPendingRl, RejectNonDeploy, DeployNoSource, OpenStaged
<1>9. ~((\E n \in 1..MAX_CHUNK_LEN : CopyChunk(n)) \/ CopyFails \/ CloseStaged)
  BY <1>00 DEF CopyChunk, CopyFails, CloseStaged
<1> QED BY <1>1, <1>2, <1>3, <1>4, <1>5, <1>6, <1>7, <1>8, <1>9 DEF MainStep

\* A deploy leads to PENDING_COMMIT with the package staged where it belongs, or to ERROR.
LEMMA DeployingStep ==
  ASSUME IInv, MasterTypeOK, ~Starting => installDir = Empty, Deploying, MainStep, Unseen
  PROVE  Deploying'
<1>0. CASE Failing
  BY <1>0, FailingStep DEF Deploying, Unseen
<1>00. SUFFICES ASSUME ~Failing PROVE Deploying'
  BY <1>0
<1> USE DEF IInv, PlaceOK, Moving, Moves, Deploying, At, Bound, Resting, Quiet, Idle, Starting,
        Unseen, shared, Preparing
<1>1. CASE WaitForCmd \/ WaitForRl \/ RlReached
  <2>1. (StagedHome <=> StagedHome') /\ Deploy' = Deploy
    BY <1>1 DEF WaitForCmd, WaitForRl, RlReached, buffers, files, StagedHome, Home, Deploy
  <2> QED BY <1>00, <1>1, <2>1 DEF WaitForCmd, WaitForRl, RlReached, buffers
<1>2. CASE IdleTakeCmd
  <2>1. installerCmd = Deploy
    BY <1>2, <1>00 DEF IdleTakeCmd, TakeCmd
  <2>2. cmdId' = "deploy" /\ filePath' = package' /\ savename' = NoName /\ ParseOK(installerCmd)
    BY <1>2, <2>1, InstallerAssumption
    DEF IdleTakeCmd, TakeCmd, ParseCmd, ParseOK, Deploy, MasterTypeOK
  <2>3. Preparing'
    BY <1>2, <2>2 DEF IdleTakeCmd, TakeCmd, SetState
  <2> QED BY <2>3
<1>3. ~(PendingCommitTakeCmd \/ ErrorTakeCmd)
  BY <1>00 DEF PendingCommitTakeCmd, ErrorTakeCmd, TakeCmd
<1>4. CASE RaisePendingRl \/ ClearPendingRl
  <2>1. Preparing /\ UNCHANGED buffers
    BY <1>4, <1>00 DEF RaisePendingRl, ClearPendingRl, SetPendingRl
  <2>2. Preparing' \/ Bound("ERROR")'
    BY <1>4, <2>1 DEF RaisePendingRl, ClearPendingRl, SetPendingRl, SetState, buffers
  <2> QED BY <2>2 DEF Failing
<1>5. CASE RejectNonDeploy \/ DeployNoSource \/ CopyFails
  <2>1. Bound("ERROR")'
    BY <1>5 DEF RejectNonDeploy, DeployNoSource, CopyFails, SetState
  <2> QED BY <2>1 DEF Failing
<1>6. CASE OpenStaged
  <2>1. Preparing /\ installDir = Empty
    BY <1>6, <1>00 DEF OpenStaged
  <2>2. StagedFile = Home /\ filePath = package
    BY <2>1 DEF StagedFile, JoinDir, SaveName, Home
  <2>3. StagedHome'
    BY <1>6, <2>2 DEF OpenStaged, StagedHome, Home
  <2>4. pc' = "copy" \/ Bound("ERROR")'
    BY <1>6 DEF OpenStaged, SetState
  <2> QED BY <2>3, <2>4 DEF Failing
<1>7. CASE (\E n \in 1..MAX_CHUNK_LEN : CopyChunk(n)) \/ CloseStaged
  <2>1. StagedHome
    BY <1>7, <1>00 DEF CopyChunk, CloseStaged
  <2>2. StagedHome'
    BY <1>7, <2>1 DEF CopyChunk, CloseStaged, StagedHome, Home, buffers
  <2>3. pc' = "copy" \/ Bound("PENDING_COMMIT")'
    BY <1>7 DEF CopyChunk, CloseStaged, SetState
  <2> QED BY <2>2, <2>3
<1>8. CASE BeginSetState \/ ResetCmd \/ SetInstallerState
  <2>1. CASE Preparing
    <3>1. Preparing'
      BY <1>8, <2>1 DEF BeginSetState, ResetCmd, SetInstallerState, buffers
    <3> QED BY <3>1
  <2>2. CASE StagedHome /\ Bound("PENDING_COMMIT")
    <3>1. StagedHome'
      BY <1>8, <2>2 DEF BeginSetState, ResetCmd, SetInstallerState, StagedHome, Home, buffers
    <3>2. Bound("PENDING_COMMIT")' \/ Resting("PENDING_COMMIT")'
      BY <1>8, <2>2 DEF BeginSetState, ResetCmd, SetInstallerState
    <3> QED BY <3>1, <3>2
  <2>3. CASE Idle /\ ~Starting /\ bCmdPending /\ installerCmd = Deploy
    BY <1>8, <2>3 DEF BeginSetState, ResetCmd, SetInstallerState, Deploy
  <2> QED BY <1>8, <1>00, <2>1, <2>2, <2>3 DEF BeginSetState, ResetCmd, SetInstallerState
<1>9. ~(InstallerOpen \/ InstallerRegister \/ NotifyState \/ ExecCommit \/ CommitFails)
  BY <1>00 DEF InstallerOpen, InstallerRegister, NotifyState, ExecCommit, CommitFails
<1> QED BY <1>1, <1>2, <1>3, <1>4, <1>5, <1>6, <1>7, <1>8, <1>9 DEF MainStep

\* A notification moves DU Master on to what the plugin waits for; a lost one leaves both
\* where they are.
LEMMA ObserveStep ==
  ASSUME IInv, MasterTypeOK, Agreement, PluginStep, pc = "notify"
  PROVE  \/ ~sent' /\ Waiting'
         \/ sent' /\ Outstanding'
<1> USE DEF Moving, Bound, Resting, Quiet, At, Idle, Failing, buffers, files, shared
<1>1. /\ pc' = "run"
      /\ UNCHANGED <<state, goal, bCmdPending, installerCmd, cmdId, filePath, savename,
                     stagedFile, saved, package>>
  <2>1. NotifyState
    BY DEF PluginStep, MainStep, InstallerOpen, InstallerRegister, WaitForCmd, IdleTakeCmd,
       PendingCommitTakeCmd, ErrorTakeCmd, TakeCmd, RaisePendingRl, WaitForRl, RlReached,
       ClearPendingRl, RejectNonDeploy, DeployNoSource, OpenStaged, CopyChunk, CopyFails,
       CloseStaged, ExecCommit, CommitFails, BeginSetState, ResetCmd, SetInstallerState
  <2> QED BY <2>1 DEF NotifyState, PluginStep
<1>2. sent /\ Outstanding
  BY DEF Agreement, Waiting
<1>3. (StagedHome <=> StagedHome') /\ (Installed <=> Installed') /\ Home' = Home
  BY <1>1 DEF StagedHome, Installed, Home, Full
<1>4. \/ Observe(state)
      \/ UNCHANGED <<action, sent, seen>>
  BY DEF PluginStep, NotifiedState
<1>5. CASE action = "deploy"
  <2>1. \/ Preparing /\ state \in {"PENDING_RL", "INSTALLING"}
        \/ StagedHome /\ Resting("PENDING_COMMIT")
        \/ Resting("ERROR")
    BY <1>2, <1>5 DEF Outstanding, Deploying, Preparing
  <2>2. CASE Preparing /\ state \in {"PENDING_RL", "INSTALLING"}
    <3>1. UNCHANGED <<action, sent>> /\ Preparing'
      BY <1>1, <1>4, <1>5, <2>2 DEF Preparing, Observe
    <3> QED BY <1>2, <1>5, <3>1 DEF Outstanding, Deploying
  <2>3. CASE StagedHome /\ Resting("PENDING_COMMIT")
    BY <1>1, <1>2, <1>3, <1>4, <1>5, <2>3 DEF Outstanding, Deploying, Waiting, Observe
  <2>4. CASE Resting("ERROR")
    BY <1>1, <1>2, <1>4, <1>5, <2>4 DEF Outstanding, Deploying, Waiting, Observe
  <2> QED BY <2>1, <2>2, <2>3, <2>4
<1>6. CASE action = "commit"
  <2>1. \/ Installed /\ Resting("IDLE")
        \/ Resting("ERROR")
    BY <1>2, <1>6 DEF Outstanding, Committing
  <2>2. CASE Installed /\ Resting("IDLE")
    BY <1>1, <1>2, <1>3, <1>4, <1>6, <2>2 DEF Outstanding, Committing, Waiting, Observe
  <2>3. CASE Resting("ERROR")
    BY <1>1, <1>2, <1>4, <1>6, <2>3 DEF Outstanding, Committing, Waiting, Observe
  <2> QED BY <2>1, <2>2, <2>3
<1>7. CASE action = "failed"
  <2>1. Resting("IDLE")
    BY <1>2, <1>7 DEF Outstanding, Clearing
  <2> QED BY <1>1, <1>2, <1>4, <1>7, <2>1 DEF Outstanding, Clearing, Observe
<1> QED BY <1>2, <1>5, <1>6, <1>7 DEF Outstanding

\* DU Master writes a command only when nothing is outstanding.
LEMMA MasterStepAgrees ==
  ASSUME IInv, MasterTypeOK, Agreement, MasterStep
  PROVE  Agreement'
<1> USE DEF Agreement, Starting
<1>1. CASE NextUpdate
  <2>1. Quiet /\ At("IDLE")
    BY <1>1 DEF NextUpdate, Waiting, Outstanding, Clearing, At, Bound, Resting, Quiet, Moving
  <2> QED BY <1>1, <2>1 DEF NextUpdate, vars, shared, buffers, control, Waiting, At, Quiet, Idle
<1>2. CASE MasterDeploy
  <2>1. Idle /\ ~Starting
    BY <1>2 DEF MasterDeploy, Waiting
  <2>2. Deploying'
    BY <1>2, <2>1
    DEF MasterDeploy, Write, InstallerCmdCB, Deploying, Deploy, Idle, Moving, buffers
  <2> QED BY <1>2, <2>2 DEF MasterDeploy, Write, InstallerCmdCB, Outstanding, buffers
<1>3. CASE MasterCommit
  <2>1. At("PENDING_COMMIT") /\ StagedHome
    BY <1>3 DEF MasterCommit, Waiting
  <2>2. Committing'
    BY <1>3, <2>1
    DEF MasterCommit, Write, InstallerCmdCB, Committing, Commit, At, StagedHome, Home, buffers
  <2> QED BY <1>3, <2>2 DEF MasterCommit, Write, InstallerCmdCB, Outstanding, buffers
<1>4. CASE MasterClear
  <2>1. At("ERROR")
    BY <1>4 DEF MasterClear, Waiting
  <2>2. Clearing'
    BY <1>4, <2>1 DEF MasterClear, Write, InstallerCmdCB, Clearing, Clear, At
  <2> QED BY <1>4, <2>2 DEF MasterClear, Write, InstallerCmdCB, Outstanding, buffers
<1> QED BY <1>1, <1>2, <1>3, <1>4 DEF MasterStep

\* What the agreement is about stays, so the agreement does.
LEMMA AgreementKept ==
  ASSUME Agreement,
         UNCHANGED <<buffers, pc, goal, state, bCmdPending, installerCmd, saved>>,
         UNCHANGED <<action, sent, package, seen>>
  PROVE  Agreement'
<1> USE DEF buffers
<1>1. Starting' = Starting /\ (Waiting <=> Waiting')
  BY DEF Starting, Waiting, Quiet, At, Idle, Moving, StagedHome, Installed, Home, Full
<1>2. (Failing <=> Failing') /\ (Preparing <=> Preparing') /\ (Clearing <=> Clearing')
  BY DEF Failing, Preparing, Clearing, Clear, Bound, Resting, Quiet, At, Moving
<1>3. (StagedHome <=> StagedHome') /\ (Installed <=> Installed') /\ Deploy' = Deploy
  BY DEF StagedHome, Installed, Home, Full, Deploy
<1>4. (Deploying <=> Deploying') /\ (Committing <=> Committing')
  BY <1>1, <1>2, <1>3
  DEF Deploying, Committing, Commit, Idle, Bound, Resting, Quiet, At, Moving
<1> QED BY <1>1, <1>2, <1>4 DEF Agreement, Outstanding

\* DU Master has nothing outstanding at the start, and the plugin is starting.
LEMMA AgreementInit == UpdateInit => Agreement
BY DEF UpdateInit, Init, Agreement, Starting, Waiting, Quiet, Idle

\* Every step keeps the agreement, a lost notification too.
LEMMA AgreementNext ==
  ASSUME ~FlushMayFail, PlainNames, IInv, MasterTypeOK, Agreement, [UpdateNext]_uvars
  PROVE  Agreement'
<1>1. CASE PluginStep
  <2>1. ~Starting' => installDir' = Empty
    BY <1>1, DirStep DEF PluginStep, Agreement
  <2>2. CASE pc = "notify"
    <3>1. \/ ~sent' /\ Waiting'
          \/ sent' /\ Outstanding'
      BY <1>1, <2>2, ObserveStep
    <3> QED BY <2>1, <3>1 DEF Agreement
  <2>3. CASE pc # "notify"
    <3>1. Unseen /\ MainStep /\ pc' # "exited"
      BY <1>1, <2>3 DEF PluginStep, NotifiedState, Unseen
    <3>2. CASE ~sent
      <4>1. Waiting'
        BY <3>1, <3>2, WaitingStep DEF Agreement
      <4> QED BY <2>1, <3>1, <3>2, <4>1 DEF Agreement, Unseen
    <3>3. CASE sent
      <4>1. Outstanding'
        BY <3>1, <3>3, DeployingStep, CommittingStep, ClearingStep
        DEF Agreement, Outstanding, Unseen
      <4> QED BY <2>1, <3>1, <3>3, <4>1 DEF Agreement, Unseen
    <3> QED BY <3>2, <3>3
  <2> QED BY <2>2, <2>3
<1>2. CASE MasterStep
  BY <1>2, MasterStepAgrees
<1>3. CASE MasterRunLevel
  BY <1>3, AgreementKept DEF MasterRunLevel, StoreRunLevel, master, files
<1>4. CASE SignalRunLevel /\ UNCHANGED master
  BY <1>4, AgreementKept DEF SignalRunLevel, master, files, shared
<1>5. CASE UNCHANGED uvars
  BY <1>5, AgreementKept DEF uvars, vars, shared, control, files, master
<1> QED BY <1>1, <1>2, <1>3, <1>4, <1>5 DEF UpdateNext

-----------------------------------------------------------------------------
(* The theorems *)

\* Both sides keep their types, whatever notifications are lost and packages deployed.
THEOREM UpdateTypeCorrect == UpdateSpec => []UpdateTypeOK
<1>1. IInv /\ MasterTypeOK => UpdateTypeOK
  BY DEF IInv, MasterTypeOK, UpdateTypeOK
<1> QED BY <1>1, TypesInit, TypesNext, PTL DEF UpdateSpec

\* What DU Master waits for is what the plugin is doing or has done.
THEOREM UpdateInvariant ==
  ASSUME ~FlushMayFail, PlainNames
  PROVE  UpdateSpec => []UpdateInv
<1>1. UpdateInit => UpdateInv
  BY TypesInit, AgreementInit DEF UpdateInv
<1>2. UpdateInv /\ [UpdateNext]_uvars => UpdateInv'
  BY TypesNext, AgreementNext DEF UpdateInv
<1> QED BY <1>1, <1>2, PTL DEF UpdateSpec

\* When DU Master takes an update for done, the package stands complete under its name:
\* for any packages, run levels and chunks, after errors, retries and lost notifications,
\* as long as fclose loses nothing and no name has ".staged" in it (execDeployCmd,
\* execCommitCmd, setState).
THEOREM DoneAlwaysMeansInstalled ==
  ASSUME ~FlushMayFail, PlainNames
  PROVE  UpdateSpec => []DoneMeansInstalled
<1>1. UpdateInv => DoneMeansInstalled
  BY DEF UpdateInv, Agreement, Outstanding, Waiting, Installed, Home, DoneMeansInstalled
<1> QED BY <1>1, UpdateInvariant, PTL

=============================================================================
