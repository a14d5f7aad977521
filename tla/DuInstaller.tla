----------------------------- MODULE DuInstaller -----------------------------
(***************************************************************************)
(* The installer plugin (duinstaller/duinstaller.c and _helpers.c on top of *)
(* plugin_common/duinstaller_common.c).                                     *)
(*                                                                         *)
(* One main thread runs installerRun; DU Link calls installerCmdCB,         *)
(* installerRequestedRlCB and installerPersistCtxCB from threads of its     *)
(* own.  All of them share DU_INSTALLER under one mutex and one condition   *)
(* variable.  An action below is one critical section of that mutex         *)
(* together with the thread-local work next to it, so every interleaving of *)
(* the callbacks with the gaps between two critical sections is a           *)
(* behaviour of the model.                                                  *)
(***************************************************************************)
EXTENDS RunLevels

CONSTANTS
  Paths,        \* DU Link paths a deploy command may name
  NoPath,       \* the empty filePathBuf
  Names,        \* file names: savenames and basenames of paths
  NoName,       \* the empty savenameBuf
  BadName,      \* a savename= argument stripTagFromInput rejects
  Cwd,          \* the directory getcwd() returned at start
  Root,         \* "/", what duPathJoin makes of an empty directory
  Empty,        \* the zeroed installDir
  NoFile,       \* the zeroed stagedFilePathBuf
  Size,         \* Size[p]: length of the file at path p
  Basename,     \* Basename[p]: the last component of path p
  CommitName,   \* CommitName[n]: n.staged cut at its first ".staged"
  MAX_CHUNK_LEN,\* the most one dulinkRead asks for
  Requests,     \* the commands clients write to the cmd node
  RunLevelRequests, \* the run levels DU Master writes to requested_rl
  FlushMayFail  \* whether fclose may lose buffered data (disk full)

Words == {"deploy", "commit", "clear_error", "other"}
Command == [word : Words, path : Paths \union {NoPath},
            name : Names \union {NoName, BadName}]
NoCmd == [word |-> "other", path |-> NoPath, name |-> NoName]

Files == {Cwd, Root} \X Names
Content == [src : Paths \union {NoPath}, len : Nat]
Absent == [src |-> NoPath, len |-> 0]

ASSUME InstallerAssumption ==
  /\ NoPath \notin Paths
  /\ NoName \notin Names /\ BadName \notin Names \union {NoName}
  /\ NoFile \notin Files
  /\ Empty # Cwd
  /\ Size \in [Paths -> Nat]
  /\ Basename \in [Paths -> Names]
  /\ CommitName \in [Names -> Names]
  /\ MAX_CHUNK_LEN \in Nat \ {0}
  /\ Requests \subseteq Command
  /\ RunLevelRequests \subseteq ValidRunLevel
  /\ FlushMayFail \in BOOLEAN

VARIABLES
  \* DU_INSTALLER: shared, written under the mutex
  state, currentRl, pendingRl, bCmdPending, installerCmd,
  lastDeployedResult, lastDeployedMetadata, bResumePending,
  \* SAMPLE_INSTALLER: used by the main thread only
  cmdId, filePath, savename, stagedFile, installDir, bUpdateFailed,
  \* control: the main thread's place, the state it is moving to, whether it
  \* sleeps in duCondWait, what the copy loop has left to read, and whether a
  \* requested_rl callback has stored its level but not yet signalled
  pc, goal, asleep, remaining, rlStored,
  \* the file system: <name>.staged and <name> in each directory
  staged, saved,
  \* history: the pending command was parsed; the run level reached
  \* RL_BG_APPLY since a command was taken in IDLE; the path execDeployCmd
  \* was last entered with
  taken, rlReached, deployedPath

shared   == <<state, currentRl, pendingRl, bCmdPending, installerCmd,
              lastDeployedResult, lastDeployedMetadata, bResumePending>>
buffers  == <<cmdId, filePath, savename, stagedFile, installDir, bUpdateFailed>>
control  == <<pc, goal, asleep, remaining, rlStored>>
files    == <<staged, saved>>
history  == <<taken, rlReached, deployedPath>>
vars     == <<shared, buffers, control, files, history>>

States == {"IDLE", "INSTALLING", "PENDING_RL", "PENDING_COMMIT", "ERROR"}
Places == {"boot", "register", "run", "setPendingRl", "clearPendingRl", "copy",
           "commit", "setState", "reset", "setInstallerState", "notify", "exited"}

-----------------------------------------------------------------------------
(* Start-up *)

\* initDuInstaller on a zeroed gInstaller, then getcwd into installDir.  A
\* lastDeployedResult of "NONE" is the zeroed string.
Init ==
  /\ state = "IDLE" /\ currentRl = RL_DORMANT /\ pendingRl = RL_INVALID
  /\ bCmdPending = FALSE /\ installerCmd = NoCmd
  /\ lastDeployedResult = "NONE" /\ lastDeployedMetadata = NoPath
  /\ bResumePending = FALSE
  /\ cmdId = "deploy" /\ filePath = NoPath /\ savename = NoName
  /\ stagedFile = NoFile /\ installDir = Cwd /\ bUpdateFailed = FALSE
  /\ pc = "boot" /\ goal = "IDLE" /\ asleep = FALSE
  /\ remaining = 0 /\ rlStored = FALSE
  /\ taken = FALSE /\ rlReached = FALSE /\ deployedPath = NoPath
  /\ staged = [f \in Files |-> Absent]
  /\ saved = [f \in Files |-> Absent]

\* The process dies at any point and is started again; only files survive.
CrashRestart ==
  /\ state' = "IDLE" /\ currentRl' = RL_DORMANT /\ pendingRl' = RL_INVALID
  /\ bCmdPending' = FALSE /\ installerCmd' = NoCmd
  /\ lastDeployedResult' = "NONE" /\ lastDeployedMetadata' = NoPath
  /\ bResumePending' = FALSE
  /\ cmdId' = "deploy" /\ filePath' = NoPath /\ savename' = NoName
  /\ stagedFile' = NoFile /\ installDir' = Cwd /\ bUpdateFailed' = FALSE
  /\ pc' = "boot" /\ goal' = "IDLE" /\ asleep' = FALSE
  /\ remaining' = 0 /\ rlStored' = FALSE
  /\ taken' = FALSE /\ rlReached' = FALSE /\ deployedPath' = NoPath
  /\ UNCHANGED files

\* setState(s) starts: its caller holds no lock.
SetState(s) == pc' = "setState" /\ goal' = s

\* installerInit up to dulinkOpen, from which on callbacks may run.
InstallerOpen ==
  /\ pc = "boot"
  /\ pc' \in {"register", "exited"}
  /\ UNCHANGED <<shared, buffers, goal, asleep, remaining, rlStored, files,
                 history>>

\* registerToMaster, then installerInit's setState(IDLE).
InstallerRegister ==
  /\ pc = "register"
  /\ \/ SetState("IDLE")
     \/ pc' = "exited" /\ UNCHANGED goal
  /\ UNCHANGED <<shared, buffers, asleep, remaining, rlStored, files,
                 history>>

-----------------------------------------------------------------------------
(* Callbacks, run by DU Link threads once the connection is open *)

Serving == pc \notin {"boot", "exited"}

\* Variant with a bug: the callback forgets to answer busy.
InstallerCmdCBNeverBusy(c) ==
  /\ Serving
  /\ installerCmd' = c /\ bCmdPending' = TRUE /\ asleep' = FALSE
  /\ taken' = FALSE
  /\ UNCHANGED <<state, currentRl, pendingRl, lastDeployedResult,
                 lastDeployedMetadata, bResumePending, buffers, pc, goal,
                 remaining, rlStored, files, rlReached, deployedPath>>

\* installerCmdCB, DULINK_CB_WRITE that is accepted.  While bCmdPending the
\* writer gets DULINK_CB_ERR_BUSY_RETRY and nothing changes.
InstallerCmdCB(c) ==
  /\ Serving
  /\ ~bCmdPending
  /\ installerCmd' = c
  /\ bCmdPending' = TRUE
  /\ asleep' = FALSE
  /\ taken' = FALSE
  /\ UNCHANGED <<state, currentRl, pendingRl, lastDeployedResult,
                 lastDeployedMetadata, bResumePending, buffers, pc, goal,
                 remaining, rlStored, files, rlReached, deployedPath>>

\* installerRequestedRlCB: the critical section in setInstallerCurrentRl ...
StoreRunLevel(rl) ==
  /\ Serving
  /\ ~rlStored
  /\ currentRl' = rl
  /\ rlStored' = TRUE
  /\ rlReached' = (rlReached \/ rl >= RL_BG_APPLY)
  /\ UNCHANGED <<state, pendingRl, bCmdPending, installerCmd,
                 lastDeployedResult, lastDeployedMetadata, bResumePending,
                 buffers, pc, goal, asleep, remaining, files, taken,
                 deployedPath>>

\* Variant with a bug: the signal is forgotten.
StoreWithoutSignal ==
  /\ Serving /\ rlStored
  /\ rlStored' = FALSE
  /\ UNCHANGED <<shared, buffers, pc, goal, asleep, remaining, files, history>>

\* ... and, after the unlock, the duCondSignal without the mutex.
SignalRunLevel ==
  /\ Serving
  /\ rlStored
  /\ rlStored' = FALSE
  /\ asleep' = FALSE
  /\ UNCHANGED <<shared, buffers, pc, goal, remaining, files, history>>

\* installerPersistCtxCB, DULINK_CB_WRITE: accepted once and only in IDLE.
\* persistCtxPath and bResumePending are set together and never read again.
InstallerPersistCtxCB ==
  /\ Serving
  /\ ~bResumePending
  /\ state = "IDLE"
  /\ bResumePending' = TRUE
  /\ asleep' = FALSE
  /\ UNCHANGED <<state, currentRl, pendingRl, bCmdPending, installerCmd,
                 lastDeployedResult, lastDeployedMetadata, buffers, pc, goal,
                 remaining, rlStored, files, history>>

-----------------------------------------------------------------------------
(* Commands *)

\* parseCmd recognises the word, and a deploy's path= and savename= tags.
ParseOK(c) ==
  /\ c.word # "other"
  /\ c.word = "deploy" => c.path # NoPath /\ c.name # BadName

\* What parseCmd writes: the id as soon as the word is known, the path as soon
\* as its tag is found, whatever is found wrong afterwards.
ParseCmd(c) ==
  /\ cmdId' = IF c.word # "other" THEN c.word ELSE cmdId
  /\ filePath' = IF c.word = "deploy" /\ c.path # NoPath THEN c.path
                 ELSE filePath
  /\ savename' = IF c.word = "deploy" /\ ParseOK(c) THEN c.name ELSE savename

\* Variant with a bug: duCondWait without looking at bCmdPending first.
WaitUnconditionally ==
  /\ pc = "run"
  /\ state \in {"IDLE", "PENDING_COMMIT", "ERROR"}
  /\ ~asleep
  /\ asleep' = TRUE
  /\ UNCHANGED <<shared, buffers, pc, goal, remaining, rlStored, files,
                 history>>

\* duCondWait in IDLE, PENDING_COMMIT and ERROR: no command has come yet.
WaitForCmd ==
  /\ pc = "run"
  /\ state \in {"IDLE", "PENDING_COMMIT", "ERROR"}
  /\ ~asleep /\ ~bCmdPending
  /\ asleep' = TRUE
  /\ UNCHANGED <<shared, buffers, pc, goal, remaining, rlStored, files,
                 history>>

\* The critical section the three waiting handlers share: the command is
\* parsed, bCmdPending stays set until setState resets it.
TakeCmd ==
  /\ pc = "run"
  /\ ~asleep /\ bCmdPending
  /\ ParseCmd(installerCmd)
  /\ taken' = TRUE
  /\ UNCHANGED <<shared, stagedFile, installDir, bUpdateFailed, asleep,
                 remaining, rlStored, files, deployedPath>>

\* installerStateIdle.  Any well-formed command passes; only INSTALLING asks
\* which one it is.
IdleTakeCmd ==
  /\ state = "IDLE"
  /\ TakeCmd
  /\ rlReached' = (currentRl >= RL_BG_APPLY)
  /\ \/ ~ParseOK(installerCmd) /\ SetState("ERROR")
     \/ ParseOK(installerCmd) /\ currentRl >= RL_BG_APPLY
        /\ SetState("INSTALLING")
     \/ ParseOK(installerCmd) /\ currentRl < RL_BG_APPLY
        /\ pc' = "setPendingRl" /\ UNCHANGED goal

\* installerStatePendingCommit up to execCommitCmd.
PendingCommitTakeCmd ==
  /\ state = "PENDING_COMMIT"
  /\ TakeCmd
  /\ \/ ParseOK(installerCmd) /\ cmdId' = "commit"
        /\ pc' = "commit" /\ UNCHANGED goal
     \/ ~(ParseOK(installerCmd) /\ cmdId' = "commit") /\ SetState("ERROR")
  /\ UNCHANGED rlReached

\* Variant with a bug: any well-formed command clears the error.
ErrorClearedByAny ==
  /\ state = "ERROR"
  /\ TakeCmd
  /\ SetState(IF ParseOK(installerCmd) THEN "IDLE" ELSE "ERROR")
  /\ UNCHANGED rlReached

\* installerStateError.  clear_error opens the staged file and calls
\* unlinkat(fd, "", 0), which removes nothing: the empty name is ENOENT.
ErrorTakeCmd ==
  /\ state = "ERROR"
  /\ TakeCmd
  /\ \/ ParseOK(installerCmd) /\ cmdId' = "clear_error" /\ SetState("IDLE")
     \/ ~(ParseOK(installerCmd) /\ cmdId' = "clear_error") /\ SetState("ERROR")
  /\ UNCHANGED rlReached

-----------------------------------------------------------------------------
(* Run levels *)

\* setInstallerPendingRl(rl) and its notification, sent only on a change.  If
\* that fails the new pendingRl stays.
SetPendingRl(rl, next) ==
  /\ pendingRl' = MergedPendingRl(pendingRl, rl)
  /\ \/ SetState(next)
     \/ pendingRl' # pendingRl /\ SetState("ERROR")
  /\ UNCHANGED <<state, currentRl, bCmdPending, installerCmd,
                 lastDeployedResult, lastDeployedMetadata, bResumePending,
                 buffers, asleep, remaining, rlStored, files, history>>

\* installerStateIdle after the unlock, when the run level is too low.
RaisePendingRl == pc = "setPendingRl" /\ SetPendingRl(RL_BG_APPLY, "PENDING_RL")

\* Variant with a bug: one level too low is enough.
AwaitingRlOffByOne == pendingRl < RL_INVALID /\ currentRl + 1 < pendingRl

AwaitingRl == pendingRl < RL_INVALID /\ currentRl < pendingRl

\* installerStatePendingRL: duCondWait while the run level is too low ...
WaitForRl ==
  /\ pc = "run" /\ state = "PENDING_RL"
  /\ ~asleep /\ AwaitingRl
  /\ asleep' = TRUE
  /\ UNCHANGED <<shared, buffers, pc, goal, remaining, rlStored, files,
                 history>>

\* ... the end of that wait ...
RlReached ==
  /\ pc = "run" /\ state = "PENDING_RL"
  /\ ~asleep /\ ~AwaitingRl
  /\ pc' = "clearPendingRl"
  /\ UNCHANGED <<shared, buffers, goal, asleep, remaining, rlStored, files,
                 history>>

\* Variant with a bug: the request is withdrawn by asking for RL_DORMANT.
ClearByDormant == pc = "clearPendingRl" /\ SetPendingRl(RL_DORMANT, "INSTALLING")

\* ... and, with the lock released in between, setInstallerPendingRl(RL_INVALID).
ClearPendingRl == pc = "clearPendingRl" /\ SetPendingRl(RL_INVALID, "INSTALLING")

-----------------------------------------------------------------------------
(* execDeployCmd and execCommitCmd *)

\* Variant with a bug: the slash is left out after an empty directory.
JoinDirWithoutSlash(dir) == dir

\* duPathJoin: an empty first component still gets the slash.
JoinDir(dir) == IF dir = Empty THEN Root ELSE dir

SaveName == IF savename # NoName THEN savename ELSE Basename[filePath]
StagedFile == <<JoinDir(installDir), SaveName>>

\* Variant with a bug: a command that cannot be run just ends the update.
RejectToIdle ==
  /\ pc = "run" /\ state = "INSTALLING"
  /\ cmdId # "deploy"
  /\ SetState("IDLE")
  /\ UNCHANGED <<shared, buffers, asleep, remaining, rlStored, files, history>>

\* installerStateInstalling: only deploy may be run.
RejectNonDeploy ==
  /\ pc = "run" /\ state = "INSTALLING"
  /\ cmdId # "deploy"
  /\ SetState("ERROR")
  /\ UNCHANGED <<shared, buffers, asleep, remaining, rlStored, files,
                 history>>

\* execDeployCmd gives up at once: dulinkGetSize fails.  (A busy answer is not
\* retried here, as the reads below are.)
DeployNoSource ==
  /\ pc = "run" /\ state = "INSTALLING"
  /\ cmdId = "deploy"
  /\ deployedPath' = filePath
  /\ SetState("ERROR")
  /\ UNCHANGED <<shared, buffers, asleep, remaining, rlStored, files, taken, rlReached>>

\* execDeployCmd up to fopen(stagedFilePathBuf, "wb"), which may fail and
\* otherwise truncates the staged file.
OpenStaged ==
  /\ pc = "run" /\ state = "INSTALLING"
  /\ cmdId = "deploy"
  /\ deployedPath' = filePath
  /\ savename' = SaveName
  /\ stagedFile' = StagedFile
  /\ \/ SetState("ERROR") /\ UNCHANGED <<remaining, staged>>
     \/ /\ staged' = [staged EXCEPT ![StagedFile] =
                        [src |-> filePath, len |-> 0]]
        /\ remaining' = Size[filePath]
        /\ pc' = "copy" /\ UNCHANGED goal
  /\ UNCHANGED <<shared, cmdId, filePath, installDir, bUpdateFailed, asleep,
                 rlStored, saved, taken, rlReached>>

\* Variant with a bug: a short read counts as a full one.
CopyChunkAsked(n) ==
  /\ pc = "copy"
  /\ remaining > 0
  /\ n \in 1..MAX_CHUNK_LEN /\ n <= remaining
  /\ staged' = [staged EXCEPT ![stagedFile].len = @ + n]
  /\ remaining' = IF remaining < MAX_CHUNK_LEN THEN 0
                  ELSE remaining - MAX_CHUNK_LEN
  /\ UNCHANGED <<shared, buffers, pc, goal, asleep, rlStored, saved, history>>

\* One turn of the copy loop: dulinkReadRetry returns n units, possibly fewer
\* than asked, and fwrite appends them.
CopyChunk(n) ==
  /\ pc = "copy"
  /\ remaining > 0
  /\ n \in 1..MAX_CHUNK_LEN /\ n <= remaining
  /\ staged' = [staged EXCEPT ![stagedFile].len = @ + n]
  /\ remaining' = remaining - n
  /\ UNCHANGED <<shared, buffers, pc, goal, asleep, rlStored, saved, history>>

\* Variants with a bug: a failed read ends the copy as if all had been read, or
\* starts it again without a limit.
CopyStopsEarly ==
  /\ pc = "copy" /\ remaining > 0
  /\ remaining' = 0
  /\ SetState("PENDING_COMMIT")
  /\ UNCHANGED <<shared, buffers, asleep, rlStored, files, history>>
CopyRestarts ==
  /\ pc = "copy" /\ remaining > 0
  /\ remaining' = Size[filePath]
  /\ staged' = [staged EXCEPT ![stagedFile].len = 0]
  /\ UNCHANGED <<shared, buffers, pc, goal, asleep, rlStored, saved, history>>

\* The read fails, or returns nothing, or fwrite fails: what was written stays.
CopyFails ==
  /\ pc = "copy"
  /\ remaining > 0
  /\ remaining' = 0
  /\ SetState("ERROR")
  /\ UNCHANGED <<shared, buffers, asleep, rlStored, files, history>>

\* The loop is done.  The result of fclose is not looked at: when its flush
\* fails the tail of the staged file is missing and the deploy succeeds.
CloseStaged ==
  /\ pc = "copy"
  /\ remaining = 0
  /\ \/ UNCHANGED staged
     \/ /\ FlushMayFail /\ staged[stagedFile].len > 0
        /\ staged' = [staged EXCEPT ![stagedFile].len = @ - 1]
  /\ SetState("PENDING_COMMIT")
  /\ UNCHANGED <<shared, buffers, asleep, remaining, rlStored, saved, history>>

CommitFile(f) == <<f[1], CommitName[f[2]]>>

\* execCommitCmd: renameat replaces whatever had the final name ...
ExecCommit ==
  /\ pc = "commit"
  /\ staged[stagedFile] # Absent
  /\ saved' = [saved EXCEPT ![CommitFile(stagedFile)] = staged[stagedFile]]
  /\ staged' = [staged EXCEPT ![stagedFile] = Absent]
  /\ SetState("IDLE")
  /\ UNCHANGED <<shared, buffers, asleep, remaining, rlStored, history>>

\* Variant with a bug: the result of renameat is not looked at.
CommitIgnoresFailure ==
  /\ pc = "commit"
  /\ SetState("IDLE")
  /\ UNCHANGED <<shared, buffers, asleep, remaining, rlStored, files,
                 history>>

\* ... or open or renameat fails.
CommitFails ==
  /\ pc = "commit"
  /\ SetState("ERROR")
  /\ UNCHANGED <<shared, buffers, asleep, remaining, rlStored, files,
                 history>>

-----------------------------------------------------------------------------
(* setState: up to three critical sections and a notification *)

\* The branch of the switch on the target state.
BeginSetState ==
  /\ pc = "setState"
  /\ IF goal = "IDLE"
     THEN /\ lastDeployedResult' = IF bUpdateFailed THEN "FAILED" ELSE "SUCCESS"
          /\ lastDeployedMetadata' = filePath
     ELSE UNCHANGED <<lastDeployedResult, lastDeployedMetadata>>
  /\ bUpdateFailed' = (bUpdateFailed \/ goal = "ERROR")
  /\ pc' = IF goal \in {"IDLE", "PENDING_COMMIT", "ERROR"} THEN "reset"
           ELSE "setInstallerState"
  /\ UNCHANGED <<state, currentRl, pendingRl, bCmdPending, installerCmd,
                 bResumePending, cmdId, filePath, savename, stagedFile,
                 installDir, goal, asleep, remaining, rlStored, files,
                 history>>

\* bCmdPending and installerCmd are cleared: from here on a callback may accept
\* a command although state has not moved yet.  For IDLE the buffers, installDir
\* among them, and bUpdateFailed are zeroed too.
ResetCmd ==
  /\ pc = "reset"
  /\ bCmdPending' = FALSE
  /\ installerCmd' = NoCmd
  /\ IF goal = "IDLE"
     THEN /\ filePath' = NoPath /\ savename' = NoName
          /\ stagedFile' = NoFile /\ installDir' = Empty
          /\ bUpdateFailed' = FALSE
     ELSE UNCHANGED <<filePath, savename, stagedFile, installDir, bUpdateFailed>>
  /\ pc' = "setInstallerState"
  /\ UNCHANGED <<state, currentRl, pendingRl, lastDeployedResult,
                 lastDeployedMetadata, bResumePending, cmdId, goal, asleep,
                 remaining, rlStored, files, history>>

\* setInstallerState: the new state under the lock ...
SetInstallerState ==
  /\ pc = "setInstallerState"
  /\ state' = goal
  /\ pc' = IF state # goal THEN "notify" ELSE "run"
  /\ UNCHANGED <<currentRl, pendingRl, bCmdPending, installerCmd,
                 lastDeployedResult, lastDeployedMetadata, bResumePending,
                 buffers, goal, asleep, remaining, rlStored, files,
                 history>>

\* ... and its notification after the unlock; a failure is only logged.
NotifyState ==
  /\ pc = "notify"
  /\ pc' = "run"
  /\ UNCHANGED <<shared, buffers, goal, asleep, remaining, rlStored, files,
                 history>>

-----------------------------------------------------------------------------

MainStep ==
  \/ InstallerOpen \/ InstallerRegister
  \/ WaitForCmd \/ IdleTakeCmd \/ PendingCommitTakeCmd \/ ErrorTakeCmd
  \/ RaisePendingRl \/ WaitForRl \/ RlReached \/ ClearPendingRl
  \/ RejectNonDeploy \/ DeployNoSource \/ OpenStaged
  \/ \E n \in 1..MAX_CHUNK_LEN : CopyChunk(n)
  \/ CopyFails \/ CloseStaged
  \/ ExecCommit \/ CommitFails
  \/ BeginSetState \/ ResetCmd \/ SetInstallerState \/ NotifyState

CallbackStep ==
  \/ \E c \in Requests : InstallerCmdCB(c)
  \/ \E rl \in RunLevelRequests : StoreRunLevel(rl)
  \/ SignalRunLevel
  \/ InstallerPersistCtxCB

Next == MainStep \/ CallbackStep \/ CrashRestart

Spec == Init /\ [][Next]_vars

\* The main thread keeps being scheduled and a callback that stored a run level
\* gets to its signal.  Nobody has to send a command or to raise the run level.
FairSpec == Spec /\ WF_vars(MainStep) /\ WF_vars(SignalRunLevel)

-----------------------------------------------------------------------------
(* Properties *)

TypeOK ==
  /\ state \in States /\ goal \in States
  /\ pc \in Places
  /\ currentRl \in ValidRunLevel /\ pendingRl \in AnyRunLevel
  /\ bCmdPending \in BOOLEAN /\ installerCmd \in Command
  /\ lastDeployedResult \in {"NONE", "SUCCESS", "FAILED"}
  /\ lastDeployedMetadata \in Paths \union {NoPath}
  /\ bResumePending \in BOOLEAN /\ bUpdateFailed \in BOOLEAN
  /\ cmdId \in Words \ {"other"}
  /\ filePath \in Paths \union {NoPath}
  /\ savename \in Names \union {NoName}
  /\ stagedFile \in Files \union {NoFile}
  /\ installDir \in {Cwd, Empty}
  /\ asleep \in BOOLEAN /\ rlStored \in BOOLEAN
  /\ remaining \in Nat
  /\ staged \in [Files -> Content] /\ saved \in [Files -> Content]
  /\ taken \in BOOLEAN /\ rlReached \in BOOLEAN
  /\ deployedPath \in Paths \union {NoPath}

\* What a faithful copy of the file at path p is.
Full(p) == [src |-> p, len |-> Size[p]]

\* A file never stands under its final name unless it is a whole copy of one
\* source: not after a failed or interrupted copy, not after a crash, not after
\* commands that were refused.  (execDeployCmd, execCommitCmd: the point of
\* staging and of committing by rename.)
CommittedComplete ==
  \A f \in Files : saved[f] # Absent => saved[f] = Full(saved[f].src)

\* Whoever sees PENDING_COMMIT, in the state node or in state.notify, can count
\* on a whole staged copy of the path deployed last: the copy loop of
\* execDeployCmd is over and nothing has reused its buffers.
PendingCommitHasStaged ==
  state = "PENDING_COMMIT" /\ pc \in {"run", "notify"} =>
    stagedFile # NoFile /\ staged[stagedFile] = Full(deployedPath)

\* No deploy runs on a run level that never was high enough: at some moment
\* since its command was taken currentRl was at least RL_BG_APPLY (the checks
\* of installerStateIdle and installerStatePendingRL, made under a lock that is
\* released before the state changes).
InstallOnlyAfterRunLevel == state = "INSTALLING" => rlReached

\* What last_deployed reports when an update ends is what happened: SUCCESS is
\* reported exactly on the way out of PENDING_COMMIT, and then the file of
\* last_deployed/metadata stands complete under the committed name.
ReportMatchesDisk ==
  pc = "reset" /\ goal = "IDLE" /\ state # "IDLE" =>
    /\ lastDeployedResult = "SUCCESS" <=> state = "PENDING_COMMIT"
    /\ lastDeployedResult = "SUCCESS" =>
         saved[CommitFile(stagedFile)] = Full(lastDeployedMetadata)

\* installerInit has opened the connection and has not yet run setState(IDLE).
Starting ==
  /\ state = "IDLE" /\ goal = "IDLE"
  /\ pc \in {"boot", "register", "setState", "reset"}

\* A command installerCmdCB accepted is parsed before bCmdPending is reset,
\* although setState resets it in a critical section of its own and a new
\* command may come right after it.  (Once installerInit is over.)
NoCommandLost ==
  [][bCmdPending /\ ~bCmdPending' /\ pc' # "boot" /\ ~Starting => taken]_vars

\* ERROR is left by clear_error only, and only to IDLE; until then every command
\* is refused and the failure stays on record for last_deployed/result.
OnlyClearErrorLeavesError ==
  [][state = "ERROR" /\ state' # "ERROR" /\ pc' # "boot" =>
       state' = "IDLE" /\ cmdId = "clear_error"
         /\ lastDeployedResult = "FAILED"]_vars

\* Once installerInit is over, an accepted command is taken by the main thread:
\* no wake-up of its duCondWait is lost.  (Or the process dies first.)
CommandServed ==
  (bCmdPending /\ ~taken /\ Serving /\ ~Starting) ~> (taken \/ pc = "boot")

\* When the run level is raised for good, an installer waiting for it goes on,
\* although the signal is sent without the mutex.
RunLevelServed ==
  <>[](currentRl >= RL_BG_APPLY) => []<>(state # "PENDING_RL")

\* A deploy ends, in PENDING_COMMIT or in ERROR.
DeployEnds == (state = "INSTALLING") ~> (state # "INSTALLING")

=============================================================================
