# A TLA+ model of the DRIVE Update plugins

This directory holds a formal model of the programs in this repository: a DRIVE
Update installer plugin, the content providers that serve packages to it, and the
client that drives an update. TLC checks the modules on small instances; TLAPS
proves all their safety properties for every instance. Liveness is checked by TLC only.

Contents: 1 Inventory, 2 Plan, 3 The modules and the code, 4 The runs, 5 The proofs,
6 Where code and documentation disagree, 7 What is not modelled.

## 1. Inventory

The programs talk over **DU Link**, a tree of named nodes in which each program
exports files. Reading or writing a node runs a callback in the exporting process,
on a thread of the DU Link library; `X.notify` nodes push the new value of `X` to
those who registered. **DU Master** is the coordinator of an update: it reads a
package's metadata, watches every plugin's `state` and `pending_rl`, writes `cmd` and
`requested_rl`, and reports the progress to clients over **DUCC**. Neither library nor
DU Master is part of the repository: they are modelled, where needed, from how the
code here uses them, and marked external.

| component | state | operations | who else touches it |
|---|---|---|---|
| `duinstaller` (C, Python) | the plugin's state, current and pending run level, one command slot (`DU_INSTALLER`, one mutex and one condition variable); parsed command, staged file, failure flag (`SAMPLE_INSTALLER`, main thread only); `<name>.staged` and `<name>` on disk | `installerRun`'s state handlers, `setState`, `execDeployCmd`, `execCommitCmd`, write callbacks of `cmd`, `requested_rl`, `persistent_ctx_path` | DU Master writes commands and run levels and acts on notifications; the file it copies comes from a content provider |
| `content_server` (C, Python) | `CONTENT_PROVIDER_COMMON` (state, context path, mutex), `localPath`, `dupkgPathCached`, whether a context store is used; exported nodes; the context store outside | start-up, `serve`, `stop`, `set`, `save`, `clear`, `quit` at the prompt, `cmdCB`, `exportFileCB`, `contentPersistCtxCBPlugin` | clients write `cmd`, DU Master reads files, DU Master names the context store |
| `remote_content_provider` | as content_server, plus a retry counter | serve and stop of a URL, reads through libcurl | same |
| `driveupdate` | push callback registered, monitor thread handle, validation status of push mode, persistent context | `deployPackage`, `monitorUpdate`, `abortDeploy`, `performPush`, `pushCB`, signal handler | DU Master and DUCC; DU TII in push mode; several monitors at once |
| `du_cli` | DU Server's partition table and chains | scan a package, flash each payload, reload the table | DU Server |
| `ffu_update` | storage firmware | open, ready, compare, update, close | libmnand |
| `plugin_common` | the locks, node callbacks and state changes the plugins share | `setInstallerState`, `setInstallerPendingRl`, `contentProviderSetState`, the read and write callbacks | all plugins |
| `bhc_plugin`, `delta_tools`, headers, scripts | none | stubs, macros, shell pipelines | - |

What is hard in them:

- **Locks that are given up in the middle.** `setState` of the installer resets the
  command slot and changes the state in two critical sections; `executeCmd` of the
  content server exports, announces and writes down what it serves in three. Callbacks
  run in the gaps.
- **Signals without the mutex.** `installerRequestedRlCB` and `pushCB` signal a
  condition outside the mutex of the waiter.
- **Tests that are stale when used.** Run level tested, lock released, file copied.
  DUCC's state read, then a deploy triggered.
- **Partial failure.** A copy that stops half-way; a serve whose third entry cannot be
  exported; an `fclose` that loses data; a notification that is not delivered.
- **Crash and restart** between staging, publishing and reporting; between commands
  and the context store that is to resume them.
- **Two parties that wait for each other.** DU Master waits for a state or a pending run
  level it is told of, the plugin for a command or a run level.

What makes each component correct:

- installer: no partial file under a final name; PENDING_COMMIT means a whole staged
  copy; nothing is installed before the run level allows it; no accepted command is
  lost; errors stay until they are cleared; reports match the disk; every wait ends;
- content server: the announced state, what it can stop and read, what is exported and
  what the context store holds agree with the commands it answered; every command
  returns;
- remote provider: the same, and a transfer that fails transiently is retried;
- update client: an update that is reported as done is this client's and is done; the
  context on the store is that of the update under way; an abort ends and leaves
  nothing registered; no answer of DU TII is lost;
- du_cli: payloads go out in order, SUCCESS means that what was counted was applied;
  tables are reloaded before what depends on them.

PROJECT.json lists the hazards one by one, with the line where each bites and the
properties that would catch it.

## 2. Plan

Most important behaviour first; a module that is composed comes before its composition.

| # | module | what | status |
|---|---|---|---|
| 1 | `RunLevels`, `FileNames`, `DuInstaller` | the installer plugin | done |
| 2 | `InstallerPromise`, `DuInstallerRefinement` | what the README promises of it, and that it is kept | done |
| 3 | `DuInstallerInvariant`, `DuInstallerProofs` | inductive invariant and proofs | done |
| 4 | `InstallerUpdate`, `InstallerUpdateProofs` | composition with the DU Master that drives it; proofs | done |
| 5 | `ContentServer`, `ContentServerProofs` | the content server; proofs | done |
| 6 | `UpdateClient`, `UpdateClientProofs` | `driveupdate`: main thread, monitors, abort, signals, context, restarts; proofs | done |
| 7 | `RemoteContentProvider`, `RemoteContentProviderProofs` | serve and stop under one lock, reads and copies with their retries; proofs | done |
| 8 | `PushUpdate`, `PushUpdateProofs` | `performPush`, `pushCB` and DU TII; proofs | done |
| 9 | `DuCli`, `DuCliProofs` | payload order, reload of the tables, what SUCCESS means; proofs | done |
| 10 | `RunlevelNotify`, `Operators` | the unsynchronised run-level notification; version comparison as a pure function against a reference definition | left |

Theorems left: that `InstallerUpdate` implements a promise of its own (an update is under way,
installed or failed), as `DuInstaller` implements `InstallerPromise`, and the theorems of
`RunlevelNotify` and `Operators`.
Every module is written so that it can be proved about: constants with named
assumptions, one action per critical section, no recursive operators.

## 3. The modules and the code

An action is one critical section together with the thread-local work next to it. What
lies between two critical sections is a step between two actions, in which any other
thread can act. PROJECT.json maps every definition to its lines.

**RunLevels** (`utils.h`, `duinstaller_common.c`): the run levels and the merge of a
new pending level into an old one. **FileNames** (`duinstaller_helpers.c`): names as
sequences of parts, the suffix `.staged`, and where the commit cuts a name.

**DuInstaller** (`duinstaller.c`, `duinstaller_helpers.c`, `duinstaller_common.c`).
`pc` is the place of the main thread inside `installerRun`; `goal` is the argument of
the `setState` it is in; `asleep` tells that it is in `duCondWait`.

| actions | code |
|---|---|
| `InstallerOpen`, `InstallerRegister` | `installerInit`; callbacks run from `InstallerOpen` on |
| `WaitForCmd`, `IdleTakeCmd`, `PendingCommitTakeCmd`, `ErrorTakeCmd` | the state handlers up to the parsed command, which they take under the lock |
| `RaisePendingRl`, `WaitForRl`, `RlReached`, `ClearPendingRl` | the run-level test of IDLE and `installerStatePendingRL` |
| `RejectNonDeploy`, `DeployNoSource`, `OpenStaged`, `CopyChunk`, `CopyFails`, `CloseStaged` | `installerStateInstalling`, `execDeployCmd`; one chunk of the copy loop per step, of any length up to what was asked for |
| `ExecCommit`, `CommitFails` | `execCommitCmd` |
| `BeginSetState`, `ResetCmd`, `SetInstallerState`, `NotifyState` | `setState` and `setInstallerState`, in their separate critical sections |
| `InstallerCmdCB`, `StoreRunLevel` and `SignalRunLevel`, `InstallerPersistCtxCB` | the write callbacks; the run level is stored under the lock and signalled without it |
| `CrashRestart` | the process dies anywhere; only files survive |

File contents are a pair of source and length: what the properties tell apart. The
command parser is modelled by what it leaves behind, including that it stores a path
before it knows the command is well formed. `duPathJoin` with the zeroed `installDir`
gives the root directory, as in the code (section 6).

**InstallerPromise** is the README's picture of the installer: accept, stage, publish
atomically, finish, fail, clear; only a restart ends an update otherwise. **DuInstallerRefinement** maps the detailed state onto
it. A crash maps onto a failure or a stutter, the publication onto the one `rename`.

**InstallerUpdate** composes the installer with a DU Master that follows the
README's `du_master.json` (external): deploy when the plugin is IDLE, commit when it is
PENDING_COMMIT, the run level the plugin asks for, clear after an error. It knows the
plugin through notifications, and any of them may be lost.

**ContentServer** (`content_server.c`, `ducontent_provider_common.c`). `pc[t]` tells in
which gap of `executeCmd` thread `t` is.

| actions | code |
|---|---|
| `Open`, `PersistCtxCB`, `WaitForContextStore`, `InitSetIdle` | `contentServerInit`; a context path may come in time, late or never |
| `RunMode` | what the command line asks for: idle, clear, a new package, resume |
| `CliServe`, `CliStop`, `CliSet`, `CliSave`, `CliClear`, `CliQuit` | the prompt |
| `CmdCB` | a command over DU Link |
| `ExecuteServe`, `ExecuteStop` | `executeCmd` up to where it releases the mutex, with exports and unlinks that fail anywhere |
| `Announce`, `Finish` | `contentProviderSetState`; then `localPath` and the context store |
| `ReadBegin`, `ReadEnd` | `exportFileCB` with and without the mutex |
| `Restart` | killed or ended, and started again |

The variant `MutexKept` is what `python_src/content_server` does: its `execute_cmd` does not give
the lock back before it calls `set_state`.

**RemoteContentProvider** (`remote_content_provider.c`, and the retrying reads of `utils.h`
on the client's side). Unlike the content server it holds the mutex for a whole command;
the command line's serve, however, takes none. `RemoteContentProvider` has three kinds of threads: the
main thread, writers of `cmd`, and readers, of which some copy a file in pieces, as
`dulinkReadRetry` does, and others ask for its size. The remote server is not in the repository: it
may fail any transfer; one that sets `Accept-Ranges: bytes`, as the program's `README.txt` demands,
answers a range with that range (206), and any other (not in `AcceptRanges`) may answer with the
whole file (200), which `exportFileCB` takes just as well.

| actions | code |
|---|---|
| `Open`, `InitSetIdle`, `RunMode` | `contentServerInit`, and the serve that `main` does without the mutex |
| `CmdCB` | a command over DU Link |
| `ServeFolder`, `ServeFails`, `CleanUpServe`, `SetLocalPath` | `serveFolder` with transfers and exports that fail anywhere; the clean-up that unlinks the whole list; then `localPath` |
| `StopUnlinks`, `StopFails` | `stopServe` |
| `Admit`, `TransferFails`, `AnswerSize`, `AnswerHead`, `AnswerGet`, `CopyAnswer` | `exportFileCB`: path computed under the mutex, transfers without it, then all that came is copied to the client |
| `LoadRetry`, `StoreRetry` | the test and the increment of `totalRetry`, which threads interleave |
| `Restart` | killed, and started again |

**UpdateClient** (`driveupdate.c`). Nothing in this program is protected by a lock, so
an action is one call to DU Link or DUCC with the work next to it. `main` is the place of the main
thread, `mon[m]` that of a monitor thread, `ab[t]` the place of thread `t` inside `abortDeploy`,
which the prompt and the handler of SIGQUIT both call; a signal is taken by the main
thread, or by a monitor while the main thread blocks it.

| actions | code |
|---|---|
| `Start`, `Crash`, `Interrupt`, `Leave`, `End` | `main`, SIGINT and SIGTERM in `sigHandler`, `leave`, `cleanUpConn`, a kill |
| `Deploy`, `DeployExport`, `DeployRegister`, `DeployRegistered`, `DeployStatus`, `DeployTrigger`, `DeployContext`, `DeployMonitor` | `deployPackage`, `triggerUpdate`, `updateContext` |
| `MonitorSeesEnd`, `MonitorSeesPending`, `MonitorRequestsRunLevel`, `MonitorClearsContext`, `MonitorFails` | `monitorUpdate` |
| `AbortCommand`, `AbortSignal`, `AbortStatus`, `AbortWait`, `AbortWaitFails`, `AbortContext`, `AbortJoin`, `AbortRunLevel` | `abortDeploy` |
| `SetRunLevel` | `setRunlevel`, reduced to dormant or above |
| `MasterStarts`, `MasterNeedsRunLevel`, `MasterEnds`, `MasterAborts`, `MasterRestarts` | DU Master (external) |

Three variables are history. `ctxTrouble` and `cbTrouble` record that something happened for which
the code only logs a warning or does not care at all: a write that failed, DUCC silent
during an abort, a deploy that was refused or that began before the monitor of the one before had ended,
a kill between a call and the note of it. `aborted` says that the last command was an abort
without such trouble. The properties are about behaviours without it: with it
the program loses track, and section 6 says how.

**PushUpdate** (`driveupdate.c`). What `push_cb` does once it is registered. `loc[w]` is where
a thread of `performPush` is in the package's map; `cb` is the one call of `pushCB` under way, of which storing
the verdict and signalling it are separate steps; `line` is the line typed last, which the
thread's package path points into.

| actions | code |
|---|---|
| `Deploy`, `AbortDeploy`, `TypeCommand` | the registration in `deployPackage`, `abortDeploy`, `getLine` |
| `CbEnabled`, `CbStore`, `CbSignal` | `pushCB` |
| `ReadMap`, `ReadChunk`, `ReadMissing`, `WriteChunk` | the map of the inactive chain; one read or write of `pushFileBuf` per step |
| `StartValidation`, `SendJson`, `Test`, `Wait`, `WakesUp`, `Verdict`, `Enable` | a validation; the test of the status and the wait are separate steps, since `pushCB` does not take the mutex |
| `Reload`, `CallFails`, `Disable`, `Abort` | the other entries, errors, and the two ways out |
| `TiiEnables`, `TiiValidates`, `MasterEnds` | DU TII and DU Master (external): `docs/driveupdate.md` says that DU TII notifies of its own changes of push_mode only |

`failed`, `lost` and `stale` are history: a call or a validation failed; an answer was
signalled while nobody waited; something the code does not guard against interferes,
that is a thread or an answer left over from an aborted update, or another line typed.

**DuCli** (`du_cli.c`) is one sequential process. A file of the package is a number and a suffix (0 to 2, as in
the code's `suffixIndex`); its content is what `readFileContent` and `parsePayload` make of it.
The first scan, `getTotalPayload`, is the pure operator `TotalPayload`; the second is the
loop of `FindPayload`, `Flash`, `ReloadPt`. `CleanUp` is a signal between any two calls.

## 4. The runs

A passing run explores its instance completely. Deadlock is checked except in
`InstallerUpdate`, where DU Master need not start another update, and in `DuCli`, which ends.

| run | question | instance |
|---|---|---|
| `DuInstaller_safety` | Is the installer safe under all interleavings, failures, crashes, and sequences of commands? Does it implement the promise? Does `IInv` hold? | two source files, of lengths 2 and 0, chunks of up to 2; two names, one with the suffix inside; five commands, among them one that is refused after its path was stored; run levels just below and at RL_BG_APPLY |
| `DuInstaller_live` | Is every accepted command taken, is a raised run level noticed, does a deploy end? | one name, four commands, `fclose` may lose data |
| `InstallerUpdate` | Is an update that DU Master takes for done installed, and does it end? | two packages of one name, lost notifications |
| `InstallerUpdate_lost_notify` | Is the pending run level always announced? (no) | same |
| `ContentServer` | Do state, exports and context store agree with the commands? Does a command return? | two packages that share a node, the prompt, one DU Link thread, one reader |
| `ContentServer_read` | Is a read always answered from the package? (no) | same |
| `UpdateClient` | Does the context name the update under way, is push_cb tracked, what does an abort leave, and does it end? | one package, two monitors |
| `UpdateClient_abort` | Does an abort end with the update? (no) | one package, one monitor |
| `RemoteContentProvider` | Are exports those of the served package, is a copy whole, do answers fit in the buffer, does every read get an answer? | two packages that share a node, of size 3 on a server that keeps to ranges, of size 4 on one that need not; pieces of 2, one retry; one writer, one copier, one that asks for sizes |
| `PushUpdate` | Is what is reported as pushed pushed and validated, is nothing written during a validation, does the thread end? | a package with an image of one buffer, a validation and an image of one and a half; another with a smaller image and a reload; one thread |
| `PushUpdate_lost_answer` | Does the answer of DU TII end the wait? (no) | same |
| `DuCli` | Do payloads go out in order and under loaded tables, what does SUCCESS mean, does the tool end? | every directory of at most three files with numbers up to 3, each file of any kind, each active chain |

**Why the bounds are enough.** Length 2 with chunks of up to 2 has a copy that ends on a
chunk boundary, one in two chunks and one that fails between them; length 0 has
the empty loop. Two sources and two names let a refused or repeated command redirect what an
earlier one staged. In ContentServer two commanders are enough for each gap of
`executeCmd` to be entered by another command, and two packages of which one contains
the other show entries exported twice. In UpdateClient the code passes the package on and never
compares it, so that one package against the empty context shows each context that is
cleared or written at the wrong time (the safety properties also hold with two packages,
2.4 million states); `Monitors` bounds how many monitor threads run at
once, and two are enough for a monitor to be orphaned by the one that
took its place in `monitorThread`. RemoteContentProvider's copies take two
pieces, of which the last is a whole or a half one; a 200 answer overruns the buffer for the first piece and for
the second; and a package can change between the size and each piece. The safety
properties also hold with a third package, whose file fits in the buffer, on a server that ignores ranges,
and with two retries (2.5 million states). PushUpdate's
images end on, before and after a buffer boundary. One thread of `performPush` is enough for
its properties, since with two (`stale`) they promise nothing, and a thread that survives an
abort still meets a later update. DuCli's three files are one of each suffix in a row,
a gap, or numbers used twice. There are no counters to bound: all
other sets are finite by themselves.

**Fairness.** `FairSpec` of DuInstaller: the main thread is scheduled, and a callback that
has stored its run level gets to its signal. Nobody has to send a command or raise a
run level. `UpdateFair` adds that DU Master reacts to what it was told; starting updates
and clearing errors stays optional. `FairSpec` of ContentServer: a thread inside
`executeCmd` runs on. `FairSpec` of UpdateClient: threads inside a command, an abort or a
monitor run on, and DU Master gets on with an update it has started; where only a
call that fails would let a thread go on (`MonitorFails`, `AbortWaitFails`) nothing says
that it does. An accepted deploy is taken to leave UP_TO_DATE or UPDATE_FAILED before the
write of the command returns: with a DU Master that does so later, the monitor could
take the end of the update before for the end of this one. In RemoteContentProvider
commands and transfers run on, and a reader that asks for the mutex again and again gets it
(`SF` of `Admit`, the one strong fairness of the project: without it a stream of commands
could keep a reader out for ever; nothing is assumed of clients that ask for sizes). In PushUpdate the threads run on and DU TII answers; a wait need not end by itself. In DuCli
the process is scheduled and DU Server answers. Otherwise all are weak fairness of threads that are runnable; no
scheduling between threads is assumed.

**What the properties leave open, and say.** `UpdateEnds` is about behaviours in which no
notification is lost: with a lost one the update may hang, which
`InstallerUpdate_lost_notify` shows. ContentServer's properties are about moments
when nobody is inside `executeCmd` and no two commands have overlapped since the start
(`Orderly`): overlapping ones really break them, see section 6. PushUpdate's are about updates
into which nothing of an earlier one and no other line interferes, `PushEnds` moreover about answers
that find the thread waiting: `PushUpdate_lost_answer` shows what happens otherwise.
`SuccessMeansFlashed` is about directories whose files can all be read. `CopyIsWhole` and `AnswersFit` of
RemoteContentProvider are about remote servers that keep to ranges and about files no longer than the
client's buffer (`AsAsked`); in the same run other servers answer with whole files, for which they say
nothing, and what happens then is in section 6.

## 5. The proofs

Each component has a module of proofs. Its theorems hold for every value of the constants
that satisfies the component's named assumption (`InstallerAssumption` and so on), which
TLC evaluates in every run.

| module | theorem | property |
|---|---|---|
| `DuInstallerProofs` | `Invariance` | `IInv` |
| | `TypeCorrect` | `TypeOK` |
| | `CommittedAlwaysComplete` | `CommittedComplete`, if `fclose` does not fail |
| | `PendingCommitAlwaysStaged` | `PendingCommitHasStaged`, if `fclose` does not fail |
| | `InstallAlwaysAfterRunLevel` | `InstallOnlyAfterRunLevel` |
| | `ReportAlwaysMatchesDisk` | `ReportMatchesDisk`, if `fclose` does not fail |
| | `NoCommandEverLost` | `NoCommandLost` |
| | `OnlyClearErrorEverLeavesError` | `OnlyClearErrorLeavesError` |
| | `Implementation` | `ImplementsPromise`, if `fclose` does not fail |
| `InstallerUpdateProofs` | `UpdateTypeCorrect` | `UpdateTypeOK` |
| | `UpdateInvariant` | the inductive invariant `UpdateInv`, under the premises of the next |
| | `DoneAlwaysMeansInstalled` | `DoneMeansInstalled`, if `fclose` does not fail and no package's name contains `.staged` |
| `ContentServerProofs` | `ContentInvariant` | the inductive invariant `ContentInv` |
| | `ContentTypeCorrect` | `ContentTypeOK` |
| | `AlwaysServingAsCommanded` | `ServingAsCommanded` |
| | `AlwaysExportsExactlyServed` | `ExportsExactlyServed` |
| | `ContextAlwaysFollowsServed` | `ContextFollowsServed` |
| `RemoteContentProviderProofs` | `RemoteInvariant` | the inductive invariant `RemoteInv` |
| | `RemoteTypeCorrect` | `RemoteTypeOK` |
| | `AlwaysExportsExactlyServed` | `ExportsExactlyServed` |
| | `AlwaysCopyIsWhole` | `CopyIsWhole` |
| | `AnswersAlwaysFit` | `AnswersFit` |
| `UpdateClientProofs` | `ClientInvariant` | the inductive invariant `ClientInv` |
| | `ClientTypeCorrect` | `ClientTypeOK` |
| | `AlwaysContextNamesUpdate` | `ContextNamesUpdate` |
| | `AlwaysCallbackTracked` | `CallbackTracked` |
| | `AlwaysAbortLeavesNothing` | `AbortLeavesNothing` |
| `PushUpdateProofs` | `PushInvariant` | the inductive invariant `PushInv` |
| | `PushTypeCorrect` | `PushTypeOK` |
| | `AlwaysDisabledMeansPushed` | `DisabledMeansPushed` |
| | `AlwaysAbortHasReason` | `AbortHasReason` |
| | `AlwaysWritesWhenEnabled` | `WritesWhenEnabled` |
| `DuCliProofs` | `CliInvariant` | the inductive invariant `CliInv` |
| | `CliTypeCorrect` | `CliTypeOK` |
| | `AlwaysInOrder` | `FlashedInOrder` |
| | `TablesAlwaysFresh` | `TablesFresh` |
| | `ScanInvariant` | the inductive invariant `ScanInv` |
| | `AlwaysSuccessMeansFlashed` | `SuccessMeansFlashed` |

None of the safety properties is inductive; each proof rests on an invariant that TLC found to hold on the
instance of the component's run before it was proved. The lemmas are grouped by part of the
invariant, with one step, or one lemma, per action.

**DuInstaller.** The premise `~FlushMayFail` is necessary: with `FlushMayFail = TRUE` in
`DuInstaller_safety.cfg`, TLC finds PENDING_COMMIT over a short file.
`CommittedComplete` depends on what
is staged when the rename happens, that on the copy loop's count of what is left, and
that on nobody else using the buffers of the main thread between the end of the copy
and the commit: which holds since the command slot is full while a command is worked
on, and commands that fail to parse overwrite `filePathBuf` only in places where it is
no longer needed. `DuInstallerInvariant` says this in seven parts: `TypeOK`, where the
main thread is relative to the state (`PlaceOK`), that the command being worked on is
still in the slot (`CommandOK`), that the run level was seen (`RunLevelOK`), the life
of the failure flag (`FailureOK`), and what is staged (`CopyOK`), and `CommittedComplete`.
`DuInstaller_safety` checks `IInv` with TLC first. The proof has one lemma per part
(`TypeStep` to `CommittedStep`), each with one step per action; `Invariance` puts them together,
the properties follow from it, the action properties with `StateChanges` and
`PendingCleared`, which name the only actions that touch the state and the slot. `NextPromise`
shows that each step is a step of the promise or a stutter.

**InstallerUpdate.** `UpdateAnyStep` shows that the plugin makes no other steps under DU Master than
under any clients, so that `IInv` holds in the composition, too. `Agreement` adds what DU Master
may rely on although any notification may be lost: when it has nothing outstanding, the
plugin waits where DU Master thinks it does (`Waiting`); when it has written a command,
the plugin is at some place on the way of that command, of which there are four for a
deploy (`Deploying`), four for a commit (`Committing`), three for a clear (`Clearing`). The first change to
IDLE, at the end of `installerInit`, empties `installDir`, so that every update ends in one file, `Home`. The premise
`PlainNames` is necessary: a name that contains `.staged` is cut at the commit (section 6), and what
the update is named after is then not there. Both premises hold in the instance TLC checks.
The proof uncovered a missing assumption of the installer: `BadName`, the argument of `savename=` that the
parser rejects, is not the empty `savenameBuf`.

**ContentServer.** As long as no two commands have overlapped, at most one
command is between its critical sections, and it was let through by the state that the one before it
left (`CommandOK`); so `served`, the package of the last command that completed, determines
`localPath`, the state, the nodes (`NodesOK`, if no export or unlink failed), and the context
store. In each gap the invariant says which of these the command under way has already changed.

**RemoteContentProvider.** A command of a client holds the mutex for as long as it runs (`CommandsOK`), so what
is exported and where reads go is `Settled` when none runs, and otherwise as `Midway` says for
the place of the one that runs. A copy that has not seen the package change has exactly the bytes up
to its offset, in their order, if it is answered as it asked (`CopyOK`): by a server in `AcceptRanges`, or because
the file fits in the buffer, in which case a copy is at its beginning or at its end and the whole file is what
it asks for. A range is a piece of the file (`Asked`), an answer that piece or the whole file (`Answered`).
`FileBytesConcat` and `RangeSize` are what the two rest on: pieces continue each other, and
`constructRange` asks for at least one byte and for no more than the buffer takes. Without `AsAsked` neither holds. `RetryOK` is the bound
of the retry counter: two clients can push `totalRetry` one above DULINK_RETRY_NUMBER, since the test
and the increment are separate, but not further, as a count that has reached
the limit is held by one of them only while the other is not counting. The bound
says `Cardinality(Clients) <= 2`: the proof attempt showed that it fails for three, where one that
stores an old count makes room for another to pass the test while the third holds a high one.

**UpdateClient.** `AbortsPlaced` says who is inside `abortDeploy`: a monitor exactly while it is in the signal
handler, the main thread from the prompt or from its handler; each of them blocks signals.
`CallbackFollowed` follows `gbRmCbPath` through a deploy, an abort and a kill. `OneMonitor` is the reason
that joining `monitorThread` is enough: as long as no deploy began before the monitor of the
one before had ended, no monitor runs during a deploy, and afterwards only the one
`monitorThread` names. From it follow `ContextFollows`, that a thread which is about to clear the
context, or has cleared it, has seen the update end, and no update begins before it is through; `FlagDown`,
that nobody registers push_cb while another thread aborts; and `AbortLasts`, that after an abort no
monitor is left to raise the run level. `ctxTrouble` marks where these reasons fail, and only the next
deploy forgets it (`TroubleLasts`).

**PushUpdate.** Unless something stale interferes, one thread pushes (`Lone`), DU TII's push mode is the one it
has set (`ModeOK`), the question DU TII has is the one it asks and a verdict that is stored is the answer to
it (`AnswerOK`), and every chunk and validation before its place in the map is done (`EntryOK`,
`PushedTo`). Offsets stay at multiples of the buffer size and writes inside the images also with
interference (`LocOK`), which gives the types.

**DuCli.** `FlashedInOrder` needs that the loop's `i` agrees with what has gone out at each place, and that
`suffixIndex` is an upper bound of the suffixes so far and only grows. `CliInv` says so, and that a table
is loaded wherever the loop goes on, which is `TablesFresh`. `KeptStep` covers the actions that
only move the program on, `FindStep` and `FlashStep` the other two; `TotalBound`
shows from the definition of the first scan that no more payloads are counted than
there are numbers. `SuccessMeansFlashed` relates the two scans: `CountIsFound` shows that the n-th file
of the count is the first that exists at or after the suffix of the one before, which is where
the search of the loop starts, so that with readable files the loop finds what was counted (`ScanInv`). Where that needs
induction over the numbers, `LeastNumber` takes the least counterexample, from the library's theorem on
finite sets.

**What is model-checked only.** Liveness (`CommandServed`, `RunLevelServed`, `DeployEnds`, `UpdateEnds`,
`CommandReturns`, `AbortEnds`, `ReadAnswered`, `PushEnds`, `CliEnds`): it holds under fairness, which is
outside what the prover does. So are the four properties that do not hold (section 6).

## 6. Where code and documentation disagree

Shown by a run (PROJECT.json "findings" quotes the documents):

1. When the notification of `pending_rl` fails, the value stays; the next deploy notices
   no change, tells nobody, and waits (`InstallerUpdate_lost_notify`).
2. The content server announces CONFIGURED before it knows where the package
   is: a client that reads at once is answered from the root directory (`ContentServer_read`).
3. An abort that comes too late waits for an UPDATE_FAILED that never comes, with the signals
   blocked (`UpdateClient_abort`).
4. `pushCB` stores and signals the verdict of DU TII without the mutex: if it comes between
   performPush's test and its wait, the push update waits for ever
   (`PushUpdate_lost_answer`).

Part of the model, without a run of their own:

- A command accepted during start-up, before `setState(IDLE)`, is acknowledged and wiped:
  `duinstaller_common.h:397` says that installerCmdCB "will save command written and signal plugin".
- `clear_error` does not delete the staged file (README.md:171): `unlinkat` is called on a
  descriptor of the file itself with an empty name.
- The result of `fclose` is ignored, so that a full disk can leave a short file
  in PENDING_COMMIT, and then under its final name (`duinstaller_helpers.h:65`).
- The Python content server deadlocks on its own lock in every serve and stop, although a comment
  (`content_server.py:122`) says that it releases it.
- An abort takes push_cb off DU TII's list and leaves the thread of `performPush` running: it goes on writing
  partitions, into the next update if there is one, shares the static map, transfer
  buffer and status with that one's thread, and aborts it when it fails. If it waits for
  an answer it waits for ever.
- The package path that `performPush` reads from points into `cmdLine`: the next line typed, be it
  a deploy that is refused, changes it under the running update.
- du_cli exits with PASS after a deploy that failed: `main` overwrites the result with that of
  `duscDeinit`. `python_src/du_cli` returns the result.
- "When DUS error received ... Dump the DUS log" (`du_cli.c:738`): `deploy` returns FAIL and never
  the error of DU Server, so that the log is dumped after a failing `showPT` or with `-l` only.
- README.md:141 lists `1.l1pt`, `1.pt`, `1.patch`, `2.pt` as the files of a package. Each number is used
  once: of these four, `1.l1pt` and `2.pt` are flashed, the others neither counted nor reported, and du_cli prints SUCCESS.
- "Check if i.pt exists first, if not, check if i.patch exists" (`du_cli.c:534`): a table that exists
  but cannot be read is passed over, for good, and `i.patch` is flashed in its place.
- A run of du_cli that is interrupted between a table and its reload leaves DU Server with the
  old table, and the next run does not reload it unless it flashes a table, too.
- A `C_*` partition is written to chain C also when C is the active one.
- `setState` for IDLE wipes `installDir` with the command buffers, and `installerInit` ends with it: every
  deploy is staged in and committed to `/`, never to the start directory that `getcwd` had stored.
- A name that contains `.staged` is cut at the first occurrence on commit.
- A refused command leaves its path in `filePathBuf`, and a failed deploy reports it
  as `last_deployed/metadata`.
- Overlapping content commands: a serve in the gap of a stop ends CONFIGURED with an empty
  `localPath`, which can be neither read nor stopped.
- A serve that fails leaves the nodes it had exported; the same serve may then fail for ever.
- stop saves the empty path in the context store, so that `serve` without a path finds
  nothing to serve again after a restart.
- `docs/driveupdate.md` says that a deploy in any other state warns and does nothing: it still
  overwrites the context and starts a monitor, whose handle replaces that of
  the running one.
- A deploy that is entered after an update has ended but before its monitor has cleared the
  context can have its own context cleared by that monitor.
- A trigger that fails leaves the signals of the main thread blocked until the next one
  that succeeds, or an abort.
- `blockSig` is to "make sure atomic critical section", and blocks the calling thread only: a monitor
  that does not block them takes the signal in the middle of an abort.
- A client that is started again resumes the monitor of a push update but does not register
  push_cb again.
- abort and the end of `main` join `monitorThread` whether or not there is one, and twice
  after an abort: undefined behaviour, modelled as a join that returns or (`Crash`) as the end of the
  process.
- `exportFileCB` takes a 200, the whole file, for a part of it, at any offset, and copies all of it into the
  client's buffer without a look at its length: from a server that does not set `Accept-Ranges: bytes` a file longer than
  the buffer overruns it (undefined behaviour, modelled as a process that goes on with all the bytes, or dies), and a
  copy gets the beginning again where it asked for a later piece. `README.txt:12` demands such a server; nothing in
  the code checks for one.
- README.md says that serve can switch to another package; while one is served it is refused.

## 7. What is not modelled

The libraries (DU Link, DUCC, the JSON parser, libcurl, libmnand, the DUS client) and
DU Master are external. Logging, progress output, argument parsing and the read
callbacks of nodes change no state a property is about. `setInstallerProgress` is
never called by the plugin. Power loss is not modelled: a crash keeps what was written.
In UpdateClient, commands that only read or print and the checks that refuse a package before anything
changes are left out; the question a monitor asks
in controlled mode is answered in any way. PushUpdate leaves out delta mode, which writes a buffer
nobody has filled to a node named like the image; a condition wait that fails; and a kill
of the client, which UpdateClient has. PushUpdate's reads of an image are full until its
end, as DU Link is taken to do: a shorter one would end the image (`driveupdate.c:980`). In RemoteContentProvider the run-level node
and reads of length 0 are left out; so are a file that changes on the remote server, a 206 with other bytes than the ones asked
for, a HEAD without the file's length (a size of -1, which `DULINK_CB_SIZE` refuses before a client copies), a failing
`malloc`, and the path too long for `exportFileCB`, which returns with the mutex locked but is beyond DU Link's path limit. In DuCli, progress output and the syntax of options are wording, what a
refused payload leaves in its partition is DU Server's, and a second signal inside the handler is not modelled.
The order in which two writers of `requested_rl` notify `current_rl` (`setInstallerCurrentRl` compares outside
the mutex), what the version comparison returns, fsync on the commit, and the NUL that `strlcpy`
cuts off when a writer does not count it are left to a later module or decided by DU Link.
`ffu_update` is one straight-line procedure on libmnand without state of its own.
In ContentServer the run-level node, the
text `status` prints, and the five seconds after which the signal thread kills a
server that does not react are left out. The Python port mirrors the C programs over stubs and is not modelled. It differs from them
in the locking and the exit code named in section 6, in that a command that fails to parse leaves the fields of the earlier one alone, that
`clear_error` really deletes the staged file, that an empty source is an error, and in the numbers
of its run levels (BG_APPLY is 3 there and 4 in `utils.h`). The components of section 1 that are not
in section 3 are listed as planned or left out in PROJECT.json, with the reason.
