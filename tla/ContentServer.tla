---------------------------- MODULE ContentServer ----------------------------
(***************************************************************************)
(* The content provider plugin (content_server/content_server.c on top of   *)
(* plugin_common/ducontent_provider_common.c): it exports the files of a    *)
(* package as DU Link nodes and answers reads of them.                      *)
(*                                                                         *)
(* Commands are executed by whoever gives them: the CLI of the main thread, *)
(* or a DU Link thread running cmdCB for a client.  executeCmd holds the    *)
(* mutex, releases it in the middle to announce the new state, and takes it *)
(* again to write down the rest; an action below is one critical section.   *)
(***************************************************************************)
EXTENDS Naturals, SequencesExt

CONSTANTS
  Packages,     \* package directories a command may name
  NoPath,       \* the empty string, in localPath, dupkgPathCached and the store
  Entries,      \* Entries[p]: the node paths of list_of_files.json, in order
  Cli,          \* the main thread
  Writers,      \* DU Link threads that run cmdCB
  Readers,      \* DU Link threads that run exportFileCB
  NotReading,   \* a reader with no request in progress
  Nobody        \* holder of a free mutex

Commanders == {Cli} \union Writers
NodesOf(p) == ToSet(Entries[p])
AllNodes == UNION {NodesOf(p) : p \in Packages}

ASSUME ContentAssumption ==
  /\ NoPath \notin Packages
  /\ \A p \in Packages : Entries[p] \in Seq(STRING)
  /\ Cli \notin Writers /\ Nobody \notin Commanders
  /\ NotReading \notin Packages \union {NoPath}

VARIABLES
  \* CONTENT_SERVER
  state, localPath, dupkgPathCached, bUseContextStore,
  persistCtxPath,   \* whether a context path was written to its node
  bResumePending,
  mutex,            \* who is inside executeCmd with the mutex held
  \* threads
  pc,               \* where each commander is
  arg,              \* the path of the serve it executes; NoPath for a stop
  reading,          \* the directory a reader is going to read from
  \* outside the process
  nodes,            \* nodes exported below /content/files
  ctxStore,         \* what the context store holds; survives a crash
  \* history: the package the last completed command left served; a command was
  \* given while another was between two critical sections or the server was
  \* starting; an export or unlink has failed; the store was last written by a
  \* completed command
  served, overlapped, trouble, synced

ctxNode  == <<persistCtxPath, bResumePending>>
threads  == <<pc, arg>>
history  == <<served, overlapped, trouble, synced>>
vars     == <<state, localPath, dupkgPathCached, bUseContextStore, ctxNode, mutex,
              threads, reading, nodes, ctxStore, history>>

Init ==
  /\ state = "INIT" /\ localPath = NoPath /\ dupkgPathCached = NoPath
  /\ bUseContextStore = FALSE /\ persistCtxPath = FALSE /\ bResumePending = FALSE
  /\ mutex = Nobody
  /\ pc = [t \in Commanders |-> IF t = Cli THEN "open" ELSE "ready"]
  /\ arg = [t \in Commanders |-> NoPath]
  /\ reading = [r \in Readers |-> NotReading]
  /\ nodes = {} /\ ctxStore = NoPath
  /\ served = NoPath /\ overlapped = FALSE /\ trouble = FALSE /\ synced = FALSE

\* Killed, or ended by quit, and started again: what was exported is gone, the
\* context store stays.
Restart ==
  /\ state' = "INIT" /\ localPath' = NoPath /\ dupkgPathCached' = NoPath
  /\ bUseContextStore' = FALSE /\ persistCtxPath' = FALSE /\ bResumePending' = FALSE
  /\ mutex' = Nobody
  /\ pc' = [t \in Commanders |-> IF t = Cli THEN "open" ELSE "ready"]
  /\ arg' = [t \in Commanders |-> NoPath]
  /\ reading' = [r \in Readers |-> NotReading]
  /\ nodes' = {}
  /\ served' = NoPath /\ overlapped' = FALSE /\ trouble' = FALSE /\ synced' = FALSE
  /\ UNCHANGED ctxStore

-----------------------------------------------------------------------------
(* Start-up: contentServerInit *)

Serving == pc[Cli] \notin {"open", "exited"}
Starting == pc[Cli] \in {"open", "register", "setIdle"}
Inside(t) == pc[t] \in {"announce", "finish"}

Goto(t, place) == pc' = [pc EXCEPT ![t] = place]

\* dulinkOpen: from here on callbacks run.  Any step of the start may fail, and
\* ends the process.
Open ==
  /\ pc[Cli] = "open"
  /\ \/ Goto(Cli, "register") \/ Goto(Cli, "exited")
  /\ UNCHANGED <<state, localPath, dupkgPathCached, bUseContextStore, ctxNode,
                 mutex, arg, reading, nodes, ctxStore, history>>

\* contentPersistCtxCBPlugin: taken once, unless it was empty, and not while a
\* package is served.
PersistCtxCB(nonEmpty) ==
  /\ Serving /\ mutex = Nobody
  /\ ~persistCtxPath /\ state # "CONFIGURED"
  /\ persistCtxPath' = nonEmpty
  /\ bResumePending' = TRUE
  /\ UNCHANGED <<state, localPath, dupkgPathCached, bUseContextStore,
                 mutex, threads, reading, nodes, ctxStore, history>>

\* registerToMaster, then waitForContextStore: at most five waits of one second.
\* A path that comes later is kept and never looked at.
WaitForContextStore ==
  /\ pc[Cli] = "register" /\ mutex = Nobody
  /\ bUseContextStore' = (bResumePending /\ persistCtxPath)
  /\ bResumePending' = FALSE
  /\ Goto(Cli, "setIdle")
  /\ UNCHANGED <<state, localPath, dupkgPathCached, persistCtxPath, mutex,
                 arg, reading, nodes, ctxStore, history>>

\* contentProviderSetState(IDLE), whatever a client has done meanwhile.
InitSetIdle ==
  /\ pc[Cli] = "setIdle" /\ mutex = Nobody
  /\ state' = "IDLE"
  /\ Goto(Cli, "mode")
  /\ UNCHANGED <<localPath, dupkgPathCached, bUseContextStore, ctxNode, mutex, 
                 arg, reading, nodes, ctxStore, history>>

-----------------------------------------------------------------------------
(* The context store *)

\* Variant with a bug: the bytes read are not terminated.
LoadedGarbage(path) == "garbage"

\* loadDupkgPathFromCtxStore terminates what dulinkRead returned.
Loaded(path) == path

\* saveDupkgPathToCtxStore(path), also what clearing comes to; a failed write
\* is the end of using the store.
SaveToStore(path) ==
  \/ /\ bUseContextStore
     /\ ctxStore' = path
     /\ UNCHANGED bUseContextStore
  \/ bUseContextStore' = FALSE /\ UNCHANGED ctxStore

-----------------------------------------------------------------------------
(* executeCmd, up to where it gives the mutex back *)

NoteOverlap(t) ==
  overlapped' = (overlapped \/ Starting \/ \E u \in Commanders \ {t} : Inside(u))

\* serveFolder exports the entries in order; it stops at the first that fails
\* and leaves the ones before it exported.
ExportSome(p, k) == nodes' = nodes \union ToSet(SubSeq(Entries[p], 1, k))

\* Variant with a bug: the unlock is forgotten, as in python_src/content_server.
MutexKept(t) == t

\* The mutex is given back before the new state is announced.
MutexAfter(t) == Nobody

\* A serve that is refused because a package is being served, or that fails.
ServeFails(t, p, then) ==
  /\ pc' = [pc EXCEPT ![t] = then]
  /\ \/ state = "CONFIGURED" /\ UNCHANGED <<nodes, trouble>>
     \/ /\ state # "CONFIGURED"
        /\ \E k \in 0..Len(Entries[p]) : ExportSome(p, k)
        /\ trouble' = TRUE
  /\ UNCHANGED <<mutex, arg>>

\* Variant with a bug: a serve while another package is served is let through.
ServeExportsAlways(t, p) ==
  /\ ExportSome(p, Len(Entries[p]))
  /\ Goto(t, "announce")
  /\ arg' = [arg EXCEPT ![t] = p]
  /\ mutex' = MutexAfter(t)
  /\ UNCHANGED trouble

\* A serve that exports everything.
ServeExports(t, p) ==
  /\ state # "CONFIGURED"
  /\ ExportSome(p, Len(Entries[p]))
  /\ Goto(t, "announce")
  /\ arg' = [arg EXCEPT ![t] = p]
  /\ mutex' = MutexAfter(t)
  /\ UNCHANGED trouble

ExecuteServe(t, p, then) ==
  /\ NoteOverlap(t)
  /\ ServeExports(t, p) \/ ServeFails(t, p, then)
  /\ UNCHANGED <<state, localPath, served, synced>>

\* stopServe walks the list backwards.  It ignores entries it cannot unlink,
\* except that the last one it comes to, the first of the list, decides the
\* result.  `left` are the entries whose unlink fails.
Unlink(p, left) == nodes' = nodes \ (NodesOf(p) \ left)
UnlinkedFirst(p, left) == Entries[p][1] \in nodes \ left

\* The list of an empty package is walked from index 0U - 1U, and the file list of
\* an empty localPath is looked for in the root directory: both fail.
StopFails(t) ==
  /\ \/ UNCHANGED <<nodes, trouble>> /\ (state # "CONFIGURED" \/ localPath = NoPath)
     \/ /\ state = "CONFIGURED" /\ localPath # NoPath
        /\ \/ UNCHANGED nodes
           \/ /\ Entries[localPath] # <<>>
              /\ \E left \in SUBSET NodesOf(localPath) :
                   ~UnlinkedFirst(localPath, left) /\ Unlink(localPath, left)
        /\ trouble' = TRUE
  /\ UNCHANGED <<mutex, pc, arg>>

StopUnlinks(t) ==
  /\ state = "CONFIGURED" /\ localPath # NoPath
  /\ Entries[localPath] # <<>>
  /\ \E left \in SUBSET NodesOf(localPath) :
       /\ UnlinkedFirst(localPath, left)
       /\ Unlink(localPath, left)
       /\ trouble' = (trouble \/ left # {})
  /\ Goto(t, "announce")
  /\ arg' = [arg EXCEPT ![t] = NoPath]
  /\ mutex' = MutexAfter(t)

ExecuteStop(t) ==
  /\ NoteOverlap(t)
  /\ StopUnlinks(t) \/ StopFails(t)
  /\ UNCHANGED <<state, localPath, served, synced>>

-----------------------------------------------------------------------------
(* executeCmd, the rest *)

\* contentProviderSetState, a critical section of its own.
Announce(t) ==
  /\ pc[t] = "announce" /\ mutex = Nobody
  /\ state' = IF arg[t] # NoPath THEN "CONFIGURED" ELSE "IDLE"
  /\ Goto(t, "finish")
  /\ UNCHANGED <<localPath, dupkgPathCached, bUseContextStore, ctxNode, mutex, 
                 arg, reading, nodes, ctxStore, history>>

\* Variant with a bug: the old path is saved, before the new one is written down.
FinishSavesFirst(t) ==
  /\ pc[t] = "finish" /\ mutex = Nobody
  /\ localPath' = arg[t]
  /\ SaveToStore(localPath)
  /\ served' = localPath' /\ synced' = TRUE
  /\ Goto(t, "ready") /\ arg' = [arg EXCEPT ![t] = NoPath]
  /\ UNCHANGED <<state, dupkgPathCached, ctxNode, mutex, reading, nodes,
                 overlapped, trouble>>

\* Variant with a bug: stop does not reset localPath.
FinishKeepsPath(t) ==
  /\ pc[t] = "finish" /\ mutex = Nobody
  /\ localPath' = IF arg[t] # NoPath THEN arg[t] ELSE localPath
  /\ SaveToStore(localPath')
  /\ served' = arg[t]
  /\ synced' = TRUE
  /\ Goto(t, "ready") /\ arg' = [arg EXCEPT ![t] = NoPath]
  /\ UNCHANGED <<state, dupkgPathCached, ctxNode, mutex, reading, nodes,
                 overlapped, trouble>>

\* localPath, the context store, and the return.  After a stop the empty localPath
\* is what is saved.
Finish(t) ==
  /\ pc[t] = "finish" /\ mutex = Nobody
  /\ localPath' = arg[t]
  /\ SaveToStore(localPath')
  /\ served' = localPath' /\ synced' = TRUE
  /\ Goto(t, "ready") /\ arg' = [arg EXCEPT ![t] = NoPath]
  /\ UNCHANGED <<state, dupkgPathCached, ctxNode, mutex, reading, nodes,
                 overlapped, trouble>>

-----------------------------------------------------------------------------
(* Who gives commands *)

\* cmdCB, DULINK_CB_WRITE of a well-formed command.
CmdCB(t) ==
  /\ Serving /\ mutex = Nobody
  /\ pc[t] = "ready"
  /\ ExecuteStop(t) \/ \E p \in Packages : ExecuteServe(t, p, "ready")
  /\ UNCHANGED <<dupkgPathCached, bUseContextStore, ctxNode, reading, ctxStore>>

\* run_CLI or, to clear the store, run: what the command line asks for, which nothing
\* looks at before.  --clear also ends the process.
ModeIdle ==
  /\ Goto(Cli, "ready")
  /\ UNCHANGED <<state, localPath, dupkgPathCached, bUseContextStore, mutex, arg,
                 nodes, ctxStore, history>>
ModeClear ==
  /\ Goto(Cli, "exited")
  /\ SaveToStore(NoPath) /\ synced' = FALSE
  /\ UNCHANGED <<state, localPath, dupkgPathCached, mutex, arg, nodes, served,
                 overlapped, trouble>>
ModeNew(p) ==
  /\ dupkgPathCached' = p
  /\ ExecuteServe(Cli, p, "ready")
  /\ UNCHANGED <<bUseContextStore, ctxStore>>
ModeRestore ==
  \/ /\ bUseContextStore /\ ctxStore # NoPath
     /\ dupkgPathCached' = Loaded(ctxStore)
     /\ ExecuteServe(Cli, ctxStore, "ready")
     /\ UNCHANGED <<bUseContextStore, ctxStore>>
  \/ /\ \/ bUseContextStore /\ bUseContextStore' = FALSE
        \/ (bUseContextStore => ctxStore = NoPath) /\ UNCHANGED bUseContextStore
     /\ Goto(Cli, "ready")
     /\ UNCHANGED <<state, localPath, dupkgPathCached, mutex, arg, nodes, ctxStore,
                    history>>

RunMode ==
  /\ pc[Cli] = "mode" /\ mutex = Nobody
  /\ ModeIdle \/ ModeClear \/ ModeRestore \/ \E p \in Packages : ModeNew(p)
  /\ UNCHANGED <<ctxNode, reading>>

Prompt == pc[Cli] = "ready" /\ mutex = Nobody

\* cli_Serve with a path; without one, the cached path is used, or else the one in
\* the context store, which becomes the cached one.
CliServe ==
  /\ Prompt
  /\ \/ \E p \in Packages \union ({dupkgPathCached} \ {NoPath}) :
          /\ ExecuteServe(Cli, p, "ready")
          /\ UNCHANGED <<dupkgPathCached, bUseContextStore>>
     \/ /\ dupkgPathCached = NoPath /\ bUseContextStore /\ ctxStore # NoPath
        /\ dupkgPathCached' = Loaded(ctxStore)
        /\ ExecuteServe(Cli, ctxStore, "ready")
        /\ UNCHANGED bUseContextStore
     \/ /\ dupkgPathCached = NoPath /\ bUseContextStore
        /\ bUseContextStore' = FALSE
        /\ UNCHANGED <<state, localPath, dupkgPathCached, mutex, threads, nodes,
                       history>>
  /\ UNCHANGED <<ctxNode, reading, ctxStore>>

CliStop ==
  /\ Prompt
  /\ ExecuteStop(Cli)
  /\ UNCHANGED <<dupkgPathCached, bUseContextStore, ctxNode, reading, ctxStore>>

\* cli_Set, cli_Save and cli_Clear.
CliSet ==
  /\ Prompt
  /\ dupkgPathCached' \in Packages \union {NoPath}
  /\ UNCHANGED <<state, localPath, bUseContextStore, ctxNode, mutex, threads,
                 reading, nodes, ctxStore, history>>

CliSave ==
  /\ Prompt
  /\ \E p \in Packages \union {NoPath} : SaveToStore(p)
  /\ synced' = FALSE
  /\ UNCHANGED <<state, localPath, dupkgPathCached, ctxNode, mutex, threads, reading,
                 nodes, served, overlapped, trouble>>

CliClear ==
  /\ Prompt
  /\ dupkgPathCached' = NoPath
  /\ SaveToStore(NoPath)
  /\ synced' = FALSE
  /\ UNCHANGED <<state, localPath, ctxNode, mutex, threads, reading, nodes, served,
                 overlapped, trouble>>

\* quit, and the signal thread waking the CLI: cleanUp closes the connection.
CliQuit ==
  /\ Prompt
  /\ Goto(Cli, "exited")
  /\ UNCHANGED <<state, localPath, dupkgPathCached, bUseContextStore, ctxNode,
                 mutex, arg, reading, nodes, ctxStore, history>>

-----------------------------------------------------------------------------
(* exportFileCB *)

\* Under the mutex: is a package served, and where is it?
ReadBegin(r) ==
  /\ Serving /\ mutex = Nobody
  /\ reading[r] = NotReading
  /\ nodes # {}
  /\ state = "CONFIGURED"
  /\ reading' = [reading EXCEPT ![r] = localPath]
  /\ UNCHANGED <<state, localPath, dupkgPathCached, bUseContextStore, ctxNode,
                 mutex, threads, nodes, ctxStore, history>>

\* The file itself is read without it.
ReadEnd(r) ==
  /\ Serving
  /\ reading[r] # NotReading
  /\ reading' = [reading EXCEPT ![r] = NotReading]
  /\ UNCHANGED <<state, localPath, dupkgPathCached, bUseContextStore, ctxNode,
                 mutex, threads, nodes, ctxStore, history>>

-----------------------------------------------------------------------------

\* Once the process has exited its other threads are gone.
ThreadStep(t) == Serving /\ (Announce(t) \/ Finish(t))

StartStep == Open \/ WaitForContextStore \/ InitSetIdle \/ RunMode

CliStep == CliServe \/ CliStop \/ CliSet \/ CliSave \/ CliClear \/ CliQuit

Next ==
  \/ StartStep
  \/ CliStep
  \/ \E t \in Writers : CmdCB(t)
  \/ \E t \in Commanders : ThreadStep(t)
  \/ \E nonEmpty \in BOOLEAN : PersistCtxCB(nonEmpty)
  \/ \E r \in Readers : ReadBegin(r) \/ ReadEnd(r)
  \/ Restart

Spec == Init /\ [][Next]_vars

\* A thread inside executeCmd keeps running.  Nobody has to give a command.
FairSpec == Spec /\ \A t \in Commanders : WF_vars(ThreadStep(t))

-----------------------------------------------------------------------------
(* Properties *)

ContentTypeOK ==
  /\ state \in {"INIT", "IDLE", "CONFIGURED"}
  /\ localPath \in Packages \union {NoPath}
  /\ dupkgPathCached \in Packages \union {NoPath}
  /\ bUseContextStore \in BOOLEAN /\ persistCtxPath \in BOOLEAN
  /\ bResumePending \in BOOLEAN
  /\ mutex \in Commanders \union {Nobody}
  /\ pc \in [Commanders -> {"open", "register", "setIdle", "mode", "ready",
                            "announce", "finish", "exited"}]
  /\ arg \in [Commanders -> Packages \union {NoPath}]
  /\ reading \in [Readers -> Packages \union {NoPath, NotReading}]
  /\ nodes \subseteq AllNodes
  /\ ctxStore \in Packages \union {NoPath}
  /\ served \in Packages \union {NoPath}
  /\ overlapped \in BOOLEAN /\ trouble \in BOOLEAN /\ synced \in BOOLEAN

\* Nobody is inside executeCmd or the start-up, and no two commands overlapped.
Orderly == ~overlapped /\ ~Starting /\ \A t \in Commanders : ~Inside(t)

\* The state agrees with the commands that completed and with localPath, so that
\* what is served can be read and stopped: the three critical sections of
\* executeCmd only ever let commands get between them that overlap.
ServingAsCommanded ==
  Orderly => /\ localPath = served
             /\ state = "CONFIGURED" <=> served # NoPath

\* While no export or unlink fails, DU Link shows exactly the files of the package
\* that is served, and none when there is none.
ExportsExactlyServed ==
  Orderly /\ ~trouble => nodes = IF served = NoPath THEN {} ELSE NodesOf(served)

\* A context store that is in use holds what is served now, so that a server that
\* is killed and started with --resume serves the same package again.
ContextFollowsServed == Orderly /\ synced /\ bUseContextStore => ctxStore = served

\* Whoever gives a command gets an answer, unless the process ends first: executeCmd
\* never waits for a lock its own thread holds.  (content_server.py says of its set_state call: "Release
\* lock while changing state (mirrors C unlock/lock pattern)".)
CommandReturns == \A t \in Commanders : Inside(t) ~> (~Inside(t) \/ ~Serving)

-----------------------------------------------------------------------------
(* What the documentation says and the code does not do *)

\* README.md: content_server "Responds to read requests from DU Master by
\* streaming the local file contents over DU Link".  A read is answered from the
\* package that is announced as served, not from the root directory.
ReadsFromPackage == \A r \in Readers : reading[r] # NoPath

=============================================================================
