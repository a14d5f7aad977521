------------------------ MODULE RemoteContentProvider ------------------------
(***************************************************************************)
(* The content provider that serves a package from a URL                    *)
(* (remote_content_provider/remote_content_provider.c).                      *)
(*                                                                         *)
(* A command over DU Link runs from its test to its last assignment with    *)
(* the mutex held, remote transfers included.  The serve of the command      *)
(* line runs on the main thread, after DU Link was opened, without it.  A    *)
(* read takes the mutex to test the state and to compute the URL, then       *)
(* fetches without it; failed transfers are counted in totalRetry, which     *)
(* nothing protects.  The remote server may fail any transfer, and one that  *)
(* does not set Accept-Ranges: bytes may answer with the whole file when      *)
(* asked for a part of it.                                                   *)
(***************************************************************************)
EXTENDS Naturals, SequencesExt

CONSTANTS
  Packages,             \* the URLs of packages
  NoPath,               \* the empty localPath
  Entries,              \* the file list of each package, a sequence of nodes
  Size,                 \* the size of the file that clients copy, per package
  AcceptRanges,         \* the packages on servers that set Accept-Ranges: bytes
  Chunk,                \* the bytes a client asks for at a time, and has room for
  DULINK_RETRY_NUMBER,  \* how many failed transfers are answered with "retry"
  Main,                 \* the main thread
  Writers,              \* DU Link threads that execute commands
  Readers,              \* clients that copy the file, each with its DU Link thread
  Sizers,               \* clients that ask for its size, likewise
  Nobody                \* holds the mutex when it is free

Commanders == {Main} \union Writers
Clients == Readers \union Sizers

ASSUME RemoteAssumption ==
  /\ NoPath \notin Packages
  /\ Entries \in [Packages -> Seq(STRING)]
  /\ Size \in [Packages -> Nat] /\ AcceptRanges \subseteq Packages
  /\ Chunk \in Nat \ {0} /\ DULINK_RETRY_NUMBER \in Nat
  /\ Main \notin Writers /\ Nobody \notin Commanders
  /\ IsFiniteSet(Clients) /\ Readers \intersect Sizers = {}

VARIABLES
  state, localPath, mutex, totalRetry,
  nodes,       \* the entries exported below /content/files
  pc,          \* where each commander is inside executeCmd
  arg,         \* the package its command is about
  rd,          \* each client: where its read is
  trouble      \* history: two commands ran at once, or one ended before the start-up
               \* did, or an entry that is exported could not be unlinked

server   == <<state, localPath, mutex, nodes>>
commands == <<pc, arg>>
vars     == <<server, totalRetry, commands, rd, trouble>>

NodesOf(p) == {Entries[p][i] : i \in 1..Len(Entries[p])}

NoRange == [first |-> 0, last |-> 0]

\* A client that copies nothing: chunk is the answer of the remote server, got what
\* the client has copied, both byte by byte.
NotReading ==
  [pc |-> "idle", off |-> 0, url |-> NoPath, range |-> NoRange, chunk |-> <<>>,
   got |-> <<>>, seen |-> 0, moved |-> FALSE]

Init ==
  /\ state = "INIT" /\ localPath = NoPath /\ mutex = Nobody /\ nodes = {}
  /\ totalRetry = 0
  /\ pc = [t \in Commanders |-> IF t = Main THEN "open" ELSE "ready"]
  /\ arg = [t \in Commanders |-> NoPath]
  /\ rd = [r \in Clients |-> NotReading]
  /\ trouble = FALSE

\* Callbacks run from dulinkOpen on.
Live == pc[Main] # "open"
Inside(t) == pc[t] \notin {"open", "setIdle", "mode", "ready"}

Goto(t, place) == pc' = [pc EXCEPT ![t] = place]

\* The copies that are under way have seen the served package change.
Moved ==
  rd' = [r \in Clients |->
           IF r \in Sizers \/ rd[r].pc = "idle" THEN rd[r]
           ELSE [rd[r] EXCEPT !.moved = TRUE, !.got = <<>>]]

-----------------------------------------------------------------------------
(* The process *)

\* contentServerInit up to dulinkOpen, and the rest.  A start that fails is Restart.
Open ==
  /\ pc[Main] = "open"
  /\ Goto(Main, "setIdle")
  /\ UNCHANGED <<server, totalRetry, arg, rd, trouble>>

\* STATE_IDLE, whatever a client has done since dulinkOpen.
InitSetIdle ==
  /\ pc[Main] = "setIdle" /\ mutex = Nobody
  /\ state' = "IDLE"
  /\ trouble' = (trouble \/ state = "CONFIGURED")
  /\ Goto(Main, "mode") /\ Moved
  /\ UNCHANGED <<localPath, mutex, nodes, totalRetry, arg>>

\* Killed, SIGINT or SIGTERM, or a start that failed, and started again.
Restart ==
  /\ Live
  /\ state' = "INIT" /\ localPath' = NoPath /\ mutex' = Nobody /\ nodes' = {}
  /\ totalRetry' = 0
  /\ pc' = [t \in Commanders |-> IF t = Main THEN "open" ELSE "ready"]
  /\ arg' = [t \in Commanders |-> NoPath]
  /\ rd' = [r \in Clients |-> NotReading]
  /\ trouble' = FALSE

-----------------------------------------------------------------------------
(* executeCmd *)

\* What is refused, a serve while something is served and a stop while nothing is,
\* changes nothing.
ExecuteServe(t, p) ==
  /\ state # "CONFIGURED"
  /\ Goto(t, "serve") /\ arg' = [arg EXCEPT ![t] = p]
  /\ trouble' = (trouble \/ \E u \in Commanders \ {t} : Inside(u))

ExecuteStop(t) ==
  /\ state = "CONFIGURED"
  /\ Goto(t, "stop") /\ arg' = [arg EXCEPT ![t] = localPath]
  /\ trouble' = (trouble \/ \E u \in Commanders \ {t} : Inside(u))

\* executeCmd returns, and cmdCB gives the mutex back.
Return(t) ==
  /\ Goto(t, "ready") /\ arg' = [arg EXCEPT ![t] = NoPath]
  /\ mutex' = IF mutex = t THEN Nobody ELSE mutex

\* The command line names a URL, or it does not.
RunMode ==
  /\ pc[Main] = "mode"
  /\ \/ Goto(Main, "ready") /\ UNCHANGED <<arg, trouble>>
     \/ \E p \in Packages : ExecuteServe(Main, p)
  /\ UNCHANGED <<server, totalRetry, rd>>

\* cmdCB, DULINK_CB_WRITE of a well-formed command.
CmdCB(t) ==
  /\ Live /\ mutex = Nobody /\ pc[t] = "ready"
  /\ mutex' = t
  /\ ExecuteStop(t) \/ \E p \in Packages : ExecuteServe(t, p)
  /\ UNCHANGED <<state, localPath, nodes, totalRetry, rd>>

\* serveFolder loads the list, looks for each remote file and exports its entry;
\* then contentServerSetState(CONFIGURED), which notifies, and last localPath.
ServeFolder(t) ==
  /\ pc[t] = "serve"
  /\ nodes' = nodes \union NodesOf(arg[t])
  /\ state' = "CONFIGURED"
  /\ Goto(t, "path") /\ Moved
  /\ UNCHANGED <<localPath, mutex, totalRetry, arg, trouble>>

SetLocalPath(t) ==
  /\ pc[t] = "path"
  /\ localPath' = arg[t]
  /\ Return(t) /\ Moved
  /\ UNCHANGED <<state, nodes, totalRetry, trouble>>

\* Variant with a bug: what is exported already is left.
ServeFailsNoUndo(t) ==
  /\ pc[t] = "serve"
  /\ \E k \in 0..Len(Entries[arg[t]]) :
       /\ k = 0 \/ k < Len(Entries[arg[t]])
       /\ nodes' = nodes \union ToSet(SubSeq(Entries[arg[t]], 1, k))
  /\ Return(t)
  /\ UNCHANGED <<state, localPath, totalRetry, rd, trouble>>

\* serveFolder fails at the list or at an entry, and leaves the entries before it.
ServeFails(t) ==
  /\ pc[t] = "serve"
  /\ \E k \in 0..Len(Entries[arg[t]]) :
       /\ k = 0 \/ k < Len(Entries[arg[t]])
       /\ nodes' = nodes \union ToSet(SubSeq(Entries[arg[t]], 1, k))
  /\ Goto(t, "undo")
  /\ UNCHANGED <<state, localPath, mutex, totalRetry, arg, rd, trouble>>

\* stopServe: all entries but those in left are unlinked, and all of them are left
\* when the list cannot be loaded.
StopServe(p, left) ==
  /\ nodes' = nodes \ (NodesOf(p) \ left)
  /\ trouble' = (trouble \/ left \intersect nodes # {})

\* Only the last entry decides the result.  An empty list fails, for its loop
\* runs from 0 to 0U - 1U.
UnlinkedLast(p, left) ==
  /\ Entries[p] # <<>>
  /\ Entries[p][Len(Entries[p])] \in nodes \ left

\* The clean-up of a serve that failed, well or not.
CleanUpServe(t) ==
  /\ pc[t] = "undo"
  /\ \E left \in SUBSET NodesOf(arg[t]) : StopServe(arg[t], left)
  /\ Return(t)
  /\ UNCHANGED <<state, localPath, totalRetry, rd>>

\* STATE_IDLE, and the path is cleared.
StopUnlinks(t) ==
  /\ pc[t] = "stop" /\ arg[t] # NoPath
  /\ \E left \in SUBSET NodesOf(arg[t]) :
       UnlinkedLast(arg[t], left) /\ StopServe(arg[t], left)
  /\ state' = "IDLE" /\ localPath' = NoPath
  /\ Return(t) /\ Moved
  /\ UNCHANGED totalRetry

\* The remote server does not give the list, which leaves everything as it was, or
\* the last entry cannot be unlinked; of an empty localPath there is no list.
StopFails(t) ==
  /\ pc[t] = "stop"
  /\ \/ UNCHANGED <<nodes, trouble>>
     \/ /\ arg[t] # NoPath
        /\ \E left \in SUBSET NodesOf(arg[t]) :
             ~UnlinkedLast(arg[t], left) /\ StopServe(arg[t], left)
  /\ Return(t)
  /\ UNCHANGED <<state, localPath, totalRetry, rd>>

-----------------------------------------------------------------------------
(* exportFileCB, and the clients that call it *)

Reads(r, c) ==
  /\ rd' = [rd EXCEPT ![r] = c]
  /\ UNCHANGED <<server, commands, trouble>>

\* A client opens a file it sees.
Copy(r) ==
  /\ Live /\ nodes # {} /\ rd[r].pc \in {"idle", "done"}
  /\ Reads(r, [NotReading EXCEPT !.pc = "ask"])
  /\ UNCHANGED totalRetry

\* Under the mutex: is a package served, and where?
Admit(r) ==
  /\ rd[r].pc = "ask" /\ mutex = Nobody
  /\ IF state = "CONFIGURED"
     THEN Reads(r, [rd[r] EXCEPT !.pc = "head", !.url = localPath])
     ELSE Reads(r, NotReading)
  /\ UNCHANGED totalRetry

\* Variant with a bug: the counter is not tested.
TransferFailsUntested(r) ==
  /\ rd[r].pc \in {"head", "get"}
  /\ Reads(r, [rd[r] EXCEPT !.pc = "count", !.url = NoPath, !.range = NoRange])
  /\ UNCHANGED totalRetry

\* A transfer fails.  What comes back is "retry" until too many have failed, and an
\* error from then on, or at once when libcurl cannot be set up.
TransferFails(r) ==
  /\ rd[r].pc \in {"head", "get"}
  /\ \/ /\ totalRetry < DULINK_RETRY_NUMBER
        /\ Reads(r, [rd[r] EXCEPT !.pc = "count", !.url = NoPath, !.range = NoRange])
     \/ Reads(r, NotReading)
  /\ UNCHANGED totalRetry

\* totalRetry++ loads the counter ...
LoadRetry(r) ==
  /\ rd[r].pc = "count"
  /\ Reads(r, [rd[r] EXCEPT !.pc = "store", !.seen = totalRetry])
  /\ UNCHANGED totalRetry

\* Variant with a bug: the counter is tested, and nothing is added to it.
StoreRetryNot(r) ==
  /\ rd[r].pc = "store"
  /\ UNCHANGED totalRetry
  /\ Reads(r, [rd[r] EXCEPT !.pc = "ask", !.seen = 0])

\* ... and stores it.  dulinkReadRetry sleeps and asks again.
StoreRetry(r) ==
  /\ rd[r].pc = "store"
  /\ totalRetry' = rd[r].seen + 1
  /\ Reads(r, [rd[r] EXCEPT !.pc = "ask", !.seen = 0])

\* Variant with a bug: HTTP ranges taken for half-open.
RangeOneTooLong(offset, blockSize, fileSize) ==
  [first |-> offset, last |-> IF offset + blockSize < fileSize THEN offset + blockSize
                              ELSE fileSize - 1]

\* constructRange: "first-last", or "first-" when the end of the file is near.
ConstructRange(offset, blockSize, fileSize) ==
  [first |-> offset, last |-> IF offset + blockSize < fileSize THEN offset + blockSize - 1
                              ELSE fileSize - 1]

\* getRemoteFileSize, when the server answers with the file's size.
RemoteFileSize(url) == Size[url]

\* DULINK_CB_SIZE.
AnswerSize(r) ==
  /\ r \in Sizers
  /\ rd[r].pc = "head" /\ rd[r].url # NoPath
  /\ Reads(r, NotReading)
  /\ UNCHANGED totalRetry

\* Variant with a bug: a piece that reaches beyond the end of the file is taken for the
\* end.
AnswerHeadEarlyEOF(r) ==
  /\ r \in Readers
  /\ rd[r].pc = "head" /\ rd[r].url # NoPath
  /\ LET fileSize == RemoteFileSize(rd[r].url) IN
     Reads(r, IF rd[r].off + Chunk > fileSize
              THEN [rd[r] EXCEPT !.pc = "done", !.url = NoPath]
              ELSE [rd[r] EXCEPT !.pc = "get",
                                 !.range = ConstructRange(rd[r].off, Chunk, fileSize)])
  /\ UNCHANGED totalRetry

\* The size, for DULINK_CB_READ: at the end of the file nothing is read, and the
\* client is done.
AnswerHead(r) ==
  /\ r \in Readers
  /\ rd[r].pc = "head" /\ rd[r].url # NoPath
  /\ LET fileSize == RemoteFileSize(rd[r].url) IN
     Reads(r, IF rd[r].off >= fileSize
              THEN [rd[r] EXCEPT !.pc = "done", !.url = NoPath]
              ELSE [rd[r] EXCEPT !.pc = "get",
                                 !.range = ConstructRange(rd[r].off, Chunk, fileSize)])
  /\ UNCHANGED totalRetry

\* n bytes of a file, from first on.
FileBytes(url, first, n) == [i \in 1..n |-> <<url, first + i - 1>>]

\* HTTP_PARTIAL_CONTENT with the bytes asked for, or HTTP_OK with the whole file from
\* a server that ignores the range; exportFileCB takes either.
Answers(url, range) ==
  {FileBytes(url, range.first, range.last - range.first + 1)}
    \union (IF url \in AcceptRanges THEN {} ELSE {FileBytes(url, 0, Size[url])})

\* The transfer: whatever comes is collected in chunk, ...
AnswerGet(r) ==
  /\ rd[r].pc = "get"
  /\ \E answer \in Answers(rd[r].url, rd[r].range) :
       Reads(r, [rd[r] EXCEPT !.pc = "copy", !.range = NoRange, !.chunk = answer])
  /\ UNCHANGED totalRetry

\* ... and all of it goes to the client, which asks for the bytes after them.  What is
\* longer than the buffer overruns it: the process goes on as here, or dies (Restart).
CopyAnswer(r) ==
  /\ rd[r].pc = "copy"
  /\ Reads(r, [rd[r] EXCEPT
       !.pc = "ask", !.off = @ + Len(rd[r].chunk), !.url = NoPath, !.chunk = <<>>,
       !.got = IF rd[r].moved THEN <<>> ELSE rd[r].got \o rd[r].chunk])
  /\ UNCHANGED totalRetry

-----------------------------------------------------------------------------

CommandStep(t) ==
  \/ ServeFolder(t) \/ SetLocalPath(t) \/ ServeFails(t) \/ CleanUpServe(t)
  \/ StopUnlinks(t) \/ StopFails(t)

ReadStep(r) ==
  \/ TransferFails(r) \/ LoadRetry(r) \/ StoreRetry(r)
  \/ AnswerSize(r) \/ AnswerHead(r) \/ AnswerGet(r) \/ CopyAnswer(r)

Next ==
  \/ Open \/ InitSetIdle \/ RunMode \/ Restart
  \/ \E t \in Writers : CmdCB(t)
  \/ \E t \in Commanders : CommandStep(t)
  \/ \E r \in Clients : Copy(r) \/ Admit(r) \/ ReadStep(r)

Spec == Init /\ [][Next]_vars

\* Threads run on, and who asks for the mutex gets it in the end, even if commands
\* keep coming.  Nobody has to give a command, to begin a copy or to ask for a size, who
\* asks for one may stay anywhere, and the remote server may fail for ever.
FairSpec ==
  /\ Spec
  /\ \A t \in Commanders : WF_vars(CommandStep(t))
  /\ \A r \in Readers : WF_vars(ReadStep(r)) /\ SF_vars(Admit(r))

-----------------------------------------------------------------------------
(* Properties *)

\* Two clients that fail at once, and overwrite each other's counts, exceed the limit of
\* the counter by one at most.  (Three can exceed it by more: one that stores an old
\* count makes room for another to pass the test while the third holds a high one.)
RemoteTypeOK ==
  /\ state \in {"INIT", "IDLE", "CONFIGURED"}
  /\ localPath \in Packages \union {NoPath}
  /\ mutex \in Writers \union {Nobody}
  /\ nodes \subseteq UNION {NodesOf(p) : p \in Packages}
  /\ totalRetry \in Nat
  /\ Cardinality(Clients) <= 2 => totalRetry <= DULINK_RETRY_NUMBER + 1
  /\ pc \in [Commanders -> {"open", "setIdle", "mode", "ready", "serve",
                            "path", "undo", "stop"}]
  /\ arg \in [Commanders -> Packages \union {NoPath}]
  /\ \A r \in Clients :
       /\ rd[r].pc \in {"idle", "ask", "head", "get", "copy", "count", "store", "done"}
       /\ rd[r].url \in Packages \union {NoPath}
       /\ {rd[r].off, rd[r].seen} \subseteq Nat /\ rd[r].moved \in BOOLEAN
  /\ trouble \in BOOLEAN

\* Between commands DU Link shows exactly the files of the package whose URL
\* reads are directed to, and none when none is served: a serve that fails anywhere
\* cleans up what it has exported, a stop that cannot load the list leaves all in
\* place.  (Excused: two commands at once, which the serve of the command line makes
\* possible, and a node that could not be unlinked.)
ExportsExactlyServed ==
  ~trouble /\ (\A t \in Commanders : ~Inside(t)) =>
    IF state = "CONFIGURED"
    THEN localPath \in Packages /\ nodes = NodesOf(localPath)
    ELSE localPath = NoPath /\ nodes = {}

\* The answer to a read is what was asked for: the server keeps to ranges, as README.txt
\* demands of it, or the file is no longer than what is asked for anyway.
AsAsked(p) == p \in AcceptRanges \/ Size[p] <= Chunk

\* A client that copies a file in pieces, each fetched without the mutex and
\* retried any number of times, has all its bytes in their order when it is done, from
\* the package that is served, if no command changed that meanwhile.  exportFileCB
\* accepts the whole file for a part of it, so this takes a server that keeps to ranges,
\* or a file that fits in the buffer.
CopyIsWhole ==
  \A r \in Clients :
    rd[r].pc = "done" /\ ~rd[r].moved /\ AsAsked(localPath) =>
      rd[r].got = FileBytes(localPath, 0, Size[localPath])

\* exportFileCB copies the answer into the client's buffer without a look at its
\* length.  It fits, also after the package was changed, as long as the server
\* keeps to ranges or the file fits anyway: constructRange never asks for too much.
AnswersFit ==
  \A r \in Clients :
    rd[r].pc = "copy" /\ AsAsked(rd[r].url) => Len(rd[r].chunk) <= Chunk

\* A copy comes to an end, whatever the remote server does: the answer "retry" is
\* given finitely often, although the threads that count it overwrite each other's
\* counts, and no command keeps the mutex for good.
ReadAnswered ==
  \A r \in Readers : rd[r].pc = "ask" ~> rd[r].pc \in {"idle", "done"}

=============================================================================
