---------------------- MODULE RemoteContentProviderProofs ----------------------
(***************************************************************************)
(* What the remote content provider exports, where reads are directed and    *)
(* what a client gets, for all packages, files and numbers of threads: the    *)
(* inductive invariants behind the properties of RemoteContentProvider, and   *)
(* their proofs.                                                            *)
(***************************************************************************)
EXTENDS RemoteContentProvider, SequenceTheorems, FiniteSetTheorems, TLAPS

-----------------------------------------------------------------------------
(* The inductive invariants *)

\* A command of a client holds the mutex from its beginning to its end, and a serve
\* knows its package.
CommandsOK ==
  /\ \A t \in Writers : pc[t] \in {"ready", "serve", "path", "undo", "stop"}
  /\ \A t \in Writers : Inside(t) => mutex = t
  /\ mutex \in Writers => Inside(mutex)
  /\ \A t \in Commanders : pc[t] \in {"serve", "path", "undo"} => arg[t] \in Packages

\* What is exported and where reads go when no command is under way, ...
Settled ==
  IF state = "CONFIGURED"
  THEN localPath \in Packages /\ nodes = NodesOf(localPath)
  ELSE localPath = NoPath /\ nodes = {}

\* ... and while the command of t is.
Midway(t) ==
  /\ pc[t] = "serve" => state # "CONFIGURED" /\ Settled
  /\ pc[t] = "path" =>
       state = "CONFIGURED" /\ localPath = NoPath /\ nodes = NodesOf(arg[t])
  /\ pc[t] = "undo" =>
       state # "CONFIGURED" /\ localPath = NoPath /\ nodes \subseteq NodesOf(arg[t])
  /\ pc[t] = "stop" => state = "CONFIGURED" /\ Settled /\ arg[t] = localPath

\* Commands come one after the other, and each leaves things settled, unless the serve
\* of the command line ran beside one or a node could not be unlinked.
ExportsOK ==
  ~trouble =>
    /\ \A t, u \in Commanders : Inside(t) /\ Inside(u) => t = u
    /\ \A t \in Commanders : Inside(t) => Midway(t)
    /\ (\A t \in Commanders : ~Inside(t)) => Settled

ReadPlaces == {"idle", "ask", "head", "get", "copy", "count", "store", "done"}
Bytes == (Packages \union {NoPath}) \X Nat
Content == Seq(Bytes)
Ranges == [first : Nat, last : Nat]
ReadType ==
  [pc : ReadPlaces, off : Nat, url : Packages \union {NoPath},
   range : Ranges, chunk : Content, got : Content, seen : Nat,
   moved : BOOLEAN]

\* A copy c that has not seen the served package change is directed to that package, and
\* has all its bytes up to its offset if it is answered as it asked: from a server that
\* keeps to ranges, or at once.
CopyOK(c) ==
  ~c.moved =>
    /\ c.pc \in {"head", "get", "copy"} => c.url = localPath
    /\ c.off > 0 => localPath \in Packages
    /\ c.off > 0 /\ AsAsked(localPath) => c.off <= Size[localPath]
    /\ c.off > 0 /\ Size[localPath] <= Chunk => c.off >= Size[localPath]
    /\ AsAsked(localPath) => c.got = FileBytes(localPath, 0, c.off)
    /\ c.pc = "done" => localPath \in Packages /\ c.off >= Size[localPath]

\* What is asked for is a piece of the file, and what comes is that piece, or the whole
\* file from a server that ignores the range.
Asked(c) ==
  /\ c.url \in Packages /\ c.off < Size[c.url]
  /\ c.range = ConstructRange(c.off, Chunk, Size[c.url])

Answered(c) ==
  /\ c.url \in Packages /\ c.off < Size[c.url]
  /\ c.chunk \in Answers(c.url, ConstructRange(c.off, Chunk, Size[c.url]))

\* One that asks for the size only never gets as far.
ReadOK(r, c) ==
  /\ c.pc = "get" => Asked(c)
  /\ c.pc = "copy" => Answered(c)
  /\ r \in Readers /\ c.pc # "idle" => CopyOK(c)
  /\ r \in Sizers => c.pc \in {"idle", "ask", "head", "count", "store"}

ReadsOK ==
  /\ rd \in [Clients -> ReadType]
  /\ \A r \in Clients : ReadOK(r, rd[r])

\* Who counts a failure: between the test of totalRetry and the store, ...
Counting(r) == rd[r].pc \in {"count", "store"}

\* ... if there are two clients at most: a count that has reached the limit is only
\* loaded or held by a client while the other is not counting.
RetryOK ==
  /\ totalRetry <= DULINK_RETRY_NUMBER + 1
  /\ \A r \in Clients :
       /\ rd[r].pc = "count" =>
            /\ totalRetry <= DULINK_RETRY_NUMBER
            /\ totalRetry = DULINK_RETRY_NUMBER =>
                 \A s \in Clients \ {r} : ~Counting(s)
       /\ rd[r].pc = "store" =>
            /\ rd[r].seen <= DULINK_RETRY_NUMBER
            /\ rd[r].seen = DULINK_RETRY_NUMBER =>
                 totalRetry >= DULINK_RETRY_NUMBER /\ \A s \in Clients \ {r} : ~Counting(s)

ServerTypeOK ==
  /\ state \in {"INIT", "IDLE", "CONFIGURED"}
  /\ localPath \in Packages \union {NoPath}
  /\ mutex \in Writers \union {Nobody}
  /\ nodes \subseteq UNION {NodesOf(p) : p \in Packages}
  /\ totalRetry \in Nat
  /\ pc \in [Commanders -> {"open", "setIdle", "mode", "ready", "serve",
                            "path", "undo", "stop"}]
  /\ arg \in [Commanders -> Packages \union {NoPath}]
  /\ trouble \in BOOLEAN

RemoteInv ==
  /\ ServerTypeOK
  /\ CommandsOK
  /\ ExportsOK
  /\ ReadsOK
  /\ Cardinality(Clients) <= 2 => RetryOK

-----------------------------------------------------------------------------
(* The operators *)

\* The nodes of a list are those at its places, and a part of it from the beginning
\* has no others.
LEMMA PrefixNodes ==
  ASSUME NEW p \in Packages, NEW k \in 0..Len(Entries[p])
  PROVE  ToSet(SubSeq(Entries[p], 1, k)) \subseteq NodesOf(p)
<1>1. Entries[p] \in Seq(STRING)
  BY RemoteAssumption
<1>2. \A i \in 1..k : Entries[p][i] \in NodesOf(p)
  BY <1>1 DEF NodesOf
<1>3. k \in Int /\ SubSeq(Entries[p], 1, k) \in Seq(NodesOf(p))
  BY <1>1, <1>2, SubSeqProperties
<1> QED BY <1>3 DEF ToSet

\* The last entry of a list that is not empty is one of the package's nodes.
LEMMA LastNode ==
  ASSUME NEW p \in Packages, Entries[p] # <<>>
  PROVE  Entries[p][Len(Entries[p])] \in NodesOf(p)
<1>1. Entries[p] \in Seq(STRING)
  BY RemoteAssumption
<1>2. Len(Entries[p]) \in 1..Len(Entries[p])
  BY <1>1
<1> QED BY <1>2 DEF NodesOf

\* A package without entries has no nodes.
LEMMA NoNodes ==
  ASSUME NEW p \in Packages, Entries[p] = <<>>
  PROVE  NodesOf(p) = {}
BY DEF NodesOf

\* constructRange asks for at least one byte of what is left, and for no more than the
\* buffer takes; for all of the file when that is no longer than the buffer.
LEMMA RangeSize ==
  ASSUME NEW off \in Nat, NEW size \in Nat, off < size
  PROVE  LET rg == ConstructRange(off, Chunk, size)
             n  == rg.last - rg.first + 1
         IN  /\ rg \in Ranges
             /\ rg.first = off /\ n \in 1..Chunk
             /\ off + n <= size
             /\ size <= Chunk => off + n = size
<1>1. Chunk \in Nat /\ Chunk > 0
  BY RemoteAssumption
<1>2. CASE off + Chunk < size
  BY <1>1, <1>2 DEF ConstructRange, Ranges
<1>3. CASE ~(off + Chunk < size)
  BY <1>1, <1>3 DEF ConstructRange, Ranges
<1> QED BY <1>2, <1>3

\* FileBytes is a sequence of as many bytes as it is asked for, ...
LEMMA FileBytesType ==
  ASSUME NEW url \in Packages \union {NoPath}, NEW first \in Nat, NEW n \in Nat
  PROVE  /\ FileBytes(url, first, n) \in Seq(Bytes)
         /\ Len(FileBytes(url, first, n)) = n
         /\ \A i \in 1..n : FileBytes(url, first, n)[i] = <<url, first + i - 1>>
<1>1. \A i \in 1..n : <<url, first + i - 1>> \in Bytes
  BY DEF Bytes
<1> QED BY <1>1 DEF FileBytes

\* ... and a piece of a file continues the piece that ends where it begins.
LEMMA FileBytesConcat ==
  ASSUME NEW url \in Packages \union {NoPath}, NEW off \in Nat, NEW n \in Nat
  PROVE  FileBytes(url, 0, off) \o FileBytes(url, off, n) = FileBytes(url, 0, off + n)
<1> DEFINE s == FileBytes(url, 0, off)
           u == FileBytes(url, off, n)
           v == FileBytes(url, 0, off + n)
<1>1. /\ s \in Seq(Bytes) /\ Len(s) = off
      /\ \A i \in 1..off : s[i] = <<url, 0 + i - 1>>
  BY FileBytesType, 0 \in Nat, Zenon
<1>2. /\ u \in Seq(Bytes) /\ Len(u) = n
      /\ \A i \in 1..n : u[i] = <<url, off + i - 1>>
  BY FileBytesType
<1>3. /\ v \in Seq(Bytes) /\ Len(v) = off + n
      /\ \A i \in 1..(off + n) : v[i] = <<url, 0 + i - 1>>
  BY FileBytesType, 0 \in Nat, off + n \in Nat, Zenon
<1> HIDE DEF s, u, v
<1>4. /\ s \o u \in Seq(Bytes) /\ Len(s \o u) = off + n
      /\ \A i \in 1..(off + n) : (s \o u)[i] = IF i <= off THEN s[i] ELSE u[i - off]
  BY <1>1, <1>2, ConcatProperties
<1>5. ASSUME NEW i \in 1..(off + n) PROVE (s \o u)[i] = v[i]
  <2>1. CASE i <= off
    <3>1. i \in 1..off
      BY <2>1
    <3>2. (s \o u)[i] = s[i]
      BY <1>4, <2>1
    <3> QED BY <1>1, <1>3, <3>1, <3>2
  <2>2. CASE ~(i <= off)
    <3>1. i - off \in 1..n /\ off + (i - off) - 1 = 0 + i - 1
      BY <2>2
    <3>2. u[i - off] = <<url, off + (i - off) - 1>>
      BY <1>2, <3>1
    <3> QED BY <1>3, <1>4, <2>2, <3>1, <3>2
  <2> QED BY <2>1, <2>2
<1>6. s \o u = v
  BY <1>3, <1>4, <1>5, SeqEqual
<1> QED BY <1>6 DEF s, u, v

\* Nothing is content, and no range is one.
LEMMA NothingType ==
  /\ <<>> \in Content /\ NoRange \in Ranges
  /\ NotReading \in ReadType
  /\ NotReading.pc = "idle" /\ NotReading.off = 0 /\ NotReading.got = <<>>
<1>1. <<>> \in Content
  BY DEF Content
<1>2. NoRange \in Ranges
  BY DEF NoRange, Ranges
<1> QED BY <1>1, <1>2 DEF NotReading, ReadType, ReadPlaces

\* No bytes of any file.
LEMMA EmptyFile ==
  ASSUME NEW url, NEW first
  PROVE  FileBytes(url, first, 0) = <<>>
BY DEF FileBytes

\* The length of a piece of a file.
LEMMA FileBytesLen ==
  \A url \in Packages, first \in Nat, n \in Nat : Len(FileBytes(url, first, n)) = n
BY FileBytesType, Zenon

\* What comes back for a range.
LEMMA AnswerCases ==
  ASSUME NEW url \in Packages, NEW off \in Nat, off < Size[url],
         NEW answer \in Answers(url, ConstructRange(off, Chunk, Size[url]))
  PROVE  \/ \E n \in 1..Chunk :
              /\ answer = FileBytes(url, off, n) /\ off + n <= Size[url]
              /\ Size[url] <= Chunk => off + n = Size[url]
         \/ url \notin AcceptRanges /\ answer = FileBytes(url, 0, Size[url])
<1> DEFINE rg == ConstructRange(off, Chunk, Size[url])
           n  == rg.last - rg.first + 1
<1>1. /\ rg.first = off /\ n \in 1..Chunk /\ off + n <= Size[url]
      /\ Size[url] <= Chunk => off + n = Size[url]
  BY RangeSize, RemoteAssumption
<1>2. \/ answer = FileBytes(url, rg.first, n)
      \/ url \notin AcceptRanges /\ answer = FileBytes(url, 0, Size[url])
  BY DEF Answers
<1> HIDE DEF rg, n
<1>3. CASE answer = FileBytes(url, rg.first, n)
  BY <1>1, <1>3
<1> QED BY <1>2, <1>3

\* An answer is a sequence of bytes.
LEMMA AnswerType ==
  ASSUME NEW url \in Packages, NEW off \in Nat, off < Size[url],
         NEW answer \in Answers(url, ConstructRange(off, Chunk, Size[url]))
  PROVE  answer \in Content /\ Len(answer) \in Nat
<1>1. Chunk \in Nat /\ Size[url] \in Nat
  BY RemoteAssumption
<1>2. CASE answer = FileBytes(url, 0, Size[url])
  <2>1. /\ FileBytes(url, 0, Size[url]) \in Content
        /\ Len(FileBytes(url, 0, Size[url])) = Size[url]
    BY <1>1, 0 \in Nat, FileBytesType, Zenon DEF Content
  <2> QED BY <1>1, <1>2, <2>1
<1>3. ASSUME NEW n \in 1..Chunk, answer = FileBytes(url, off, n)
      PROVE  answer \in Content /\ Len(answer) \in Nat
  <2>1. n \in Nat
    BY <1>1
  <2>2. FileBytes(url, off, n) \in Content /\ Len(FileBytes(url, off, n)) = n
    BY <2>1, FileBytesType, Zenon DEF Content
  <2> QED BY <1>3, <2>1, <2>2
<1> QED BY <1>2, <1>3, AnswerCases

\* Of three clients two are the same, if there are two at most.
LEMMA TwoClients ==
  ASSUME Cardinality(Clients) <= 2, NEW q \in Clients, NEW r \in Clients, NEW s \in Clients,
         q # r, q # s
  PROVE  r = s
<1> SUFFICES ASSUME r # s PROVE FALSE
  OBVIOUS
<1>1. IsFiniteSet({q}) /\ Cardinality({q}) = 1
  BY FS_Singleton
<1>2. IsFiniteSet({q} \union {r}) /\ Cardinality({q} \union {r}) = 2
  BY <1>1, FS_AddElement
<1>3. Cardinality({q} \union {r} \union {s}) = 3
  BY <1>2, FS_AddElement
<1>4. Cardinality({q} \union {r} \union {s}) <= Cardinality(Clients)
  BY FS_Subset, RemoteAssumption
<1>5. Cardinality(Clients) \in Nat
  BY FS_CardinalityType, RemoteAssumption
<1> QED BY <1>3, <1>4, <1>5

-----------------------------------------------------------------------------
(* What a step leaves alone *)

\* Whatever does not touch the server and its commands keeps what is said of them.
LEMMA QuietServer ==
  ASSUME ServerTypeOK, CommandsOK, ExportsOK,
         UNCHANGED <<server, commands, trouble>>, totalRetry' \in Nat
  PROVE  ServerTypeOK' /\ CommandsOK' /\ ExportsOK'
<1> USE DEF server, commands
<1>1. ServerTypeOK'
  BY DEF ServerTypeOK
<1>2. CommandsOK'
  BY DEF CommandsOK, Inside
<1>3. ExportsOK'
  BY DEF ExportsOK, Inside, Midway, Settled
<1> QED BY <1>1, <1>2, <1>3

\* Reads that go nowhere keep what is said of them, as long as localPath stays.
LEMMA QuietReads ==
  ASSUME RemoteInv, UNCHANGED <<rd, totalRetry, localPath>>
  PROVE  ReadsOK' /\ (Cardinality(Clients) <= 2 => RetryOK')
<1>1. ReadsOK'
  BY DEF RemoteInv, ReadsOK, ReadOK, CopyOK
<1>2. ASSUME Cardinality(Clients) <= 2 PROVE RetryOK'
  BY <1>2 DEF RemoteInv, RetryOK, Counting
<1> QED BY <1>1, <1>2

\* Copies that have seen the served package change are excused from saying what they
\* hold, and stay where they are.
LEMMA MovedReads ==
  ASSUME RemoteInv, Moved, UNCHANGED totalRetry
  PROVE  ReadsOK' /\ (Cardinality(Clients) <= 2 => RetryOK')
<1>1. rd \in [Clients -> ReadType] /\ \A r \in Clients : ReadOK(r, rd[r])
  BY DEF RemoteInv, ReadsOK
<1>2. ASSUME NEW r \in Clients
      PROVE  /\ rd'[r] \in ReadType /\ ReadOK(r, rd[r])'
             /\ rd'[r].pc = rd[r].pc /\ rd'[r].seen = rd[r].seen
  <2>0. rd[r] \in ReadType /\ ReadOK(r, rd[r])
    BY <1>1
  <2>1. CASE r \in Sizers \/ rd[r].pc = "idle"
    <3>1. rd'[r] = rd[r]
      BY <2>1 DEF Moved
    <3>2. ReadOK(r, rd[r])'
      BY <2>0, <2>1, <3>1, RemoteAssumption DEF ReadOK, CopyOK
    <3> QED BY <2>0, <3>1, <3>2
  <2>2. CASE ~(r \in Sizers \/ rd[r].pc = "idle")
    <3>1. rd'[r] = [rd[r] EXCEPT !.moved = TRUE, !.got = <<>>]
      BY <2>2 DEF Moved
    <3>2. /\ rd'[r] \in ReadType
          /\ rd'[r].pc = rd[r].pc /\ rd'[r].seen = rd[r].seen
          /\ rd'[r].off = rd[r].off /\ rd'[r].url = rd[r].url
          /\ rd'[r].range = rd[r].range /\ rd'[r].chunk = rd[r].chunk /\ rd'[r].moved
      BY <2>0, <3>1, NothingType DEF ReadType
    <3>3. ReadOK(r, rd[r])'
      BY <2>0, <2>2, <3>2 DEF ReadOK, CopyOK, Asked, Answered
    <3> QED BY <3>2, <3>3
  <2> QED BY <2>1, <2>2
<1>3. rd' \in [Clients -> ReadType]
  <2>1. rd' = [r \in Clients |-> rd'[r]]
    BY DEF Moved
  <2> QED BY <1>2, <2>1
<1>4. ReadsOK'
  BY <1>2, <1>3 DEF ReadsOK
<1>5. ASSUME Cardinality(Clients) <= 2 PROVE RetryOK'
  BY <1>2, <1>5 DEF RemoteInv, RetryOK, Counting
<1> QED BY <1>4, <1>5

\* One read goes on.
LEMMA OneRead ==
  ASSUME ReadsOK, NEW r \in Clients, NEW c \in ReadType, ReadOK(r, c),
         rd' = [rd EXCEPT ![r] = c], UNCHANGED localPath
  PROVE  ReadsOK'
<1>1. rd' \in [Clients -> ReadType]
  BY DEF ReadsOK
<1>2. ASSUME NEW s \in Clients PROVE ReadOK(s, rd[s])'
  <2>1. rd'[s] = IF s = r THEN c ELSE rd[s]
    BY DEF ReadsOK
  <2>2. ReadOK(s, rd[s])
    BY DEF ReadsOK
  <2> QED BY <2>1, <2>2 DEF ReadOK, CopyOK
<1> QED BY <1>1, <1>2 DEF ReadsOK

\* A step that neither begins nor goes on with a count, and leaves the counter alone.
LEMMA OneReadRetry ==
  ASSUME RemoteInv, NEW r \in Clients, NEW c \in ReadType,
         rd' = [rd EXCEPT ![r] = c], c.pc \notin {"count", "store"}, UNCHANGED totalRetry,
         Cardinality(Clients) <= 2
  PROVE  RetryOK'
<1>1. rd \in [Clients -> ReadType]
  BY DEF RemoteInv, ReadsOK
<1>2. \A s \in Clients : rd'[s] = IF s = r THEN c ELSE rd[s]
  BY <1>1
<1> QED BY <1>2 DEF RemoteInv, RetryOK, Counting

-----------------------------------------------------------------------------
(* The commands *)

\* A command that nobody refuses begins: of a client, with the mutex, or of the command
\* line, without.
LEMMA CommandBegins ==
  ASSUME ServerTypeOK, CommandsOK, ExportsOK,
         NEW t \in Commanders, pc[t] \in {"mode", "ready"},
         ExecuteStop(t) \/ \E p \in Packages : ExecuteServe(t, p),
         \/ t = Main /\ mutex' = mutex
         \/ t \in Writers /\ mutex = Nobody /\ mutex' = t,
         UNCHANGED <<state, localPath, nodes, totalRetry>>
  PROVE  ServerTypeOK' /\ CommandsOK' /\ ExportsOK'
<1>1. PICK place \in {"serve", "stop"}, p \in Packages \union {NoPath} :
        /\ pc' = [pc EXCEPT ![t] = place]
        /\ arg' = [arg EXCEPT ![t] = p]
        /\ trouble' = (trouble \/ \E u \in Commanders \ {t} : Inside(u))
        /\ place = "serve" => p \in Packages /\ state # "CONFIGURED"
        /\ place = "stop" => p = localPath /\ state = "CONFIGURED"
  <2>1. CASE ExecuteStop(t)
    BY <2>1 DEF ExecuteStop, Goto, ServerTypeOK
  <2>2. CASE \E p \in Packages : ExecuteServe(t, p)
    BY <2>2 DEF ExecuteServe, Goto
  <2> QED BY <2>1, <2>2
<1>2. /\ pc \in [Commanders -> {"open", "setIdle", "mode", "ready", "serve",
                                "path", "undo", "stop"}]
      /\ arg \in [Commanders -> Packages \union {NoPath}]
  BY DEF ServerTypeOK
<1>3. \A u \in Commanders : /\ pc'[u] = IF u = t THEN place ELSE pc[u]
                            /\ arg'[u] = IF u = t THEN p ELSE arg[u]
  BY <1>1, <1>2
<1>4. ServerTypeOK'
  <2>1. trouble' \in BOOLEAN
    BY <1>1
  <2>2. /\ pc' \in [Commanders -> {"open", "setIdle", "mode", "ready", "serve",
                                "path", "undo", "stop"}]
        /\ arg' \in [Commanders -> Packages \union {NoPath}]
    BY <1>1, <1>2
  <2>3. mutex' \in Writers \union {Nobody}
    BY DEF ServerTypeOK
  <2> QED BY <2>1, <2>2, <2>3 DEF ServerTypeOK
<1>5. CommandsOK'
  <2>1. Main \in Commanders /\ Nobody \notin Writers /\ Main \notin Writers
    BY RemoteAssumption DEF Commanders
  <2>2. Writers \subseteq Commanders
    BY DEF Commanders
  <2> QED BY <1>1, <1>3, <2>1, <2>2 DEF CommandsOK, Inside
<1>6. ASSUME ~trouble'
      PROVE  /\ \A u, v \in Commanders : Inside(u)' /\ Inside(v)' => u = v
             /\ \A u \in Commanders : Inside(u)' => Midway(u)'
             /\ (\A u \in Commanders : ~Inside(u)') => Settled'
  <2>1. ~trouble /\ \A u \in Commanders \ {t} : ~Inside(u)
    BY <1>1, <1>6
  <2>2. ~Inside(t)
    BY DEF Inside
  <2>3. Settled
    BY <2>1, <2>2 DEF ExportsOK
  <2>4. \A u \in Commanders : Inside(u)' <=> u = t
    BY <1>3, <2>1 DEF Inside
  <2>5. Settled'
    BY <2>3 DEF Settled
  <2>6. Midway(t)'
    BY <1>1, <1>3, <2>5 DEF Midway
  <2> QED BY <2>4, <2>5, <2>6
<1>7. ExportsOK'
  BY <1>6 DEF ExportsOK
<1> QED BY <1>4, <1>5, <1>7

\* A command goes on to its last assignment or to its clean-up.
LEMMA CommandGoesOn ==
  ASSUME ServerTypeOK, CommandsOK, ExportsOK,
         NEW t \in Commanders, pc[t] = "serve", NEW place \in {"path", "undo"},
         Goto(t, place), UNCHANGED <<localPath, mutex, arg, totalRetry, trouble>>,
         state' \in {state, "CONFIGURED"},
         nodes' \subseteq nodes \union NodesOf(arg[t]),
         ~trouble => Midway(t)'
  PROVE  ServerTypeOK' /\ CommandsOK' /\ ExportsOK'
<1>1. /\ pc \in [Commanders -> {"open", "setIdle", "mode", "ready", "serve",
                                "path", "undo", "stop"}]
      /\ arg[t] \in Packages
  BY DEF ServerTypeOK, CommandsOK
<1>2. \A u \in Commanders : pc'[u] = IF u = t THEN place ELSE pc[u]
  BY <1>1 DEF Goto
<1>3. ServerTypeOK'
  <2>1. pc' \in [Commanders -> {"open", "setIdle", "mode", "ready", "serve",
                                "path", "undo", "stop"}]
    BY <1>1 DEF Goto
  <2>2. nodes' \subseteq UNION {NodesOf(p) : p \in Packages}
    BY <1>1 DEF ServerTypeOK
  <2>3. state' \in {"INIT", "IDLE", "CONFIGURED"}
    BY DEF ServerTypeOK
  <2> QED BY <2>1, <2>2, <2>3 DEF ServerTypeOK
<1>4. Writers \subseteq Commanders
  BY DEF Commanders
<1>5. CommandsOK'
  BY <1>2, <1>4 DEF CommandsOK, Inside
<1>6. ExportsOK'
  <2>1. \A u \in Commanders : Inside(u)' <=> Inside(u)
    BY <1>2 DEF Inside
  <2>2. Inside(t)
    BY DEF Inside
  <2> QED BY <2>1, <2>2 DEF ExportsOK
<1> QED BY <1>3, <1>5, <1>6

\* A command ends: it gives the mutex back and leaves things settled.
LEMMA CommandEnds ==
  ASSUME ServerTypeOK, CommandsOK, ExportsOK,
         NEW t \in Commanders, Inside(t), Return(t),
         state' \in {state, "IDLE"}, localPath' \in Packages \union {NoPath},
         nodes' \subseteq nodes, totalRetry' = totalRetry,
         trouble' \in BOOLEAN, ~trouble' => ~trouble /\ Settled'
  PROVE  ServerTypeOK' /\ CommandsOK' /\ ExportsOK'
<1>1. /\ pc \in [Commanders -> {"open", "setIdle", "mode", "ready", "serve",
                                "path", "undo", "stop"}]
      /\ arg \in [Commanders -> Packages \union {NoPath}]
  BY DEF ServerTypeOK
<1>2. \A u \in Commanders : /\ pc'[u] = IF u = t THEN "ready" ELSE pc[u]
                            /\ arg'[u] = IF u = t THEN NoPath ELSE arg[u]
  BY <1>1 DEF Return, Goto
<1>3. ServerTypeOK'
  <2>1. /\ pc' \in [Commanders -> {"open", "setIdle", "mode", "ready", "serve",
                                "path", "undo", "stop"}]
        /\ arg' \in [Commanders -> Packages \union {NoPath}]
    BY <1>1 DEF Return, Goto
  <2>2. mutex' \in Writers \union {Nobody}
    BY DEF ServerTypeOK, Return
  <2>3. state' \in {"INIT", "IDLE", "CONFIGURED"}
    BY DEF ServerTypeOK
  <2> QED BY <2>1, <2>2, <2>3 DEF ServerTypeOK
<1>4. CommandsOK'
  <2>1. Main \in Commanders /\ Nobody \notin Writers /\ Main \notin Writers
    BY RemoteAssumption DEF Commanders
  <2>2. Writers \subseteq Commanders
    BY DEF Commanders
  <2>3. mutex' = IF mutex = t THEN Nobody ELSE mutex
    BY DEF Return
  <2> QED BY <1>2, <2>1, <2>2, <2>3 DEF CommandsOK, Inside
<1>5. ExportsOK'
  <2> SUFFICES ASSUME ~trouble'
               PROVE  /\ \A u, v \in Commanders : Inside(u)' /\ Inside(v)' => u = v
                      /\ \A u \in Commanders : Inside(u)' => Midway(u)'
                      /\ (\A u \in Commanders : ~Inside(u)') => Settled'
    BY DEF ExportsOK
  <2>1. ~trouble /\ Settled'
    OBVIOUS
  <2>2. \A u \in Commanders : Inside(u) => u = t
    BY <2>1 DEF ExportsOK
  <2>3. \A u \in Commanders : ~Inside(u)'
    BY <1>2, <2>2 DEF Inside
  <2> QED BY <2>1, <2>3
<1> QED BY <1>3, <1>4, <1>5

-----------------------------------------------------------------------------
(* The actions *)

\* A process that starts has nothing exported, and nobody reads.
LEMMA InitInv == Init => RemoteInv
<1> SUFFICES ASSUME Init PROVE RemoteInv
  OBVIOUS
<1> USE DEF Init
<1>1. ServerTypeOK
  BY DEF ServerTypeOK
<1>2. \A t \in Commanders : ~Inside(t)
  BY DEF Inside
<1>3. CommandsOK
  <2>1. Main \notin Writers /\ Nobody \notin Writers /\ Writers \subseteq Commanders
    BY RemoteAssumption DEF Commanders
  <2>2. \A t \in Writers : pc[t] = "ready"
    BY <2>1
  <2>3. \A t \in Commanders : pc[t] \in {"open", "ready"}
    OBVIOUS
  <2> QED BY <1>2, <2>1, <2>2, <2>3 DEF CommandsOK
<1>4. ExportsOK
  BY <1>2 DEF ExportsOK, Settled
<1>5. ReadsOK
  <2>1. NotReading \in ReadType
    BY NothingType
  <2>2. \A r \in Clients : rd[r] = NotReading
    OBVIOUS
  <2>3. \A r \in Clients : ReadOK(r, NotReading)
    BY DEF ReadOK, NotReading
  <2>4. rd \in [Clients -> ReadType]
    BY <2>1
  <2> QED BY <2>2, <2>3, <2>4 DEF ReadsOK
<1>6. RetryOK
  <2>1. \A r \in Clients : rd[r].pc = "idle"
    BY DEF NotReading
  <2>2. DULINK_RETRY_NUMBER \in Nat
    BY RemoteAssumption
  <2> QED BY <2>1, <2>2 DEF RetryOK
<1> QED BY <1>1, <1>3, <1>4, <1>5, <1>6 DEF RemoteInv

\* The start-up.
LEMMA StartInv ==
  ASSUME RemoteInv, Open \/ InitSetIdle
  PROVE  RemoteInv'
<1>1. ServerTypeOK /\ CommandsOK /\ ExportsOK
  BY DEF RemoteInv
<1>2. Main \in Commanders /\ Main \notin Writers /\ Nobody \notin Writers
      /\ Writers \subseteq Commanders
  BY RemoteAssumption DEF Commanders
<1>3. pc \in [Commanders -> {"open", "setIdle", "mode", "ready", "serve",
                              "path", "undo", "stop"}]
  BY <1>1 DEF ServerTypeOK
<1>4. CASE Open
  <2>1. \A u \in Commanders : pc'[u] = IF u = Main THEN "setIdle" ELSE pc[u]
    BY <1>3, <1>4 DEF Open, Goto
  <2>2. \A u \in Commanders : Inside(u)' <=> Inside(u)
    BY <1>4, <2>1 DEF Open, Inside
  <2>3. pc' \in [Commanders -> {"open", "setIdle", "mode", "ready", "serve",
                                "path", "undo", "stop"}]
    BY <1>3, <1>4 DEF Open, Goto
  <2>4. UNCHANGED <<state, localPath, mutex, nodes, totalRetry, arg, rd, trouble>>
    BY <1>4 DEF Open, server
  <2>5. ServerTypeOK'
    BY <1>1, <2>3, <2>4 DEF ServerTypeOK
  <2>6. CommandsOK'
    BY <1>1, <1>2, <2>1, <2>2, <2>4 DEF CommandsOK
  <2>7. \A u \in Commanders : Inside(u)' /\ Midway(u) => Midway(u)'
    BY <2>1, <2>4 DEF Inside, Midway, Settled
  <2>8. ExportsOK'
    BY <1>1, <2>2, <2>4, <2>7 DEF ExportsOK, Settled
  <2> QED BY <2>4, <2>5, <2>6, <2>8, QuietReads DEF RemoteInv
<1>5. CASE InitSetIdle
  <2>1. \A u \in Commanders : pc'[u] = IF u = Main THEN "mode" ELSE pc[u]
    BY <1>3, <1>5 DEF InitSetIdle, Goto
  <2>2. /\ mutex = Nobody /\ state' = "IDLE" /\ pc[Main] = "setIdle" /\ Moved
        /\ trouble' = (trouble \/ state = "CONFIGURED")
        /\ UNCHANGED <<localPath, mutex, nodes, totalRetry, arg>>
    BY <1>5 DEF InitSetIdle
  <2>3. \A u \in Commanders : ~Inside(u)
    BY <1>1, <1>2, <2>2 DEF CommandsOK, Inside, Commanders
  <2>4. \A u \in Commanders : ~Inside(u)'
    BY <2>1, <2>3 DEF Inside
  <2>5. pc' \in [Commanders -> {"open", "setIdle", "mode", "ready", "serve",
                                "path", "undo", "stop"}]
    BY <1>3, <1>5 DEF InitSetIdle, Goto
  <2>6. trouble' \in BOOLEAN
    BY <2>2
  <2>7. ServerTypeOK'
    BY <1>1, <2>2, <2>5, <2>6 DEF ServerTypeOK
  <2>8. CommandsOK'
    BY <1>1, <1>2, <2>1, <2>2, <2>4 DEF CommandsOK
  <2>9. ExportsOK'
    <3>1. ASSUME ~trouble' PROVE Settled'
      <4>1. ~trouble /\ state # "CONFIGURED" /\ Settled
        BY <1>1, <2>2, <2>3, <3>1 DEF ExportsOK
      <4> QED BY <2>2, <4>1 DEF Settled
    <3> QED BY <2>4, <3>1 DEF ExportsOK
  <2> QED BY <2>2, <2>7, <2>8, <2>9, MovedReads DEF RemoteInv
<1> QED BY <1>4, <1>5

\* The command line's command and the clients'.
LEMMA BeginInv ==
  ASSUME RemoteInv, RunMode \/ \E t \in Writers : CmdCB(t)
  PROVE  RemoteInv'
<1>1. ServerTypeOK /\ CommandsOK /\ ExportsOK
  BY DEF RemoteInv
<1>2. Main \in Commanders /\ Main \notin Writers /\ Nobody \notin Writers
      /\ Writers \subseteq Commanders
  BY RemoteAssumption DEF Commanders
<1>3. UNCHANGED <<state, localPath, nodes, totalRetry, rd>>
  BY DEF RunMode, CmdCB, server
<1>4. CASE RunMode /\ \E p \in Packages : ExecuteServe(Main, p)
  <2>1. /\ pc[Main] \in {"mode", "ready"}
        /\ Main = Main /\ mutex' = mutex
        /\ ExecuteStop(Main) \/ \E p \in Packages : ExecuteServe(Main, p)
    BY <1>4 DEF RunMode, server
  <2>2. ServerTypeOK' /\ CommandsOK' /\ ExportsOK'
    BY <1>1, <1>2, <1>3, <1>4, <2>1, CommandBegins
  <2> QED BY <1>3, <2>2, QuietReads DEF RemoteInv
<1>5. CASE pc[Main] = "mode" /\ Goto(Main, "ready") /\ UNCHANGED <<arg, trouble, mutex>>
  <2>1. pc \in [Commanders -> {"open", "setIdle", "mode", "ready", "serve",
                              "path", "undo", "stop"}]
    BY <1>1 DEF ServerTypeOK
  <2>2. \A u \in Commanders : pc'[u] = IF u = Main THEN "ready" ELSE pc[u]
    BY <2>1, <1>5 DEF Goto
  <2>3. \A u \in Commanders : Inside(u)' <=> Inside(u)
    BY <1>5, <2>2 DEF Inside
  <2>4. pc' \in [Commanders -> {"open", "setIdle", "mode", "ready", "serve",
                                "path", "undo", "stop"}]
    BY <2>1, <1>5 DEF Goto
  <2>5. ServerTypeOK'
    BY <1>1, <1>3, <1>5, <2>4 DEF ServerTypeOK
  <2>6. CommandsOK'
    BY <1>1, <1>2, <1>5, <2>2, <2>3 DEF CommandsOK
  <2>7. \A u \in Commanders : Inside(u)' /\ Midway(u) => Midway(u)'
    BY <1>3, <1>5, <2>2 DEF Inside, Midway, Settled
  <2>8. ExportsOK'
    BY <1>1, <1>3, <1>5, <2>3, <2>7 DEF ExportsOK, Settled
  <2> QED BY <1>3, <2>5, <2>6, <2>8, QuietReads DEF RemoteInv
<1>6. ASSUME NEW t \in Writers, CmdCB(t) PROVE RemoteInv'
  <2>1. /\ pc[t] \in {"mode", "ready"} /\ mutex = Nobody /\ mutex' = t
        /\ ExecuteStop(t) \/ \E p \in Packages : ExecuteServe(t, p)
    BY <1>6 DEF CmdCB
  <2>2. ServerTypeOK' /\ CommandsOK' /\ ExportsOK'
    BY <1>1, <1>2, <1>3, <2>1, CommandBegins
  <2> QED BY <1>3, <2>2, QuietReads DEF RemoteInv
<1> QED BY <1>4, <1>5, <1>6 DEF RunMode, server

\* A serve that succeeds: its entries are exported, and last it sets localPath.
LEMMA ServeInv ==
  ASSUME RemoteInv, NEW t \in Commanders, ServeFolder(t) \/ SetLocalPath(t)
  PROVE  RemoteInv'
<1>1. ServerTypeOK /\ CommandsOK /\ ExportsOK
  BY DEF RemoteInv
<1>2. pc \in [Commanders -> {"open", "setIdle", "mode", "ready", "serve",
                             "path", "undo", "stop"}]
  BY <1>1 DEF ServerTypeOK
<1>3. Inside(t) /\ arg[t] \in Packages /\ Moved /\ UNCHANGED totalRetry
  BY <1>1 DEF ServeFolder, SetLocalPath, Inside, CommandsOK
<1>4. ~trouble => Midway(t)
  BY <1>1, <1>3 DEF ExportsOK
<1>5. CASE ServeFolder(t)
  <2>1. /\ pc[t] = "serve" /\ Goto(t, "path")
        /\ nodes' = nodes \union NodesOf(arg[t]) /\ state' = "CONFIGURED"
        /\ UNCHANGED <<localPath, mutex, arg, totalRetry, trouble>>
    BY <1>5 DEF ServeFolder
  <2>2. pc'[t] = "path"
    BY <1>2, <2>1 DEF Goto
  <2>3. ~trouble => Midway(t)'
    BY <1>4, <2>1, <2>2 DEF Midway, Settled
  <2>4. ServerTypeOK' /\ CommandsOK' /\ ExportsOK'
    BY <1>1, <2>1, <2>3, CommandGoesOn
  <2> QED BY <1>3, <2>4, MovedReads DEF RemoteInv
<1>6. CASE SetLocalPath(t)
  <2>1. /\ pc[t] = "path" /\ Return(t) /\ localPath' = arg[t]
        /\ UNCHANGED <<state, nodes, totalRetry, trouble>>
    BY <1>6 DEF SetLocalPath
  <2>2. ~trouble' => ~trouble /\ Settled'
    BY <1>3, <1>4, <2>1 DEF Midway, Settled
  <2>3. trouble' \in BOOLEAN
    BY <1>1, <2>1 DEF ServerTypeOK
  <2>4. ServerTypeOK' /\ CommandsOK' /\ ExportsOK'
    BY <1>1, <1>3, <2>1, <2>2, <2>3, CommandEnds
  <2> QED BY <1>3, <2>4, MovedReads DEF RemoteInv
<1> QED BY <1>5, <1>6

\* A serve that fails, and its clean-up, which is thorough unless an entry stays.
LEMMA ServeFailsInv ==
  ASSUME RemoteInv, NEW t \in Commanders, ServeFails(t) \/ CleanUpServe(t)
  PROVE  RemoteInv'
<1>1. ServerTypeOK /\ CommandsOK /\ ExportsOK
  BY DEF RemoteInv
<1>2. pc \in [Commanders -> {"open", "setIdle", "mode", "ready", "serve",
                             "path", "undo", "stop"}]
  BY <1>1 DEF ServerTypeOK
<1>3. Inside(t) /\ arg[t] \in Packages /\ UNCHANGED <<rd, localPath, totalRetry>>
  BY <1>1 DEF ServeFails, CleanUpServe, Inside, CommandsOK
<1>4. ~trouble => Midway(t)
  BY <1>1, <1>3 DEF ExportsOK
<1>5. CASE ServeFails(t)
  <2>1. /\ pc[t] = "serve" /\ Goto(t, "undo") /\ state' = state
        /\ UNCHANGED <<localPath, mutex, arg, totalRetry, trouble>>
    BY <1>5 DEF ServeFails
  <2>2. nodes' \subseteq nodes \union NodesOf(arg[t])
    BY <1>3, <1>5, PrefixNodes DEF ServeFails
  <2>3. pc'[t] = "undo"
    BY <1>2, <2>1 DEF Goto
  <2>4. ~trouble => Midway(t)'
    BY <1>4, <2>1, <2>2, <2>3 DEF Midway, Settled
  <2>5. ServerTypeOK' /\ CommandsOK' /\ ExportsOK'
    BY <1>1, <2>1, <2>2, <2>4, CommandGoesOn
  <2> QED BY <1>3, <2>5, QuietReads DEF RemoteInv
<1>6. CASE CleanUpServe(t)
  <2>1. /\ pc[t] = "undo" /\ Return(t)
        /\ UNCHANGED <<state, localPath, totalRetry>>
    BY <1>6 DEF CleanUpServe
  <2>2. PICK left \in SUBSET NodesOf(arg[t]) :
          /\ nodes' = nodes \ (NodesOf(arg[t]) \ left)
          /\ trouble' = (trouble \/ left \intersect nodes # {})
    BY <1>6 DEF CleanUpServe, StopServe
  <2>3. ~trouble' => ~trouble /\ Settled'
    BY <1>4, <2>1, <2>2 DEF Midway, Settled
  <2>4. trouble' \in BOOLEAN /\ nodes' \subseteq nodes
    BY <2>2
  <2>5. localPath' \in Packages \union {NoPath}
    BY <1>1, <2>1 DEF ServerTypeOK
  <2>6. ServerTypeOK' /\ CommandsOK' /\ ExportsOK'
    BY <1>1, <1>3, <2>1, <2>3, <2>4, <2>5, CommandEnds
  <2> QED BY <1>3, <2>6, QuietReads DEF RemoteInv
<1> QED BY <1>5, <1>6

\* A stop, which believes the last entry, and one that fails: without the list, or
\* because that entry is not there to be unlinked.
LEMMA StopInv ==
  ASSUME RemoteInv, NEW t \in Commanders, StopUnlinks(t) \/ StopFails(t)
  PROVE  RemoteInv'
<1>1. ServerTypeOK /\ CommandsOK /\ ExportsOK
  BY DEF RemoteInv
<1>2. /\ Inside(t) /\ pc[t] = "stop" /\ Return(t) /\ UNCHANGED totalRetry
      /\ arg[t] \in Packages \union {NoPath}
  BY <1>1 DEF StopUnlinks, StopFails, Inside, ServerTypeOK
<1>3. ~trouble => /\ state = "CONFIGURED" /\ arg[t] = localPath
                  /\ localPath \in Packages /\ nodes = NodesOf(arg[t])
  BY <1>1, <1>2 DEF ExportsOK, Midway, Settled
<1>4. trouble \in BOOLEAN /\ localPath \in Packages \union {NoPath}
  BY <1>1 DEF ServerTypeOK
<1>5. CASE StopUnlinks(t)
  <2>1. PICK left \in SUBSET NodesOf(arg[t]) :
          /\ nodes' = nodes \ (NodesOf(arg[t]) \ left)
          /\ trouble' = (trouble \/ left \intersect nodes # {})
    BY <1>5 DEF StopUnlinks, StopServe
  <2>2. state' = "IDLE" /\ localPath' = NoPath /\ Moved
    BY <1>5 DEF StopUnlinks
  <2>3. ~trouble' => ~trouble /\ Settled'
    BY <1>3, <2>1, <2>2 DEF Settled
  <2>4. trouble' \in BOOLEAN /\ nodes' \subseteq nodes
    BY <2>1
  <2>5. ServerTypeOK' /\ CommandsOK' /\ ExportsOK'
    BY <1>1, <1>2, <2>2, <2>3, <2>4, CommandEnds
  <2> QED BY <1>2, <2>2, <2>5, MovedReads DEF RemoteInv
<1>6. CASE StopFails(t)
  <2>1. UNCHANGED <<state, localPath, rd, totalRetry>>
    BY <1>6 DEF StopFails
  <2>2. /\ trouble' \in BOOLEAN /\ nodes' \subseteq nodes
        /\ ~trouble' => ~trouble /\ nodes' = nodes
    <3>1. CASE UNCHANGED <<nodes, trouble>>
      BY <1>4, <3>1
    <3>2. ASSUME NEW left \in SUBSET NodesOf(arg[t]), arg[t] # NoPath,
                 ~UnlinkedLast(arg[t], left), StopServe(arg[t], left)
          PROVE  /\ trouble' \in BOOLEAN /\ nodes' \subseteq nodes
                 /\ ~trouble' => ~trouble /\ nodes' = nodes
      <4>1. /\ nodes' = nodes \ (NodesOf(arg[t]) \ left)
            /\ trouble' = (trouble \/ left \intersect nodes # {})
        BY <3>2 DEF StopServe
      <4>2. ASSUME ~trouble' PROVE ~trouble /\ nodes' = nodes
        <5>1. ~trouble /\ left \intersect nodes = {} /\ nodes = NodesOf(arg[t])
          BY <1>3, <4>1, <4>2
        <5>2. left = {} /\ arg[t] \in Packages
          BY <1>2, <3>2, <5>1
        <5>3. Entries[arg[t]] = <<>>
          BY <3>2, <5>1, <5>2, LastNode DEF UnlinkedLast
        <5>4. nodes = {}
          BY <5>1, <5>2, <5>3, NoNodes
        <5> QED BY <4>1, <5>1, <5>4
      <4>3. trouble' \in BOOLEAN
        BY <4>1
      <4>4. nodes' \subseteq nodes
        BY <4>1
      <4> QED BY <4>2, <4>3, <4>4
    <3> QED BY <1>6, <3>1, <3>2 DEF StopFails
  <2>3. ~trouble' => ~trouble /\ Settled'
    BY <1>3, <2>1, <2>2 DEF Settled
  <2>4. ServerTypeOK' /\ CommandsOK' /\ ExportsOK'
    BY <1>1, <1>2, <1>4, <2>1, <2>2, <2>3, CommandEnds
  <2> QED BY <2>1, <2>4, QuietReads DEF RemoteInv
<1> QED BY <1>5, <1>6

\* The reads that neither count a failure nor bring bytes.
LEMMA AskInv ==
  ASSUME RemoteInv, NEW r \in Clients, Copy(r) \/ Admit(r) \/ AnswerSize(r)
  PROVE  RemoteInv'
<1>1. /\ ServerTypeOK /\ CommandsOK /\ ExportsOK /\ ReadsOK
      /\ rd[r] \in ReadType /\ ReadOK(r, rd[r])
  BY DEF RemoteInv, ReadsOK
<1>2. UNCHANGED <<server, commands, trouble>> /\ UNCHANGED totalRetry
      /\ totalRetry' \in Nat /\ UNCHANGED localPath
  BY <1>1 DEF Copy, Admit, AnswerSize, Reads, ServerTypeOK, server
<1>3. NotReading \in ReadType /\ ReadOK(r, NotReading) /\ NotReading.pc = "idle"
  BY NothingType DEF ReadOK
<1>4. ASSUME NEW c \in ReadType, ReadOK(r, c), rd' = [rd EXCEPT ![r] = c],
             c.pc \notin {"count", "store"}
      PROVE  RemoteInv'
  BY <1>1, <1>2, <1>4, QuietServer, OneRead, OneReadRetry DEF RemoteInv
<1>5. CASE Copy(r)
  <2> DEFINE c == [NotReading EXCEPT !.pc = "ask"]
  <2>1. c \in ReadType /\ c.pc = "ask"
    BY NothingType DEF ReadType, ReadPlaces
  <2>2. ReadOK(r, c)
    BY EmptyFile DEF ReadOK, CopyOK, NotReading
  <2>3. rd' = [rd EXCEPT ![r] = c]
    BY <1>5 DEF Copy, Reads
  <2> HIDE DEF c
  <2> QED BY <1>4, <2>1, <2>2, <2>3
<1>6. CASE Admit(r) /\ state = "CONFIGURED"
  <2> DEFINE c == [rd[r] EXCEPT !.pc = "head", !.url = localPath]
  <2>1. c \in ReadType /\ c.pc = "head"
    BY <1>1 DEF ReadType, ReadPlaces, ServerTypeOK
  <2>2. rd[r].pc = "ask"
    BY <1>6 DEF Admit
  <2>3. /\ c.off = rd[r].off /\ c.url = localPath
        /\ c.got = rd[r].got /\ c.moved = rd[r].moved
    BY <1>1 DEF ReadType
  <2>4. rd' = [rd EXCEPT ![r] = c]
    BY <1>6 DEF Admit, Reads
  <2> HIDE DEF c
  <2>5. ReadOK(r, c)
    BY <1>1, <2>1, <2>2, <2>3 DEF ReadOK, CopyOK
  <2> QED BY <1>4, <2>1, <2>4, <2>5
<1>7. CASE rd' = [rd EXCEPT ![r] = NotReading]
  BY <1>3, <1>4, <1>7
<1> QED BY <1>5, <1>6, <1>7 DEF Admit, AnswerSize, Reads

\* The size: the client is at the end of the file, or asks for a piece of it.
LEMMA HeadInv ==
  ASSUME RemoteInv, NEW r \in Clients, AnswerHead(r)
  PROVE  RemoteInv'
<1>1. /\ ServerTypeOK /\ CommandsOK /\ ExportsOK /\ ReadsOK
      /\ rd[r] \in ReadType /\ ReadOK(r, rd[r])
  BY DEF RemoteInv, ReadsOK
<1>2. UNCHANGED <<server, commands, trouble>> /\ UNCHANGED totalRetry
      /\ totalRetry' \in Nat /\ UNCHANGED localPath
  BY <1>1 DEF AnswerHead, Reads, ServerTypeOK, server
<1>3. ASSUME NEW c \in ReadType, ReadOK(r, c), rd' = [rd EXCEPT ![r] = c],
             c.pc \notin {"count", "store"}
      PROVE  RemoteInv'
  BY <1>1, <1>2, <1>3, QuietServer, OneRead, OneReadRetry DEF RemoteInv
<1>4. /\ r \in Readers /\ r \notin Sizers /\ rd[r].pc = "head" /\ rd[r].url \in Packages
      /\ Size[rd[r].url] \in Nat /\ rd[r].off \in Nat
  BY <1>1, RemoteAssumption DEF AnswerHead, ReadType
<1>5. CASE rd[r].off >= Size[rd[r].url]
  <2> DEFINE c == [rd[r] EXCEPT !.pc = "done", !.url = NoPath]
  <2>1. c \in ReadType /\ c.pc = "done"
    BY <1>1 DEF ReadType, ReadPlaces
  <2>2. c.off = rd[r].off /\ c.got = rd[r].got /\ c.moved = rd[r].moved
    BY <1>1 DEF ReadType
  <2>3. rd' = [rd EXCEPT ![r] = c]
    BY <1>5 DEF AnswerHead, Reads, RemoteFileSize
  <2> HIDE DEF c
  <2>4. ReadOK(r, c)
    BY <1>1, <1>4, <1>5, <2>1, <2>2 DEF ReadOK, CopyOK
  <2> QED BY <1>3, <2>1, <2>3, <2>4
<1>6. CASE ~(rd[r].off >= Size[rd[r].url])
  <2> DEFINE rg == ConstructRange(rd[r].off, Chunk, Size[rd[r].url])
             c  == [rd[r] EXCEPT !.pc = "get", !.range = rg]
  <2>1. rd[r].off < Size[rd[r].url]
    BY <1>4, <1>6
  <2>2. rg \in Ranges
    BY <1>4, <2>1, RangeSize
  <2>3. rd' = [rd EXCEPT ![r] = c]
    BY <1>6 DEF AnswerHead, Reads, RemoteFileSize
  <2>4. c \in ReadType /\ c.pc = "get" /\ c.range = rg
    <3> HIDE DEF rg
    <3> QED BY <1>1, <2>2 DEF ReadType, ReadPlaces
  <2>5. /\ c.off = rd[r].off /\ c.url = rd[r].url
        /\ c.got = rd[r].got /\ c.moved = rd[r].moved
    BY <1>1 DEF ReadType
  <2> HIDE DEF c
  <2>6. ReadOK(r, c)
    BY <1>1, <1>4, <2>1, <2>4, <2>5 DEF ReadOK, CopyOK, Asked
  <2> QED BY <1>3, <2>3, <2>4, <2>6
<1> QED BY <1>5, <1>6

\* The transfer.
LEMMA GetInv ==
  ASSUME RemoteInv, NEW r \in Clients, AnswerGet(r)
  PROVE  RemoteInv'
<1>1. /\ ServerTypeOK /\ CommandsOK /\ ExportsOK /\ ReadsOK
      /\ rd[r] \in ReadType /\ ReadOK(r, rd[r])
  BY DEF RemoteInv, ReadsOK
<1>2. UNCHANGED <<server, commands, trouble>> /\ UNCHANGED totalRetry
      /\ totalRetry' \in Nat /\ UNCHANGED localPath
  BY <1>1 DEF AnswerGet, Reads, ServerTypeOK, server
<1>3. /\ rd[r].pc = "get" /\ Asked(rd[r]) /\ rd[r].off \in Nat
      /\ r \in Readers /\ r \notin Sizers
  BY <1>1 DEF AnswerGet, ReadOK, ReadType, Clients
<1>4. PICK answer \in Answers(rd[r].url, rd[r].range) :
        rd' = [rd EXCEPT ![r] =
                 [rd[r] EXCEPT !.pc = "copy", !.range = NoRange, !.chunk = answer]]
  BY DEF AnswerGet, Reads
<1> DEFINE c == [rd[r] EXCEPT !.pc = "copy", !.range = NoRange, !.chunk = answer]
<1>5. answer \in Content
  BY <1>3, AnswerType DEF Asked
<1>6. /\ c \in ReadType /\ c.pc = "copy" /\ c.chunk = answer
      /\ c.off = rd[r].off /\ c.url = rd[r].url
      /\ c.got = rd[r].got /\ c.moved = rd[r].moved
  <2>1. c \in ReadType
    BY <1>1, <1>5, NothingType DEF ReadType, ReadPlaces
  <2>2. /\ c.pc = "copy" /\ c.chunk = answer
        /\ c.off = rd[r].off /\ c.url = rd[r].url
        /\ c.got = rd[r].got /\ c.moved = rd[r].moved
    BY <1>1 DEF ReadType
  <2> QED BY <2>1, <2>2
<1> HIDE DEF c
<1>7. Answered(c)
  BY <1>3, <1>6 DEF Asked, Answered
<1>8. CopyOK(c)
  BY <1>1, <1>3, <1>6 DEF ReadOK, CopyOK
<1>9. ReadOK(r, c)
  BY <1>3, <1>6, <1>7, <1>8 DEF ReadOK
<1>10. RetryOK' \/ ~(Cardinality(Clients) <= 2)
  BY <1>2, <1>4, <1>6, OneReadRetry DEF c
<1>11. ReadsOK'
  BY <1>1, <1>2, <1>4, <1>6, <1>9, OneRead DEF c
<1> QED BY <1>1, <1>2, <1>10, <1>11, QuietServer DEF RemoteInv

\* What an answer adds to a copy that has all bytes up to its offset.
LEMMA AnswerContinues ==
  ASSUME NEW c \in ReadType, Answered(c), ~c.moved, CopyOK(c), c.pc = "copy",
         AsAsked(localPath)
  PROVE  /\ c.off + Len(c.chunk) <= Size[localPath]
         /\ c.got \o c.chunk = FileBytes(localPath, 0, c.off + Len(c.chunk))
<1>1. /\ c.url = localPath /\ localPath \in Packages /\ c.off \in Nat
      /\ Chunk \in Nat /\ Size[localPath] \in Nat /\ c.off < Size[localPath]
      /\ c.got = FileBytes(localPath, 0, c.off)
      /\ c.chunk \in Answers(localPath, ConstructRange(c.off, Chunk, Size[localPath]))
  BY RemoteAssumption DEF Answered, CopyOK, ReadType
<1>2. ASSUME NEW n \in 1..Chunk, c.chunk = FileBytes(localPath, c.off, n),
             c.off + n <= Size[localPath]
      PROVE  /\ c.off + Len(c.chunk) <= Size[localPath]
             /\ c.got \o c.chunk = FileBytes(localPath, 0, c.off + Len(c.chunk))
  <2>1. n \in Nat
    BY <1>1
  <2>2. Len(FileBytes(localPath, c.off, n)) = n
    BY <1>1, <2>1, FileBytesLen
  <2>3. FileBytes(localPath, 0, c.off) \o FileBytes(localPath, c.off, n)
          = FileBytes(localPath, 0, c.off + n)
    BY <1>1, <2>1, FileBytesConcat
  <2> QED BY <1>1, <1>2, <2>2, <2>3
<1>3. CASE localPath \notin AcceptRanges /\ c.chunk = FileBytes(localPath, 0, Size[localPath])
  <2>1. c.off = 0
    BY <1>1, <1>3 DEF CopyOK, AsAsked
  <2>2. Len(c.chunk) = Size[localPath]
    BY <1>1, <1>3, 0 \in Nat, FileBytesLen
  <2>3. c.got \o c.chunk = FileBytes(localPath, 0, 0 + Size[localPath])
    BY <1>1, <1>3, <2>1, FileBytesConcat
  <2> QED BY <1>1, <2>1, <2>2, <2>3
<1> QED BY <1>1, <1>2, <1>3, AnswerCases

\* An answer to a read of a file that is no longer than the buffer reaches its end.
LEMMA AnswerReachesEnd ==
  ASSUME NEW c \in ReadType, Answered(c), Size[c.url] <= Chunk
  PROVE  c.off + Len(c.chunk) >= Size[c.url]
<1>1. /\ c.url \in Packages /\ c.off \in Nat /\ Chunk \in Nat /\ Size[c.url] \in Nat
      /\ c.off < Size[c.url]
      /\ c.chunk \in Answers(c.url, ConstructRange(c.off, Chunk, Size[c.url]))
  BY RemoteAssumption DEF Answered, ReadType
<1>2. ASSUME NEW n \in 1..Chunk, c.chunk = FileBytes(c.url, c.off, n),
             c.off + n = Size[c.url]
      PROVE  c.off + Len(c.chunk) >= Size[c.url]
  <2>1. n \in Nat
    BY <1>1
  <2>2. Len(FileBytes(c.url, c.off, n)) = n
    BY <1>1, <2>1, FileBytesLen
  <2> QED BY <1>1, <1>2, <2>2
<1>3. CASE c.chunk = FileBytes(c.url, 0, Size[c.url])
  <2>1. Len(FileBytes(c.url, 0, Size[c.url])) = Size[c.url]
    BY <1>1, 0 \in Nat, FileBytesLen
  <2> QED BY <1>1, <1>3, <2>1
<1> QED BY <1>1, <1>2, <1>3, AnswerCases

\* The copy of the answer, which ends where the next piece begins.
LEMMA CopyInv ==
  ASSUME RemoteInv, NEW r \in Clients, CopyAnswer(r)
  PROVE  RemoteInv'
<1>1. /\ ServerTypeOK /\ CommandsOK /\ ExportsOK /\ ReadsOK
      /\ rd[r] \in ReadType /\ ReadOK(r, rd[r])
  BY DEF RemoteInv, ReadsOK
<1>2. UNCHANGED <<server, commands, trouble>> /\ UNCHANGED totalRetry
      /\ totalRetry' \in Nat /\ UNCHANGED localPath
  BY <1>1 DEF CopyAnswer, Reads, ServerTypeOK, server
<1>3. /\ rd[r].pc = "copy" /\ Answered(rd[r]) /\ rd[r].off \in Nat
      /\ r \in Readers /\ r \notin Sizers
  BY <1>1 DEF CopyAnswer, ReadOK, ReadType, Clients
<1> DEFINE n   == Len(rd[r].chunk)
           got == IF rd[r].moved THEN <<>> ELSE rd[r].got \o rd[r].chunk
           c   == [rd[r] EXCEPT !.pc = "ask", !.off = rd[r].off + n, !.url = NoPath,
                                !.chunk = <<>>, !.got = got]
<1>4. rd' = [rd EXCEPT ![r] = c]
  BY DEF CopyAnswer, Reads
<1>5. n \in Nat /\ got \in Content
  <2>1. rd[r].chunk \in Content /\ rd[r].got \in Content
    BY <1>1 DEF ReadType
  <2> QED BY <2>1, NothingType, ConcatProperties DEF Content
<1> HIDE DEF n, got
<1>6. /\ c \in ReadType /\ c.pc = "ask" /\ c.off = rd[r].off + n
      /\ c.got = got /\ c.moved = rd[r].moved
  <2>1. rd[r].off + n \in Nat
    BY <1>3, <1>5
  <2>2. c \in ReadType
    BY <1>1, <1>5, <2>1, NothingType DEF ReadType, ReadPlaces
  <2>3. /\ c.pc = "ask" /\ c.off = rd[r].off + n
        /\ c.got = got /\ c.moved = rd[r].moved
    BY <1>1 DEF ReadType
  <2> QED BY <2>2, <2>3
<1> HIDE DEF c
<1>7. CopyOK(c)
  <2> SUFFICES ASSUME ~rd[r].moved PROVE CopyOK(c)
    BY <1>6 DEF CopyOK
  <2>1. CopyOK(rd[r])
    BY <1>1, <1>3 DEF ReadOK
  <2>2. rd[r].url = localPath /\ localPath \in Packages
    BY <1>3, <2>1 DEF CopyOK, Answered
  <2>3. Size[localPath] <= Chunk => c.off >= Size[localPath]
    BY <1>1, <1>3, <1>6, <2>2, AnswerReachesEnd DEF n
  <2>4. ASSUME AsAsked(localPath)
        PROVE  c.off <= Size[localPath] /\ c.got = FileBytes(localPath, 0, c.off)
    BY <1>1, <1>3, <1>6, <2>1, <2>4, AnswerContinues DEF n, got
  <2> QED BY <1>6, <2>2, <2>3, <2>4 DEF CopyOK
<1>8. ReadOK(r, c)
  BY <1>3, <1>6, <1>7 DEF ReadOK
<1>9. RetryOK' \/ ~(Cardinality(Clients) <= 2)
  BY <1>2, <1>4, <1>6, OneReadRetry
<1> QED BY <1>1, <1>2, <1>4, <1>6, <1>8, <1>9, QuietServer, OneRead DEF RemoteInv

\* A failed transfer, and the two steps that count it.
LEMMA RetryInv ==
  ASSUME RemoteInv, NEW r \in Clients, TransferFails(r) \/ LoadRetry(r) \/ StoreRetry(r)
  PROVE  RemoteInv'
<1>1. /\ ServerTypeOK /\ CommandsOK /\ ExportsOK /\ ReadsOK
      /\ rd \in [Clients -> ReadType] /\ rd[r] \in ReadType /\ ReadOK(r, rd[r])
      /\ totalRetry \in Nat /\ DULINK_RETRY_NUMBER \in Nat
  BY RemoteAssumption DEF RemoteInv, ReadsOK, ServerTypeOK
<1>2. UNCHANGED <<server, commands, trouble>> /\ UNCHANGED localPath
  BY DEF TransferFails, LoadRetry, StoreRetry, Reads, server
<1>3. rd[r].seen \in Nat /\ rd[r].seen + 1 \in Nat
  BY <1>1 DEF ReadType
<1>4. totalRetry' \in Nat
  BY <1>1, <1>3 DEF TransferFails, LoadRetry, StoreRetry
<1>5. ServerTypeOK' /\ CommandsOK' /\ ExportsOK'
  BY <1>1, <1>2, <1>4, QuietServer
<1>6. CASE /\ TransferFails(r) /\ totalRetry < DULINK_RETRY_NUMBER
            /\ Reads(r, [rd[r] EXCEPT !.pc = "count", !.url = NoPath, !.range = NoRange])
  <2> DEFINE c == [rd[r] EXCEPT !.pc = "count", !.url = NoPath, !.range = NoRange]
  <2>1. c \in ReadType /\ c.pc = "count"
    BY <1>1, NothingType DEF ReadType, ReadPlaces
  <2>2. c.off = rd[r].off /\ c.got = rd[r].got /\ c.moved = rd[r].moved
    BY <1>1 DEF ReadType
  <2>3. rd' = [rd EXCEPT ![r] = c] /\ totalRetry' = totalRetry
        /\ rd[r].pc \in {"head", "get"}
    BY <1>6 DEF TransferFails, Reads
  <2> HIDE DEF c
  <2>4. ReadOK(r, c)
    BY <1>1, <2>1, <2>2, <2>3 DEF ReadOK, CopyOK
  <2>5. ReadsOK'
    BY <1>1, <1>2, <2>1, <2>3, <2>4, OneRead
  <2>6. \A s \in Clients : rd'[s] = IF s = r THEN c ELSE rd[s]
    BY <1>1, <2>3
  <2>7. ASSUME Cardinality(Clients) <= 2 PROVE RetryOK'
    BY <1>1, <1>6, <2>1, <2>3, <2>6, <2>7 DEF RemoteInv, RetryOK, Counting, ReadType
  <2> QED BY <1>5, <2>5, <2>7 DEF RemoteInv
<1>7. CASE TransferFails(r) /\ Reads(r, NotReading)
  <2>1. NotReading \in ReadType /\ ReadOK(r, NotReading) /\ NotReading.pc = "idle"
    BY NothingType DEF ReadOK
  <2>2. rd' = [rd EXCEPT ![r] = NotReading] /\ UNCHANGED totalRetry
    BY <1>7 DEF TransferFails, Reads
  <2>3. ReadsOK'
    BY <1>1, <1>2, <2>1, <2>2, OneRead
  <2> QED BY <1>5, <2>1, <2>2, <2>3, OneReadRetry DEF RemoteInv
<1>8. CASE LoadRetry(r)
  <2> DEFINE c == [rd[r] EXCEPT !.pc = "store", !.seen = totalRetry]
  <2>1. c \in ReadType /\ c.pc = "store" /\ c.seen = totalRetry
    BY <1>1 DEF ReadType, ReadPlaces
  <2>2. c.off = rd[r].off /\ c.got = rd[r].got /\ c.moved = rd[r].moved
    BY <1>1 DEF ReadType
  <2>3. rd' = [rd EXCEPT ![r] = c] /\ totalRetry' = totalRetry /\ rd[r].pc = "count"
    BY <1>8 DEF LoadRetry, Reads
  <2> HIDE DEF c
  <2>4. ReadOK(r, c)
    BY <1>1, <2>1, <2>2, <2>3 DEF ReadOK, CopyOK
  <2>5. ReadsOK'
    BY <1>1, <1>2, <2>1, <2>3, <2>4, OneRead
  <2>6. \A s \in Clients : rd'[s] = IF s = r THEN c ELSE rd[s]
    BY <1>1, <2>3
  <2>7. ASSUME Cardinality(Clients) <= 2 PROVE RetryOK'
    BY <1>1, <2>1, <2>3, <2>6, <2>7 DEF RemoteInv, RetryOK, Counting, ReadType
  <2> QED BY <1>5, <2>5, <2>7 DEF RemoteInv
<1>9. CASE StoreRetry(r)
  <2> DEFINE c == [rd[r] EXCEPT !.pc = "ask", !.seen = 0]
  <2>1. c \in ReadType /\ c.pc = "ask"
    BY <1>1 DEF ReadType, ReadPlaces
  <2>2. c.off = rd[r].off /\ c.got = rd[r].got /\ c.moved = rd[r].moved
    BY <1>1 DEF ReadType
  <2>3. /\ rd' = [rd EXCEPT ![r] = c] /\ totalRetry' = rd[r].seen + 1
        /\ rd[r].pc = "store"
    BY <1>9 DEF StoreRetry, Reads
  <2> HIDE DEF c
  <2>4. ReadOK(r, c)
    BY <1>1, <2>1, <2>2, <2>3 DEF ReadOK, CopyOK
  <2>5. ReadsOK'
    BY <1>1, <1>2, <2>1, <2>3, <2>4, OneRead
  <2>6. \A s \in Clients : rd'[s] = IF s = r THEN c ELSE rd[s]
    BY <1>1, <2>3
  <2>7. ASSUME Cardinality(Clients) <= 2 PROVE RetryOK'
    <3>1. \A s, u \in Clients : s # r /\ u # r => s = u
      BY <2>7, TwoClients
    <3>2. RetryOK /\ Counting(r)
      BY <2>3, <2>7 DEF RemoteInv, Counting
    <3>3. \A s \in Clients \ {r} : rd[s] \in ReadType
      BY <1>1
    <3> QED BY <1>1, <1>3, <2>1, <2>3, <2>6, <3>1, <3>2, <3>3
            DEF RetryOK, Counting, ReadType
  <2> QED BY <1>5, <2>5, <2>7 DEF RemoteInv
<1> QED BY <1>6, <1>7, <1>8, <1>9 DEF TransferFails

\* Every step preserves the invariants.
LEMMA RemoteNext == RemoteInv /\ Next => RemoteInv' \/ Init'
<1> SUFFICES ASSUME RemoteInv, Next PROVE RemoteInv' \/ Init'
  OBVIOUS
<1>1. CASE Restart
  BY <1>1 DEF Restart, Init
<1>2. CASE Open \/ InitSetIdle
  BY <1>2, StartInv
<1>3. CASE RunMode \/ \E t \in Writers : CmdCB(t)
  BY <1>3, BeginInv
<1>4. CASE \E t \in Commanders : CommandStep(t)
  BY <1>4, ServeInv, ServeFailsInv, StopInv DEF CommandStep
<1>5. CASE \E r \in Clients : Copy(r) \/ Admit(r) \/ ReadStep(r)
  BY <1>5, AskInv, HeadInv, GetInv, CopyInv, RetryInv DEF ReadStep
<1> QED BY <1>1, <1>2, <1>3, <1>4, <1>5 DEF Next

\* Commands alternate, what is exported and where reads go belong together, and a copy
\* holds the first bytes of the package that is served, in their order, if the remote
\* server keeps to ranges or the file fits in the buffer: the inductive invariants of
\* RemoteContentProvider.
THEOREM RemoteInvariant == Spec => []RemoteInv
<1>1. Init => RemoteInv
  BY InitInv
<1>2. RemoteInv /\ Next => RemoteInv' \/ Init'
  BY RemoteNext
<1>3. RemoteInv /\ UNCHANGED vars => RemoteInv'
  <2> SUFFICES ASSUME RemoteInv, UNCHANGED vars PROVE RemoteInv'
    OBVIOUS
  <2>1. ServerTypeOK /\ CommandsOK /\ ExportsOK /\ totalRetry \in Nat
    BY DEF RemoteInv, ServerTypeOK
  <2>2. /\ UNCHANGED <<server, commands, trouble>>
        /\ UNCHANGED <<rd, totalRetry, localPath>>
    BY DEF vars, server
  <2>3. totalRetry' \in Nat
    BY <2>1, <2>2
  <2> QED BY <2>1, <2>2, <2>3, QuietServer, QuietReads DEF RemoteInv
<1> QED BY <1>1, <1>2, <1>3, PTL DEF Spec

\* The variables keep their types, and failures are counted up to the limit, or one
\* beyond it when two clients overwrite each other's counts.
THEOREM RemoteTypeCorrect == Spec => []RemoteTypeOK
<1>1. RemoteInv => RemoteTypeOK
  BY DEF RemoteInv, ServerTypeOK, ReadsOK, ReadType, ReadPlaces, RetryOK, RemoteTypeOK
<1> QED BY <1>1, RemoteInvariant, PTL

\* Between commands DU Link shows exactly the files of the package reads are directed to,
\* and none when none is served, for any packages, clients and failures.
THEOREM AlwaysExportsExactlyServed == Spec => []ExportsExactlyServed
<1>1. RemoteInv => ExportsExactlyServed
  BY DEF RemoteInv, ExportsOK, Settled, ExportsExactlyServed
<1> QED BY <1>1, RemoteInvariant, PTL

\* A client that is done has all the bytes of the file in their order, for any size and
\* any buffer, if the remote server keeps to ranges or the file fits in the buffer.
THEOREM AlwaysCopyIsWhole == Spec => []CopyIsWhole
<1>1. RemoteInv => CopyIsWhole
  <2> SUFFICES ASSUME RemoteInv, NEW r \in Clients,
                      rd[r].pc = "done", ~rd[r].moved, AsAsked(localPath)
               PROVE  rd[r].got = FileBytes(localPath, 0, Size[localPath])
    BY DEF CopyIsWhole
  <2>1. rd[r] \in ReadType /\ ReadOK(r, rd[r])
    BY DEF RemoteInv, ReadsOK
  <2>2. r \in Readers
    BY <2>1 DEF ReadOK, Clients
  <2>3. /\ rd[r].off >= Size[localPath] /\ localPath \in Packages /\ rd[r].off \in Nat
        /\ rd[r].off > 0 => rd[r].off <= Size[localPath]
        /\ rd[r].got = FileBytes(localPath, 0, rd[r].off)
    BY <2>1, <2>2 DEF ReadOK, CopyOK, ReadType
  <2>4. Size[localPath] \in Nat
    BY <2>3, RemoteAssumption
  <2>5. rd[r].off = Size[localPath]
    BY <2>3, <2>4
  <2> QED BY <2>3, <2>5
<1> QED BY <1>1, RemoteInvariant, PTL

\* The bytes that exportFileCB copies into a client's buffer fit in it, for any size and
\* any buffer, if the remote server keeps to ranges or the file fits in the buffer.
THEOREM AnswersAlwaysFit == Spec => []AnswersFit
<1>1. RemoteInv => AnswersFit
  <2> SUFFICES ASSUME RemoteInv, NEW r \in Clients,
                      rd[r].pc = "copy", AsAsked(rd[r].url)
               PROVE  Len(rd[r].chunk) <= Chunk
    BY DEF AnswersFit
  <2> DEFINE url == rd[r].url
  <2>1. rd[r] \in ReadType /\ Answered(rd[r])
    BY DEF RemoteInv, ReadsOK, ReadOK
  <2>2. /\ url \in Packages /\ rd[r].off \in Nat /\ rd[r].off < Size[url]
        /\ Chunk \in Nat /\ Size[url] \in Nat
        /\ rd[r].chunk \in Answers(url, ConstructRange(rd[r].off, Chunk, Size[url]))
    BY <2>1, RemoteAssumption DEF Answered, ReadType
  <2> HIDE DEF url
  <2>3. ASSUME NEW n \in 1..Chunk, rd[r].chunk = FileBytes(url, rd[r].off, n)
        PROVE  Len(rd[r].chunk) <= Chunk
    <3>1. n \in Nat
      BY <2>2
    <3>2. Len(FileBytes(url, rd[r].off, n)) = n
      BY <2>2, <3>1, FileBytesLen
    <3> QED BY <2>2, <2>3, <3>2
  <2>4. CASE url \notin AcceptRanges /\ rd[r].chunk = FileBytes(url, 0, Size[url])
    <3>1. Size[url] <= Chunk
      BY <2>4 DEF AsAsked, url
    <3>2. Len(FileBytes(url, 0, Size[url])) = Size[url]
      BY <2>2, 0 \in Nat, FileBytesLen
    <3> QED BY <2>2, <2>4, <3>1, <3>2
  <2> QED BY <2>2, <2>3, <2>4, AnswerCases
<1> QED BY <1>1, RemoteInvariant, PTL

=============================================================================
