-------------------------- MODULE PushUpdateProofs --------------------------
(***************************************************************************)
(* What a push update has written and validated when it says so, for all     *)
(* packages, maps, buffer sizes and threads: the inductive invariant behind   *)
(* the safety properties of PushUpdate, and their proofs.                    *)
(***************************************************************************)
EXTENDS PushUpdate, Integers, TLAPS

-----------------------------------------------------------------------------
(* The inductive invariant *)

WorkerPlaces ==
  {"free", "map", "entry", "write", "json", "test", "tested", "wait", "verdict",
   "enable", "fail"}
LocType == [pc : WorkerPlaces, i : Nat, off : Nat, n : 0..Buf]

\* Offsets are at the boundaries of chunks, and what is being written is a chunk of some
\* package, whatever lines are typed meanwhile.
LocOK(l) ==
  /\ l \in LocType
  /\ l.off % Buf = 0
  /\ l.pc = "write" => <<l.i, l.off>> \in Places

Asking     == {"test", "tested", "wait"}
Validating == {"json", "test", "tested", "wait", "verdict", "enable"}
Writing    == {"entry", "write"}
Verdicts   == {"validateSuccess", "validateFail"}

\* One thread, and none when DU TII has just announced "enabled".
Lone ==
  /\ \A v, w \in Workers : Alive(v) /\ Alive(w) => v = w
  /\ \A w \in Workers : Alive(w) => cb # "enabled"

\* DU TII's push mode is the one that thread has set, as long as the update lasts.
ModeOK(l) ==
  sess # NoPkg =>
    /\ pushMode \notin {"off", "disabled"}
    /\ l.pc \in {"map"} \union Writing => pushMode = "enabled"
    /\ l.pc \in Validating => pushMode = "validating"

\* A question to DU TII is the one the thread asks, and an answer that is stored is the
\* answer to it.
AnswerOK(l) ==
  /\ l.pc \notin Asking => tiiReq = 0 /\ cb \notin Verdicts
  /\ tiiReq # 0 => tiiReq = l.i /\ cb \notin Verdicts
  /\ tiiReq # 0 \/ cb \in Verdicts \/ l.pc = "json" =>
       validatePushModeStatus = "INPROGRESS"
  /\ cb = "validateSuccess" => l.i \in validated
  /\ cb = "validateFail" => failed
  /\ l.pc \in Asking \union {"verdict"} =>
       /\ validatePushModeStatus = "SUCCESS" => l.i \in validated
       /\ validatePushModeStatus = "FAIL" => failed
  /\ l.pc = "verdict" => validatePushModeStatus # "INPROGRESS"
  /\ l.pc = "enable" => l.i \in validated
  /\ l.pc = "fail" => failed

\* Everything of package p that comes before offset off of entry i is written, and
\* validated.
PushedTo(p, i, off) ==
  /\ \A c \in Chunks(p) :
       c[1] < i \/ (c[1] = i /\ c[2] < off) => part[c] = Content(p, c[1], c[2])
  /\ \A j \in 1..Len(Map[p]) : Map[p][j].kind = "validate" /\ j < i => j \in validated

\* How far the thread has come.
EntryOK(l) ==
  /\ l.pc = "map" => l.i = 0
  /\ l.pc \in Writing \union Validating =>
       map = line /\ line \in Packages /\ l.i > 0 /\ PushedTo(line, l.i, l.off)
  /\ l.pc \in Validating => l.i \in 1..Len(Map[line]) /\ Map[line][l.i].kind = "validate"
  /\ l.pc = "write" =>
       /\ l.i \in Images(line) /\ l.off < Map[line][l.i].size
       /\ buf = Content(line, l.i, l.off)
       /\ l.n = Buf \/ l.off + l.n = Map[line][l.i].size

WorkerOK(l) == ModeOK(l) /\ AnswerOK(l) /\ EntryOK(l)

\* Nobody asks.
NobodyOK == tiiReq = 0 /\ cb \notin Verdicts

SessionOK ==
  sess # NoPkg =>
    /\ line = sess
    /\ cb = "enabled" => pushMode = "enabled"
    /\ pushMode = "disabled" => PushedTo(sess, Len(Map[sess]) + 1, 0)

PushOK ==
  /\ Lone
  /\ SessionOK
  /\ \A w \in Workers : Alive(w) => WorkerOK(loc[w])
  /\ (\A w \in Workers : ~Alive(w)) => NobodyOK

RestTypeOK ==
  /\ line \in Packages \union {NoPkg} /\ map \in Packages \union {NoPkg}
  /\ buf \in Contents \union {Old}
  /\ validatePushModeStatus \in {"FAIL", "SUCCESS", "INPROGRESS"}
  /\ cb \in {"none", "enabled", "validateSuccess", "validateFail", "signal"}
  /\ registered \in BOOLEAN
  /\ sess \in Packages \union {NoPkg}
  /\ pushMode \in {"off", "enabled", "validating", "disabled"}
  /\ tiiReq \in Nat /\ validated \subseteq Nat
  /\ part \in [Places -> Contents \union {Old}]
  /\ failed \in BOOLEAN /\ lost \in BOOLEAN /\ stale \in BOOLEAN

LocsOK == loc \in [Workers -> LocType] /\ \A w \in Workers : LocOK(loc[w])

PushInv == RestTypeOK /\ LocsOK /\ (~stale => PushOK)

-----------------------------------------------------------------------------
(* Chunks *)

\* What the buffer size divides is a multiple of it.
LEMMA MultipleOfBuf ==
  ASSUME NEW b \in Nat \ {0}, NEW x \in Nat, x % b = 0
  PROVE  \E k \in Nat : x = k * b
OBVIOUS

\* The buffer size divides its multiples.
LEMMA BufMultiple ==
  ASSUME NEW b \in Nat \ {0}, NEW k \in Nat
  PROVE  (k * b) % b = 0
OBVIOUS

\* The next boundary of chunks is one buffer further on, ...
LEMMA NextBoundary ==
  ASSUME NEW b \in Nat \ {0}, NEW x \in Nat, x % b = 0
  PROVE  (x + b) % b = 0
<1>1. PICK k \in Nat : x = k * b
  BY MultipleOfBuf
<1>2. x + b = (k + 1) * b /\ k + 1 \in Nat
  BY <1>1
<1> QED BY <1>2, BufMultiple

\* ... and there is none between.
LEMMA NoBoundaryBetween ==
  ASSUME NEW b \in Nat \ {0}, NEW x \in Nat, NEW y \in Nat,
         x % b = 0, y % b = 0, x < y + b
  PROVE  x <= y
<1>1. PICK k \in Nat : x = k * b
  BY MultipleOfBuf
<1>2. PICK j \in Nat : y = j * b
  BY MultipleOfBuf
<1>3. k <= j
  BY <1>1, <1>2
<1> QED BY <1>1, <1>2, <1>3

\* What a sequence holds.
LEMMA ElementOf ==
  ASSUME NEW S, NEW s \in Seq(S), NEW i \in 1..Len(s)
  PROVE  s[i] \in S
OBVIOUS

\* The entries of a map.
LEMMA MapEntry ==
  ASSUME NEW p \in Packages
  PROVE  /\ Len(Map[p]) \in Nat
         /\ \A i \in 1..Len(Map[p]) :
              Map[p][i].kind \in {"image", "validate", "reload"} /\ Map[p][i].size \in Nat
<1>1. Map[p] \in Seq([kind : {"image", "validate", "reload"}, size : Nat])
  BY PushAssumption
<1>2. \A i \in 1..Len(Map[p]) :
        Map[p][i] \in [kind : {"image", "validate", "reload"}, size : Nat]
  BY <1>1, ElementOf
<1> QED BY <1>1, <1>2

\* What is in an image at a boundary is a chunk of it, ...
LEMMA ChunkOf ==
  ASSUME NEW p \in Packages, NEW i \in Images(p), NEW off \in Nat,
         off % Buf = 0, off < Map[p][i].size
  PROVE  /\ <<i, off>> \in Chunks(p) /\ <<i, off>> \in Places
         /\ Content(p, i, off) \in Contents
<1>1. Map[p][i].size \in Nat
  BY MapEntry DEF Images
<1>2. off \in {o \in 0..Map[p][i].size : o < Map[p][i].size /\ o % Buf = 0}
  BY <1>1
<1>3. <<i, off>> \in Chunks(p)
  BY <1>2 DEF Chunks
<1>4. <<i, off>>[1] = i /\ <<i, off>>[2] = off
  OBVIOUS
<1>5. Content(p, i, off) \in {Content(p, c[1], c[2]) : c \in Chunks(p)}
  BY <1>3, <1>4
<1> QED BY <1>3, <1>5 DEF Places, Contents

\* ... and the chunks of a package are such.
LEMMA InChunks ==
  ASSUME NEW p \in Packages, NEW c \in Chunks(p)
  PROVE  /\ c = <<c[1], c[2]>> /\ c \in Places
         /\ c[1] \in Images(p) /\ c[1] \in 1..Len(Map[p])
         /\ c[2] \in Nat /\ c[2] % Buf = 0
         /\ Map[p][c[1]].size \in Nat /\ c[2] < Map[p][c[1]].size
<1>1. PICK i \in Images(p) :
        c \in {<<i, off>> : off \in {o \in 0..Map[p][i].size :
                                       o < Map[p][i].size /\ o % Buf = 0}}
  BY DEF Chunks
<1>2. PICK off \in 0..Map[p][i].size :
        c = <<i, off>> /\ off < Map[p][i].size /\ off % Buf = 0
  BY <1>1
<1>3. i \in 1..Len(Map[p]) /\ Map[p][i].size \in Nat
  BY MapEntry DEF Images
<1>4. c \in Places
  BY DEF Places
<1> QED BY <1>2, <1>3, <1>4

-----------------------------------------------------------------------------
(* How far an update has come *)

\* Nothing is asked of what comes before the first entry.
LEMMA PushedNothing ==
  ASSUME NEW p \in Packages
  PROVE  PushedTo(p, 1, 0)'
<1>1. ASSUME NEW c \in Chunks(p) PROVE ~(c[1] < 1 \/ (c[1] = 1 /\ c[2] < 0))
  BY InChunks
<1>2. \A j \in 1..Len(Map[p]) : ~(j < 1)
  OBVIOUS
<1> QED BY <1>1, <1>2 DEF PushedTo

\* An entry is done with when it is an image that is written up to its end, a validation
\* that was answered well, or neither.
LEMMA PushedEntry ==
  ASSUME NEW p \in Packages, NEW i \in Nat, NEW off \in Nat, PushedTo(p, i, off)',
         i \in Images(p) => off >= Map[p][i].size,
         i \in 1..Len(Map[p]) /\ Map[p][i].kind = "validate" => i \in validated'
  PROVE  PushedTo(p, i + 1, 0)'
<1>1. ASSUME NEW c \in Chunks(p), c[1] < i + 1 \/ (c[1] = i + 1 /\ c[2] < 0)
      PROVE  part'[c] = Content(p, c[1], c[2])
  <2>1. /\ c[1] \in Images(p) /\ c[1] \in Nat /\ c[2] \in Nat
        /\ Map[p][c[1]].size \in Nat /\ c[2] < Map[p][c[1]].size
    BY InChunks
  <2>2. c[1] < i \/ c[1] = i
    BY <1>1, <2>1
  <2>3. c[1] = i => c[2] < off
    BY <2>1
  <2> QED BY <2>2, <2>3 DEF PushedTo
<1>2. ASSUME NEW j \in 1..Len(Map[p]), Map[p][j].kind = "validate", j < i + 1
      PROVE  j \in validated'
  <2>1. j < i \/ j = i
    BY <1>2
  <2> QED BY <1>2, <2>1 DEF PushedTo
<1> QED BY <1>1, <1>2 DEF PushedTo

\* After the last entry all is pushed.
LEMMA PushedAll ==
  ASSUME NEW p \in Packages, NEW i \in Nat, NEW off \in Nat, PushedTo(p, i, off)',
         i > Len(Map[p])
  PROVE  PushedTo(p, Len(Map[p]) + 1, 0)'
<1>0. Len(Map[p]) \in Nat
  BY MapEntry
<1>1. \A c \in Chunks(p) : c[1] < i
  BY <1>0, InChunks
<1>2. \A j \in 1..Len(Map[p]) : j < i
  BY <1>0
<1> QED BY <1>1, <1>2 DEF PushedTo

\* One chunk more.
LEMMA PushedChunk ==
  ASSUME RestTypeOK, NEW p \in Packages, NEW i \in Images(p), NEW off \in Nat,
         off % Buf = 0, off < Map[p][i].size, PushedTo(p, i, off),
         part' = [part EXCEPT ![<<i, off>>] = Content(p, i, off)],
         validated' = validated
  PROVE  PushedTo(p, i, off + Buf)'
<1>1. Buf \in Nat \ {0} /\ i \in Nat
  BY PushAssumption DEF Images
<1>2. ASSUME NEW c \in Chunks(p), c[1] < i \/ (c[1] = i /\ c[2] < off + Buf)
      PROVE  part'[c] = Content(p, c[1], c[2])
  <2>1. /\ c = <<c[1], c[2]>> /\ c \in Places /\ c[1] \in Nat
        /\ c[2] \in Nat /\ c[2] % Buf = 0
    BY InChunks
  <2>2. CASE c = <<i, off>>
    <3>1. part'[c] = Content(p, i, off)
      BY <2>1, <2>2 DEF RestTypeOK
    <3>2. c[1] = i /\ c[2] = off
      BY <2>2
    <3> QED BY <3>1, <3>2
  <2>3. CASE c # <<i, off>>
    <3>1. part'[c] = part[c]
      BY <2>1, <2>3 DEF RestTypeOK
    <3>2. c[1] = i => c[2] # off
      BY <2>1, <2>3
    <3>3. c[1] = i => c[2] <= off
      BY <1>1, <1>2, <2>1, NoBoundaryBetween
    <3>4. c[1] < i \/ (c[1] = i /\ c[2] < off)
      BY <1>2, <2>1, <3>2, <3>3
    <3> QED BY <3>1, <3>4 DEF PushedTo
  <2> QED BY <2>2, <2>3
<1>3. \A j \in 1..Len(Map[p]) : Map[p][j].kind = "validate" /\ j < i => j \in validated'
  BY DEF PushedTo
<1> QED BY <1>2, <1>3 DEF PushedTo

\* What is pushed stays so until the next deploy.
LEMMA PushedStays ==
  ASSUME NEW p \in Packages, NEW i, NEW off, PushedTo(p, i, off),
         part' = part, validated \subseteq validated'
  PROVE  PushedTo(p, i, off)'
BY DEF PushedTo

-----------------------------------------------------------------------------
(* Steps of a thread *)

\* A thread goes to a place without a write.
LEMMA GotoLoc ==
  ASSUME LocsOK, NEW w \in Workers, NEW place \in WorkerPlaces \ {"write"},
         Goto(w, place)
  PROVE  \E l : /\ LocOK(l) /\ loc' = [loc EXCEPT ![w] = l]
                /\ l.pc = place /\ l.i = loc[w].i /\ l.off = loc[w].off
<1> DEFINE l == [loc[w] EXCEPT !.pc = place]
<1>1. loc \in [Workers -> LocType] /\ LocOK(loc[w])
  BY DEF LocsOK
<1>2. l \in LocType /\ l.pc = place /\ l.i = loc[w].i /\ l.off = loc[w].off
  BY <1>1 DEF LocType
<1>3. loc' = [loc EXCEPT ![w] = l]
  BY <1>1 DEF Goto
<1> HIDE DEF l
<1>4. LocOK(l)
  BY <1>1, <1>2 DEF LocOK
<1> QED BY <1>2, <1>3, <1>4

\* A thread ends.
LEMMA FreeLoc == LocOK(Free) /\ Free.pc = "free"
<1>1. Buf \in Nat \ {0} /\ 0 % Buf = 0
  BY PushAssumption
<1> QED BY <1>1 DEF LocOK, LocType, Free, WorkerPlaces

\* A thread goes to the next entry of the map.
LEMMA NextEntryLoc ==
  ASSUME LocsOK, NEW w \in Workers, NextEntry(w)
  PROVE  \E l : /\ LocOK(l) /\ loc' = [loc EXCEPT ![w] = l]
                /\ l.pc = "entry" /\ l.i = loc[w].i + 1 /\ l.off = 0
<1> DEFINE l == [Free EXCEPT !.pc = "entry", !.i = loc[w].i + 1]
<1>1. loc[w].i \in Nat /\ loc[w].i + 1 \in Nat
  BY DEF LocsOK, LocType
<1>2. Buf \in Nat \ {0} /\ 0 % Buf = 0
  BY PushAssumption
<1>3. /\ l \in LocType /\ l.pc = "entry" /\ l.i = loc[w].i + 1 /\ l.off = 0
  <2>1. Free \in LocType /\ Free.off = 0
    BY FreeLoc DEF LocOK, Free
  <2> QED BY <1>1, <2>1 DEF LocType, WorkerPlaces
<1>4. loc' = [loc EXCEPT ![w] = l]
  BY DEF NextEntry
<1> HIDE DEF l
<1>5. LocOK(l)
  BY <1>2, <1>3 DEF LocOK
<1> QED BY <1>3, <1>4, <1>5

\* What holds of a thread while nobody interferes: there is no other.
LEMMA WorkerNow ==
  ASSUME PushInv, ~stale, NEW w \in Workers, Alive(w)
  PROVE  /\ WorkerOK(loc[w]) /\ cb # "enabled" /\ \A v \in Workers \ {w} : ~Alive(v)
         /\ sess # NoPkg => line = sess /\ pushMode \notin {"off", "disabled"}
BY DEF PushInv, PushOK, Lone, WorkerOK, ModeOK, SessionOK

\* A step of a thread keeps the invariant if it leaves that thread, or the question and
\* the answer when it ends, as they should be.
LEMMA WorkerMoves ==
  ASSUME PushInv, RestTypeOK', NEW w \in Workers, Alive(w), NEW l, LocOK(l),
         loc' = [loc EXCEPT ![w] = l], UNCHANGED <<cb, stale, line>>,
         ~stale => /\ l.pc # "free" => WorkerOK(l)'
                   /\ l.pc = "free" => NobodyOK'
                   /\ sess' = sess \/ sess' = NoPkg
                   /\ sess' # NoPkg /\ pushMode' = "disabled" =>
                        PushedTo(sess, Len(Map[sess]) + 1, 0)'
  PROVE  PushInv'
<1>1. loc \in [Workers -> LocType] /\ \A v \in Workers : LocOK(loc[v])
  BY DEF PushInv, LocsOK
<1>2. \A v \in Workers : loc'[v] = IF v = w THEN l ELSE loc[v]
  BY <1>1
<1>3. LocsOK'
  <2>1. l \in LocType
    BY DEF LocOK
  <2>2. loc' \in [Workers -> LocType]
    BY <1>1, <2>1
  <2> QED BY <1>1, <1>2, <2>2 DEF LocsOK
<1>4. ASSUME ~stale' PROVE PushOK'
  <2>0. ~stale
    BY <1>4
  <2>1. \A v \in Workers \ {w} : ~Alive(v)'
    BY <1>2, <2>0, WorkerNow DEF Alive
  <2>2. Alive(w)' <=> l.pc # "free"
    BY <1>2 DEF Alive
  <2>3. cb' # "enabled"
    BY <2>0, WorkerNow
  <2>4. Lone'
    BY <2>1, <2>3 DEF Lone
  <2>5. SessionOK'
    <3> SUFFICES ASSUME sess' # NoPkg PROVE SessionOK'
      BY DEF SessionOK
    <3>1. sess' = sess /\ line' = sess'
      BY <2>0, WorkerNow
    <3>2. pushMode' = "disabled" => PushedTo(sess, Len(Map[sess]) + 1, 0)'
      BY <2>0
    <3> QED BY <2>3, <3>1, <3>2 DEF SessionOK
  <2>6. \A v \in Workers : Alive(v)' => WorkerOK(loc[v])'
    <3>1. l.pc # "free" => WorkerOK(l)'
      BY <2>0
    <3>2. loc'[w] = l
      BY <1>2
    <3>3. l.pc # "free" => WorkerOK(loc[w])'
      BY <3>1, <3>2 DEF WorkerOK, ModeOK, AnswerOK, EntryOK
    <3> QED BY <2>1, <2>2, <3>3
  <2>7. (\A v \in Workers : ~Alive(v)') => NobodyOK'
    BY <2>0, <2>2
  <2> QED BY <2>4, <2>5, <2>6, <2>7 DEF PushOK
<1> QED BY <1>3, <1>4 DEF PushInv

-----------------------------------------------------------------------------
(* The actions of performPush *)

\* What the steps of a thread share.
LEMMA WorkerTypes ==
  ASSUME PushInv, NEW w \in Workers
  PROVE  /\ RestTypeOK /\ LocsOK /\ LocOK(loc[w]) /\ loc[w] \in LocType
         /\ loc[w].i \in Nat /\ loc[w].off \in Nat /\ loc[w].n \in 0..Buf
         /\ Buf \in Nat \ {0}
BY PushAssumption DEF PushInv, LocsOK, LocOK, LocType

\* The map is read: nothing of it is pushed.
LEMMA ReadMapInv ==
  ASSUME PushInv, NEW w \in Workers, ReadMap(w)
  PROVE  PushInv'
<1>1. RestTypeOK /\ LocsOK
  BY WorkerTypes
<1>2. /\ Alive(w) /\ loc[w].pc = "map" /\ map' = line /\ line \in Packages
      /\ UNCHANGED <<line, buf, validatePushModeStatus, cb, registered, sess, pushMode,
                     tiiReq, validated, part, failed, lost, stale>>
  BY <1>1 DEF ReadMap, Alive, tii, history, RestTypeOK
<1>3. PICK l : /\ LocOK(l) /\ loc' = [loc EXCEPT ![w] = l]
               /\ l.pc = "entry" /\ l.i = loc[w].i + 1 /\ l.off = 0
  BY <1>1, NextEntryLoc DEF ReadMap
<1>4. RestTypeOK'
  BY <1>1, <1>2 DEF RestTypeOK
<1>5. ASSUME ~stale PROVE WorkerOK(l)'
  <2>1. WorkerOK(loc[w])
    BY <1>2, <1>5, WorkerNow
  <2>2. ModeOK(l)' /\ AnswerOK(l)'
    BY <1>2, <1>3, <2>1
       DEF WorkerOK, ModeOK, AnswerOK, Asking, Validating, Writing, Verdicts
  <2>3. l.i = 1
    BY <1>2, <1>3, <2>1 DEF WorkerOK, EntryOK
  <2>4. PICK p \in Packages : p = line
    BY <1>2
  <2>6. PushedTo(p, 1, 0)'
    BY PushedNothing
  <2>5. EntryOK(l)'
    BY <1>2, <1>3, <2>3, <2>4, <2>6 DEF EntryOK, Writing, Validating, PushedTo
  <2> QED BY <2>2, <2>5 DEF WorkerOK
<1>6. ASSUME ~stale, sess' # NoPkg PROVE pushMode' # "disabled"
  BY <1>2, <1>6, WorkerNow
<1> QED BY <1>2, <1>3, <1>4, <1>5, <1>6, WorkerMoves

\* A thread that gives up has a reason: what it needs is missing, or a call failed.
LEMMA FailsInv ==
  ASSUME PushInv, NEW w \in Workers, ReadMissing(w) \/ CallFails(w)
  PROVE  PushInv'
<1>1. RestTypeOK /\ LocsOK
  BY WorkerTypes
<1>2. /\ Alive(w) /\ loc[w].pc \notin Asking /\ failed' = TRUE
      /\ Goto(w, "fail") /\ "fail" \in WorkerPlaces \ {"write"}
      /\ UNCHANGED <<line, map, buf, validatePushModeStatus, cb, registered, sess,
                     pushMode, tiiReq, validated, part, lost, stale>>
  BY DEF ReadMissing, CallFails, Alive, tii, IsAt, AtEntry, WorkerPlaces, Asking
<1>3. PICK l : /\ LocOK(l) /\ loc' = [loc EXCEPT ![w] = l]
               /\ l.pc = "fail" /\ l.i = loc[w].i /\ l.off = loc[w].off
  BY <1>1, <1>2, GotoLoc
<1>4. RestTypeOK'
  BY <1>1, <1>2 DEF RestTypeOK
<1>5. ASSUME ~stale PROVE WorkerOK(l)'
  <2>1. WorkerOK(loc[w])
    BY <1>2, <1>5, WorkerNow
  <2>2. ModeOK(l)' /\ EntryOK(l)'
    BY <1>2, <1>3, <2>1 DEF WorkerOK, ModeOK, EntryOK, Validating, Writing
  <2>3. AnswerOK(l)'
    BY <1>2, <1>3, <2>1 DEF WorkerOK, AnswerOK, Asking, Verdicts
  <2> QED BY <2>2, <2>3 DEF WorkerOK
<1>6. ASSUME ~stale, sess' # NoPkg PROVE pushMode' # "disabled"
  BY <1>2, <1>6, WorkerNow
<1> QED BY <1>2, <1>3, <1>4, <1>5, <1>6, WorkerMoves

\* The next chunk of the image is in the buffer, or there is none.
LEMMA ReadChunkInv ==
  ASSUME PushInv, NEW w \in Workers, ReadChunk(w)
  PROVE  PushInv'
<1>1. /\ RestTypeOK /\ LocsOK /\ LocOK(loc[w]) /\ loc[w] \in LocType
      /\ loc[w].i \in Nat /\ loc[w].off \in Nat /\ Buf \in Nat \ {0}
  BY WorkerTypes
<1>2. /\ Alive(w) /\ loc[w].pc = "entry" /\ loc[w].i \in Readable
      /\ UNCHANGED <<line, map, validatePushModeStatus, cb, registered, sess, pushMode,
                     tiiReq, validated, part, failed, lost, stale>>
  BY DEF ReadChunk, IsAt, AtEntry, Alive, tii, history
<1>3. PICK p \in Packages : p = line
  BY <1>1, <1>2 DEF Readable, RestTypeOK
<1> PICK i \in Nat, off \in Nat : i = loc[w].i /\ off = loc[w].off
  BY <1>1
<1>4. /\ i \in Images(p) /\ i \in 1..Len(Map[p])
      /\ Map[p][i].size \in Nat /\ Map[p][i].kind = "image"
  BY <1>2, <1>3, MapEntry DEF Readable, Images
<1>5. ASSUME ~stale, sess' # NoPkg PROVE pushMode' # "disabled"
  BY <1>2, <1>5, WorkerNow
<1>6. ~stale => WorkerOK(loc[w])
  BY <1>2, WorkerNow
<1>7. ASSUME NEW l, l.pc \in Writing, ~stale PROVE ModeOK(l)' /\ AnswerOK(l)'
  BY <1>2, <1>6, <1>7
     DEF WorkerOK, ModeOK, AnswerOK, Asking, Validating, Writing, Verdicts
<1>8. CASE Map[line][i].size - off <= 0
  <2>1. NextEntry(w) /\ buf' = buf
    BY <1>8 DEF ReadChunk
  <2>2. PICK l : /\ LocOK(l) /\ loc' = [loc EXCEPT ![w] = l]
                 /\ l.pc = "entry" /\ l.i = i + 1 /\ l.off = 0
    BY <1>1, <2>1, NextEntryLoc
  <2>3. RestTypeOK'
    BY <1>1, <1>2, <2>1 DEF RestTypeOK
  <2>4. ASSUME ~stale PROVE EntryOK(l)'
    <3>1. PushedTo(p, i, off)' /\ map = line
      BY <1>2, <1>3, <1>6, <2>4 DEF WorkerOK, EntryOK, Writing, PushedTo
    <3>2. off >= Map[p][i].size
      BY <1>1, <1>3, <1>4, <1>8
    <3>3. PushedTo(p, i + 1, 0)'
      BY <1>1, <1>4, <3>1, <3>2, PushedEntry
    <3>4. l.i > 0
      BY <1>1, <2>2
    <3> QED BY <1>2, <1>3, <2>2, <3>1, <3>3, <3>4
            DEF EntryOK, Writing, Validating, PushedTo
  <2>5. ~stale => WorkerOK(l)'
    BY <1>7, <2>2, <2>4 DEF WorkerOK, Writing
  <2> QED BY <1>2, <1>5, <2>2, <2>3, <2>5, WorkerMoves
<1>9. CASE ~(Map[line][i].size - off <= 0)
  <2> DEFINE left == Map[line][i].size - off
             k    == IF left < Buf THEN left ELSE Buf
  <2> PICK l : l = [loc[w] EXCEPT !.pc = "write", !.n = k]
    OBVIOUS
  <2>1. /\ k \in 0..Buf /\ off < Map[p][i].size
        /\ k = Buf \/ off + k = Map[p][i].size
    BY <1>1, <1>3, <1>4, <1>9
  <2>2. /\ buf' = Content(line, i, off)
        /\ loc' = [loc EXCEPT ![w].pc = "write", ![w].n = k]
    BY <1>9 DEF ReadChunk
  <2> HIDE DEF k
  <2>3. loc' = [loc EXCEPT ![w] = l]
    BY <1>1, <2>2 DEF LocsOK
  <2>4. /\ l \in LocType /\ l.pc = "write" /\ l.n = k
        /\ l.i = i /\ l.off = off
    BY <1>1, <2>1 DEF LocType, WorkerPlaces
  <2>5. off % Buf = 0
    BY <1>1 DEF LocOK
  <2>6. <<l.i, l.off>> \in Places /\ Content(p, i, off) \in Contents
    BY <1>1, <1>4, <2>1, <2>4, <2>5, ChunkOf
  <2>7. LocOK(l)
    BY <2>4, <2>5, <2>6 DEF LocOK
  <2>8. RestTypeOK'
    BY <1>1, <1>2, <1>3, <2>2, <2>6 DEF RestTypeOK
  <2>9. ASSUME ~stale PROVE EntryOK(l)'
    <3>1. PushedTo(p, i, off)' /\ map = line /\ i > 0
      BY <1>2, <1>3, <1>6, <2>9 DEF WorkerOK, EntryOK, Writing, PushedTo
    <3> QED BY <1>2, <1>3, <1>4, <2>1, <2>2, <2>4, <3>1
            DEF EntryOK, Writing, Validating, PushedTo
  <2>10. ASSUME ~stale PROVE WorkerOK(l)'
    <3>1. l.pc \in Writing
      BY <2>4 DEF Writing
    <3>2. ModeOK(l)' /\ AnswerOK(l)'
      BY <1>7, <2>10, <3>1
    <3> QED BY <2>9, <2>10, <3>2 DEF WorkerOK
  <2> QED BY <1>2, <1>5, <2>3, <2>4, <2>7, <2>8, <2>10, WorkerMoves
<1> QED BY <1>8, <1>9

\* The chunk is in its partition.
LEMMA WriteChunkInv ==
  ASSUME PushInv, NEW w \in Workers, WriteChunk(w)
  PROVE  PushInv'
<1>1. /\ RestTypeOK /\ LocsOK /\ LocOK(loc[w]) /\ loc[w] \in LocType
      /\ loc[w].i \in Nat /\ loc[w].off \in Nat /\ loc[w].n \in 0..Buf
      /\ Buf \in Nat \ {0}
  BY WorkerTypes
<1>2. /\ Alive(w) /\ loc[w].pc = "write"
      /\ part' = [part EXCEPT ![<<loc[w].i, loc[w].off>>] = buf]
      /\ UNCHANGED <<line, map, buf, validatePushModeStatus, cb, registered, sess,
                     pushMode, tiiReq, validated, failed, lost, stale>>
  BY DEF WriteChunk, Alive, tii, history
<1> PICK i \in Nat, off \in Nat : i = loc[w].i /\ off = loc[w].off
  BY <1>1
<1>3. off % Buf = 0 /\ <<i, off>> \in Places
  BY <1>1, <1>2 DEF LocOK
<1>4. RestTypeOK'
  <2>1. part' \in [Places -> Contents \union {Old}]
    BY <1>1, <1>2 DEF RestTypeOK
  <2> QED BY <1>1, <1>2, <2>1 DEF RestTypeOK
<1>5. ASSUME ~stale, sess' # NoPkg PROVE pushMode' # "disabled"
  BY <1>2, <1>5, WorkerNow
<1>6. ~stale => WorkerOK(loc[w])
  BY <1>2, WorkerNow
<1>7. ASSUME NEW l, l.pc = "entry", ~stale PROVE ModeOK(l)' /\ AnswerOK(l)'
  BY <1>2, <1>6, <1>7
     DEF WorkerOK, ModeOK, AnswerOK, Asking, Validating, Writing, Verdicts
<1>8. ASSUME ~stale
      PROVE  \E p \in Packages :
               /\ p = line /\ p = map /\ i \in Images(p) /\ i > 0
               /\ loc[w].n = Buf \/ off + loc[w].n = Map[p][i].size
               /\ PushedTo(p, i, off + Buf)'
  <2>1. /\ line \in Packages /\ map = line /\ i \in Images(line) /\ i > 0
        /\ off < Map[line][i].size
        /\ buf = Content(line, i, off)
        /\ loc[w].n = Buf \/ off + loc[w].n = Map[line][i].size
        /\ PushedTo(line, i, off)
    BY <1>2, <1>6, <1>8 DEF WorkerOK, EntryOK, Writing
  <2>2. PICK p \in Packages : p = line
    BY <2>1
  <2>3. PushedTo(p, i, off)
    BY <2>1, <2>2
  <2>4. PushedTo(p, i, off + Buf)'
    BY <1>1, <1>2, <1>3, <2>1, <2>2, <2>3, PushedChunk
  <2> QED BY <2>1, <2>2, <2>4
<1>9. CASE loc[w].n = Buf
  <2> PICK l : l = [loc[w] EXCEPT !.pc = "entry", !.off = loc[w].off + Buf, !.n = 0]
    OBVIOUS
  <2>1. loc' = [loc EXCEPT ![w] = l]
    BY <1>1, <1>9 DEF WriteChunk, LocsOK
  <2>2. off + Buf \in Nat /\ 0 \in 0..Buf
    BY <1>1
  <2>3. /\ l \in LocType /\ l.pc = "entry" /\ l.i = i
        /\ l.off = off + Buf
    BY <1>1, <2>2 DEF LocType, WorkerPlaces
  <2>4. LocOK(l)
    BY <1>1, <1>3, <2>3, NextBoundary DEF LocOK
  <2>5. ~stale => EntryOK(l)'
    BY <1>2, <1>8, <2>3 DEF EntryOK, Writing, Validating, PushedTo
  <2>6. ~stale => WorkerOK(l)'
    BY <1>7, <2>3, <2>5 DEF WorkerOK
  <2> QED BY <1>2, <1>4, <1>5, <2>1, <2>3, <2>4, <2>6, WorkerMoves
<1>10. CASE loc[w].n # Buf
  <2>1. PICK l : /\ LocOK(l) /\ loc' = [loc EXCEPT ![w] = l]
                 /\ l.pc = "entry" /\ l.i = i + 1 /\ l.off = 0
    BY <1>1, <1>10, NextEntryLoc DEF WriteChunk
  <2>2. ASSUME ~stale PROVE EntryOK(l)'
    <3>1. PICK p \in Packages :
            /\ p = line /\ p = map /\ i \in Images(p)
            /\ loc[w].n = Buf \/ off + loc[w].n = Map[p][i].size
            /\ PushedTo(p, i, off + Buf)'
      BY <1>8, <2>2
    <3>2. Map[p][i].size \in Nat /\ Map[p][i].kind = "image"
      BY <3>1, MapEntry DEF Images
    <3>3. off + Buf \in Nat /\ off + Buf >= Map[p][i].size
      BY <1>1, <1>10, <3>1, <3>2
    <3>4. PushedTo(p, i + 1, 0)'
      BY <3>1, <3>2, <3>3, PushedEntry
    <3>5. l.i > 0
      BY <2>1
    <3> QED BY <1>2, <2>1, <3>1, <3>4, <3>5 DEF EntryOK, Writing, Validating, PushedTo
  <2>3. ~stale => WorkerOK(l)'
    BY <1>7, <2>1, <2>2 DEF WorkerOK
  <2> QED BY <1>2, <1>4, <1>5, <2>1, <2>3, WorkerMoves
<1> QED BY <1>9, <1>10

\* A validation is announced, and asked for.
LEMMA StartInv ==
  ASSUME PushInv, NEW w \in Workers, StartValidation(w) \/ SendJson(w)
  PROVE  PushInv'
<1>1. RestTypeOK /\ LocsOK /\ loc[w].i \in Nat
  BY WorkerTypes
<1>2. /\ Alive(w) /\ loc[w].pc \notin Asking
      /\ UNCHANGED <<line, map, buf, cb, registered, sess, validated, part, failed,
                     lost, stale>>
  BY DEF StartValidation, SendJson, Alive, history, IsAt, AtEntry, Asking
<1>3. ~stale => WorkerOK(loc[w])
  BY <1>2, WorkerNow
<1>4. CASE StartValidation(w)
  <2>1. /\ pushMode' = "validating" /\ validatePushModeStatus' = "INPROGRESS"
        /\ tiiReq' = tiiReq /\ Goto(w, "json") /\ "json" \in WorkerPlaces \ {"write"}
        /\ loc[w].pc = "entry" /\ loc[w].i <= Len(Map[map])
        /\ Map[map][loc[w].i].kind = "validate"
    BY <1>4 DEF StartValidation, IsAt, AtEntry, WorkerPlaces
  <2>2. PICK l : /\ LocOK(l) /\ loc' = [loc EXCEPT ![w] = l]
                 /\ l.pc = "json" /\ l.i = loc[w].i /\ l.off = loc[w].off
    BY <1>1, <2>1, GotoLoc
  <2>3. RestTypeOK'
    BY <1>1, <1>2, <2>1 DEF RestTypeOK
  <2>4. ASSUME ~stale PROVE WorkerOK(l)'
    <3>1. ModeOK(l)'
      BY <2>1, <2>2 DEF ModeOK, Writing
    <3>2. AnswerOK(l)'
      BY <1>2, <1>3, <2>1, <2>2, <2>4
         DEF WorkerOK, AnswerOK, Asking, Verdicts
    <3>3. /\ map = line /\ line \in Packages /\ loc[w].i > 0
          /\ PushedTo(line, loc[w].i, loc[w].off)
      BY <1>3, <2>1, <2>4 DEF WorkerOK, EntryOK, Writing
    <3>4. loc[w].i \in 1..Len(Map[line])
      BY <1>1, <2>1, <3>3, MapEntry
    <3>5. EntryOK(l)'
      BY <1>2, <2>1, <2>2, <3>3, <3>4 DEF EntryOK, PushedTo
    <3> QED BY <3>1, <3>2, <3>5 DEF WorkerOK
  <2> QED BY <1>2, <2>1, <2>2, <2>3, <2>4, WorkerMoves
<1>5. CASE SendJson(w)
  <2>1. /\ UNCHANGED <<pushMode, validatePushModeStatus>> /\ tiiReq' = loc[w].i
        /\ Goto(w, "test") /\ "test" \in WorkerPlaces \ {"write"} /\ loc[w].pc = "json"
    BY <1>5 DEF SendJson, WorkerPlaces
  <2>2. PICK l : /\ LocOK(l) /\ loc' = [loc EXCEPT ![w] = l]
                 /\ l.pc = "test" /\ l.i = loc[w].i /\ l.off = loc[w].off
    BY <1>1, <2>1, GotoLoc
  <2>3. RestTypeOK'
    BY <1>1, <1>2, <2>1 DEF RestTypeOK
  <2>4. ASSUME ~stale PROVE WorkerOK(l)'
    <3>1. ModeOK(l)'
      BY <1>2, <1>3, <2>1, <2>2, <2>4 DEF WorkerOK, ModeOK, Writing, Validating
    <3>2. AnswerOK(l)'
      BY <1>2, <1>3, <2>1, <2>2, <2>4 DEF WorkerOK, AnswerOK, Asking, Verdicts
    <3>3. EntryOK(l)'
      BY <1>2, <1>3, <2>1, <2>2, <2>4
         DEF WorkerOK, EntryOK, PushedTo, Validating
    <3> QED BY <3>1, <3>2, <3>3 DEF WorkerOK
  <2>5. ASSUME ~stale, sess' # NoPkg PROVE pushMode' # "disabled"
    BY <1>2, <2>1, <2>5, WorkerNow
  <2> QED BY <1>2, <2>1, <2>2, <2>3, <2>4, <2>5, WorkerMoves
<1> QED BY <1>4, <1>5

\* The thread tests, waits, wakes up and takes the verdict.
LEMMA WaitInv ==
  ASSUME PushInv, NEW w \in Workers, Test(w) \/ Wait(w) \/ WakesUp(w) \/ Verdict(w)
  PROVE  PushInv'
<1>1. RestTypeOK /\ LocsOK
  BY WorkerTypes
<1>2. /\ Alive(w) /\ loc[w].pc \in Validating \ {"json", "enable"}
      /\ UNCHANGED <<line, map, buf, cb, registered, sess, validated, part, failed,
                     lost, stale, pushMode, tiiReq, validatePushModeStatus>>
  BY DEF Test, Wait, WakesUp, Verdict, Alive, history, tii, Validating
<1>3. PICK place \in {"test", "tested", "wait", "verdict", "enable", "fail"} :
        /\ Goto(w, place)
        /\ place \in Asking => loc[w].pc \in Asking
        /\ place = "verdict" => /\ loc[w].pc \in Asking
                                /\ validatePushModeStatus # "INPROGRESS"
        /\ place = "enable" => /\ loc[w].pc = "verdict"
                               /\ validatePushModeStatus = "SUCCESS"
        /\ place = "fail" => /\ loc[w].pc = "verdict"
                             /\ validatePushModeStatus # "SUCCESS"
  <2>1. CASE Test(w)
    BY <2>1 DEF Test, Asking
  <2>2. CASE Wait(w)
    BY <2>2 DEF Wait, Asking
  <2>3. CASE WakesUp(w)
    BY <2>3 DEF WakesUp, Wakes, Goto, Asking
  <2>4. CASE Verdict(w)
    BY <2>4 DEF Verdict, Asking
  <2> QED BY <2>1, <2>2, <2>3, <2>4
<1>4. place \in WorkerPlaces \ {"write"}
  BY DEF WorkerPlaces
<1>5. PICK l : /\ LocOK(l) /\ loc' = [loc EXCEPT ![w] = l]
               /\ l.pc = place /\ l.i = loc[w].i /\ l.off = loc[w].off
  BY <1>1, <1>3, <1>4, GotoLoc
<1>6. RestTypeOK'
  BY <1>1, <1>2 DEF RestTypeOK
<1>7. ASSUME ~stale PROVE WorkerOK(l)'
  <2>1. WorkerOK(loc[w])
    BY <1>2, <1>7, WorkerNow
  <2>2. ModeOK(l)'
    BY <1>2, <1>5, <2>1 DEF WorkerOK, ModeOK, Writing, Validating
  <2>3. EntryOK(l)'
    BY <1>2, <1>5, <2>1 DEF WorkerOK, EntryOK, PushedTo, Validating, Writing
  <2>4. AnswerOK(l)'
    BY <1>1, <1>2, <1>3, <1>5, <2>1
       DEF WorkerOK, AnswerOK, Asking, Verdicts, Validating, RestTypeOK
  <2> QED BY <2>2, <2>3, <2>4 DEF WorkerOK
<1>8. ASSUME ~stale, sess' # NoPkg PROVE pushMode' # "disabled"
  BY <1>2, <1>8, WorkerNow
<1> QED BY <1>2, <1>5, <1>6, <1>7, <1>8, WorkerMoves

\* The next entry after a validation or a reload.
LEMMA EnableInv ==
  ASSUME PushInv, NEW w \in Workers, Enable(w) \/ Reload(w)
  PROVE  PushInv'
<1>1. RestTypeOK /\ LocsOK /\ loc[w].i \in Nat /\ loc[w].off \in Nat
  BY WorkerTypes
<1>2. /\ Alive(w) /\ loc[w].pc \in {"entry", "enable"} /\ NextEntry(w)
      /\ UNCHANGED <<line, map, buf, cb, registered, sess, validated, part, failed,
                     lost, stale, tiiReq, validatePushModeStatus>>
      /\ pushMode' \in {pushMode, "enabled"}
      /\ loc[w].pc = "enable" => pushMode' = "enabled"
      /\ loc[w].pc = "entry" => Map[map][loc[w].i].kind = "reload" /\ pushMode' = pushMode
  BY DEF Enable, Reload, IsAt, AtEntry, Alive, history, tii
<1>3. PICK l : /\ LocOK(l) /\ loc' = [loc EXCEPT ![w] = l]
               /\ l.pc = "entry" /\ l.i = loc[w].i + 1 /\ l.off = 0
  BY <1>1, <1>2, NextEntryLoc
<1>4. RestTypeOK'
  <2>1. pushMode' \in {"off", "enabled", "validating", "disabled"}
    BY <1>1, <1>2 DEF RestTypeOK
  <2> QED BY <1>1, <1>2, <2>1 DEF RestTypeOK
<1>5. ASSUME ~stale PROVE WorkerOK(l)'
  <2>1. WorkerOK(loc[w])
    BY <1>2, <1>5, WorkerNow
  <2>2. ModeOK(l)'
    BY <1>2, <1>3, <2>1 DEF WorkerOK, ModeOK, Writing, Validating
  <2>3. AnswerOK(l)'
    BY <1>2, <1>3, <2>1 DEF WorkerOK, AnswerOK, Asking, Verdicts
  <2>4. PICK p \in Packages, i \in Nat, off \in Nat :
          /\ p = line /\ i = loc[w].i /\ off = loc[w].off /\ i > 0 /\ map = line
          /\ PushedTo(p, i, off)
    BY <1>1, <1>2, <2>1 DEF WorkerOK, EntryOK, Writing, Validating
  <2>5. /\ i \notin Images(p)
        /\ Map[p][i].kind = "validate" => i \in validated
    BY <1>2, <2>1, <2>4 DEF WorkerOK, EntryOK, AnswerOK, Validating, Images
  <2>6. PushedTo(p, i, off)'
    BY <1>2, <2>4 DEF PushedTo
  <2>7. PushedTo(p, i + 1, 0)'
    BY <1>2, <2>5, <2>6, PushedEntry
  <2>8. EntryOK(l)'
    BY <1>2, <1>3, <2>4, <2>7 DEF EntryOK, Writing, Validating, PushedTo
  <2> QED BY <2>2, <2>3, <2>8 DEF WorkerOK
<1>6. ASSUME ~stale, sess' # NoPkg PROVE pushMode' # "disabled"
  BY <1>2, <1>6, WorkerNow
<1> QED BY <1>2, <1>3, <1>4, <1>5, <1>6, WorkerMoves

\* The thread ends: everything is pushed, or the update is aborted.
LEMMA EndInv ==
  ASSUME PushInv, NEW w \in Workers, Disable(w) \/ Abort(w)
  PROVE  PushInv'
<1>1. RestTypeOK /\ LocsOK /\ loc[w].i \in Nat /\ loc[w].off \in Nat
  BY WorkerTypes
<1>2. /\ Alive(w) /\ loc[w].pc \in {"entry", "fail"}
      /\ loc' = [loc EXCEPT ![w] = Free]
      /\ UNCHANGED <<line, map, buf, cb, registered, validated, part, failed,
                     lost, stale, validatePushModeStatus>>
      /\ \/ UNCHANGED <<sess, tiiReq>> /\ pushMode' \in {"disabled", pushMode}
         \/ sess' = NoPkg /\ pushMode' = "off" /\ tiiReq' = 0
      /\ sess' # NoPkg /\ pushMode' # pushMode =>
           loc[w].pc = "entry" /\ ~(loc[w].i <= Len(Map[map]))
  BY DEF Disable, Abort, IsAt, AtEntry, Alive, history, tii
<1>3. RestTypeOK'
  <2>1. /\ pushMode' \in {"off", "enabled", "validating", "disabled"}
        /\ sess' \in Packages \union {NoPkg} /\ tiiReq' \in Nat
    BY <1>1, <1>2 DEF RestTypeOK
  <2> QED BY <1>1, <1>2, <2>1 DEF RestTypeOK
<1>4. ASSUME ~stale
      PROVE  /\ NobodyOK'
             /\ sess' = sess \/ sess' = NoPkg
             /\ sess' # NoPkg /\ pushMode' = "disabled" =>
                  PushedTo(sess, Len(Map[sess]) + 1, 0)'
  <2>1. WorkerOK(loc[w])
    BY <1>2, <1>4, WorkerNow
  <2>2. NobodyOK'
    BY <1>2, <2>1 DEF WorkerOK, AnswerOK, NobodyOK, Asking, Verdicts
  <2>3. ASSUME sess' # NoPkg, pushMode' = "disabled"
        PROVE  PushedTo(sess, Len(Map[sess]) + 1, 0)'
    <3>1. sess' = sess /\ line = sess /\ pushMode # "disabled"
      BY <1>2, <1>4, <2>3, WorkerNow
    <3>2. loc[w].pc = "entry" /\ ~(loc[w].i <= Len(Map[map]))
      BY <1>2, <2>3, <3>1
    <3>3. PICK p \in Packages, i \in Nat, off \in Nat :
            /\ p = line /\ i = loc[w].i /\ off = loc[w].off /\ map = line
            /\ PushedTo(p, i, off)
      BY <1>1, <2>1, <3>2 DEF WorkerOK, EntryOK, Writing
    <3>4. i > Len(Map[p])
      BY <3>2, <3>3, MapEntry
    <3>5. PushedTo(p, i, off)'
      BY <1>2, <3>3 DEF PushedTo
    <3>6. PushedTo(p, Len(Map[p]) + 1, 0)'
      BY <3>4, <3>5, PushedAll
    <3> QED BY <3>1, <3>3, <3>6 DEF PushedTo
  <2> QED BY <1>2, <2>2, <2>3
<1> QED BY <1>2, <1>3, <1>4, FreeLoc, WorkerMoves

-----------------------------------------------------------------------------
(* The other actions *)

\* Steps that leave the threads where they are.
LEMMA LocsStay == LocsOK /\ loc' = loc => LocsOK'
BY DEF LocsOK

\* Nothing is there when an update begins.
LEMMA PushInit == Init => PushInv
<1> SUFFICES ASSUME Init PROVE PushInv
  OBVIOUS
<1> USE DEF Init
<1>1. RestTypeOK
  BY DEF RestTypeOK
<1>2. LocsOK
  BY FreeLoc DEF LocsOK, LocOK
<1>3. \A w \in Workers : ~Alive(w)
  BY DEF Alive, Free
<1>4. PushOK
  BY <1>3 DEF PushOK, Lone, SessionOK, NobodyOK, Verdicts
<1> QED BY <1>1, <1>2, <1>4 DEF PushInv

\* The command prompt.
LEMMA PromptInv ==
  ASSUME PushInv, TypeCommand \/ AbortDeploy \/ \E p \in Packages : Deploy(p)
  PROVE  PushInv'
<1>1. RestTypeOK /\ LocsOK /\ (~stale => PushOK)
  BY DEF PushInv
<1>2. loc' = loc /\ LocsOK'
  BY <1>1, LocsStay DEF TypeCommand, AbortDeploy, Deploy, client
<1>3. CASE TypeCommand
  BY <1>1, <1>2, <1>3 DEF TypeCommand, PushInv, RestTypeOK, tii
<1>4. CASE AbortDeploy
  <2>1. /\ sess' = NoPkg /\ pushMode' = "off" /\ tiiReq' = 0 /\ registered' = FALSE
        /\ UNCHANGED <<line, map, buf, validatePushModeStatus, cb, part, validated,
                       failed, lost, stale>>
    BY <1>4 DEF AbortDeploy, client, history
  <2>2. RestTypeOK'
    BY <1>1, <2>1 DEF RestTypeOK
  <2>3. ASSUME ~stale' PROVE PushOK'
    <3>1. PushOK
      BY <1>1, <2>1, <2>3
    <3>2. Lone' /\ SessionOK'
      BY <1>2, <2>1, <3>1 DEF PushOK, Lone, Alive, SessionOK
    <3>3. ASSUME NEW w \in Workers, Alive(w)' PROVE WorkerOK(loc[w])'
      <4>1. WorkerOK(loc[w])
        BY <1>2, <3>1, <3>3 DEF PushOK, Alive
      <4> QED BY <1>2, <2>1, <4>1 DEF WorkerOK, ModeOK, AnswerOK, EntryOK, PushedTo
    <3>4. (\A w \in Workers : ~Alive(w)') => NobodyOK'
      BY <1>2, <2>1, <3>1 DEF PushOK, Alive, NobodyOK
    <3> QED BY <3>2, <3>3, <3>4 DEF PushOK
  <2> QED BY <1>2, <2>2, <2>3 DEF PushInv
<1>5. ASSUME NEW p \in Packages, Deploy(p) PROVE PushInv'
  <2>1. /\ line' = p /\ sess' = p /\ registered' = TRUE /\ pushMode' = "off"
        /\ tiiReq' = 0 /\ part' = [c \in Places |-> Old] /\ validated' = {}
        /\ failed' = FALSE /\ lost' = FALSE /\ stale' = (SomeAlive \/ cb # "none")
        /\ UNCHANGED <<map, buf, validatePushModeStatus, cb>>
    BY <1>5 DEF Deploy
  <2>2. stale' \in BOOLEAN /\ part' \in [Places -> Contents \union {Old}]
    BY <2>1
  <2>3. RestTypeOK'
    BY <1>1, <2>1, <2>2 DEF RestTypeOK
  <2>4. ASSUME ~stale' PROVE PushOK'
    <3>1. cb' = "none" /\ \A w \in Workers : ~Alive(w)'
      BY <1>2, <2>1, <2>4 DEF SomeAlive, Alive
    <3> QED BY <2>1, <3>1 DEF PushOK, Lone, SessionOK, NobodyOK, Verdicts
  <2> QED BY <1>2, <2>3, <2>4 DEF PushInv
<1> QED BY <1>3, <1>4, <1>5

\* DU TII and DU Master.
LEMMA TiiInv ==
  ASSUME PushInv, TiiStep
  PROVE  PushInv'
<1>1. RestTypeOK /\ LocsOK /\ (~stale => PushOK)
  BY DEF PushInv
<1>2. loc' = loc /\ LocsOK'
  BY <1>1, LocsStay DEF TiiStep, TiiEnables, TiiValidates, MasterEnds, client
<1>3. CASE TiiEnables
  <2>1. /\ sess # NoPkg /\ pushMode = "off" /\ pushMode' = "enabled" /\ cb' = "enabled"
        /\ cb = "none"
        /\ UNCHANGED <<line, map, buf, validatePushModeStatus, registered, sess, tiiReq,
                       part, validated, failed, lost, stale>>
    BY <1>3 DEF TiiEnables, client, history
  <2>2. RestTypeOK'
    BY <1>1, <2>1 DEF RestTypeOK
  <2>3. ASSUME ~stale' PROVE PushOK'
    <3>1. \A w \in Workers : ~Alive(w)
      BY <2>1, <2>3, WorkerNow
    <3>2. \A w \in Workers : ~Alive(w)'
      BY <1>2, <3>1 DEF Alive
    <3>3. SessionOK'
      BY <1>1, <2>1, <2>3 DEF PushOK, SessionOK
    <3>4. NobodyOK'
      BY <1>1, <2>1, <2>3, <3>1 DEF PushOK, NobodyOK, Verdicts
    <3> QED BY <3>2, <3>3, <3>4 DEF PushOK, Lone
  <2> QED BY <1>2, <2>2, <2>3 DEF PushInv
<1>4. CASE TiiValidates
  <2>1. /\ tiiReq # 0 /\ tiiReq' = 0
        /\ \/ /\ cb' = "validateSuccess" /\ validated' = validated \union {tiiReq}
              /\ failed' = failed
           \/ cb' = "validateFail" /\ failed' = TRUE /\ validated' = validated
        /\ UNCHANGED <<line, map, buf, validatePushModeStatus, registered, sess, pushMode,
                       part, lost, stale>>
    BY <1>4 DEF TiiValidates, client
  <2>2. validated' \subseteq Nat /\ validated \subseteq validated' /\ failed' \in BOOLEAN
    BY <1>1, <2>1 DEF RestTypeOK
  <2>3. RestTypeOK'
    BY <1>1, <2>1, <2>2 DEF RestTypeOK
  <2>4. ASSUME ~stale' PROVE PushOK'
    <3>1. PushOK
      BY <1>1, <2>1, <2>4
    <3>2. Lone' /\ SessionOK'
      BY <1>2, <2>1, <2>2, <3>1 DEF PushOK, Lone, Alive, SessionOK, PushedTo
    <3>3. ASSUME NEW w \in Workers, Alive(w)' PROVE WorkerOK(loc[w])'
      <4>1. WorkerOK(loc[w])
        BY <1>2, <3>1, <3>3 DEF PushOK, Alive
      <4>2. ModeOK(loc[w])'
        BY <1>2, <2>1, <4>1 DEF WorkerOK, ModeOK
      <4>3. EntryOK(loc[w])'
        BY <1>2, <2>1, <2>2, <4>1 DEF WorkerOK, EntryOK, PushedTo
      <4>4. AnswerOK(loc[w])'
        BY <1>2, <2>1, <2>2, <4>1 DEF WorkerOK, AnswerOK, Asking, Verdicts
      <4> QED BY <4>2, <4>3, <4>4 DEF WorkerOK
    <3>4. ~(\A w \in Workers : ~Alive(w)')
      BY <1>2, <2>1, <3>1 DEF PushOK, Alive, NobodyOK
    <3> QED BY <3>2, <3>3, <3>4 DEF PushOK
  <2> QED BY <1>2, <2>3, <2>4 DEF PushInv
<1>5. CASE MasterEnds
  <2>1. /\ sess # NoPkg /\ pushMode = "disabled"
        /\ sess' = NoPkg /\ pushMode' = "off" /\ tiiReq' = 0
        /\ UNCHANGED <<line, map, buf, validatePushModeStatus, cb, registered, part,
                       validated, failed, lost, stale>>
    BY <1>5 DEF MasterEnds, client, history
  <2>2. RestTypeOK'
    BY <1>1, <2>1 DEF RestTypeOK
  <2>3. ASSUME ~stale' PROVE PushOK'
    <3>1. \A w \in Workers : ~Alive(w)
      BY <2>1, <2>3, WorkerNow
    <3>2. \A w \in Workers : ~Alive(w)'
      BY <1>2, <3>1 DEF Alive
    <3>3. NobodyOK'
      BY <1>1, <2>1, <2>3, <3>1 DEF PushOK, NobodyOK
    <3> QED BY <2>1, <3>2, <3>3 DEF PushOK, Lone, SessionOK
  <2> QED BY <1>2, <2>2, <2>3 DEF PushInv
<1> QED BY <1>3, <1>4, <1>5 DEF TiiStep

\* pushCB starts a thread, ...
LEMMA CbEnabledInv ==
  ASSUME PushInv, CbEnabled
  PROVE  PushInv'
<1>1. RestTypeOK /\ LocsOK /\ (~stale => PushOK)
  BY DEF PushInv
<1>2. /\ cb = "enabled" /\ cb' = "none" /\ stale' = (stale \/ SomeAlive)
      /\ UNCHANGED <<line, map, buf, validatePushModeStatus, registered, sess, pushMode,
                     tiiReq, validated, part, failed, lost>>
  BY DEF CbEnabled, tii
<1>3. RestTypeOK'
  <2>1. stale' \in BOOLEAN
    BY <1>2
  <2> QED BY <1>1, <1>2, <2>1 DEF RestTypeOK
<1>4. CASE loc' = loc
  <2>1. LocsOK'
    BY <1>1, <1>4, LocsStay
  <2>2. ASSUME ~stale' PROVE PushOK'
    <3>1. PushOK /\ \A w \in Workers : ~Alive(w) /\ ~Alive(w)'
      BY <1>1, <1>2, <1>4, <2>2 DEF SomeAlive, Alive
    <3> QED BY <1>2, <3>1 DEF PushOK, Lone, SessionOK, NobodyOK, PushedTo, Verdicts
  <2> QED BY <1>3, <2>1, <2>2 DEF PushInv
<1>5. ASSUME NEW w \in Workers, ~Alive(w),
             loc' = [loc EXCEPT ![w] = [Free EXCEPT !.pc = "map"]]
      PROVE  PushInv'
  <2>1. PICK l : l = [Free EXCEPT !.pc = "map"]
    OBVIOUS
  <2>2. Free \in LocType /\ Free.off % Buf = 0
    BY FreeLoc DEF LocOK
  <2>3. l \in LocType /\ l.pc = "map" /\ l.off = Free.off
    BY <2>1, <2>2 DEF LocType, WorkerPlaces
  <2>4. l.i = 0
    BY <2>1 DEF Free
  <2>5. LocOK(l)
    BY <2>2, <2>3 DEF LocOK
  <2>6. loc \in [Workers -> LocType] /\ \A v \in Workers : LocOK(loc[v])
    BY <1>1 DEF LocsOK
  <2>7. loc' = [loc EXCEPT ![w] = l]
    BY <1>5, <2>1
  <2>8. \A v \in Workers : loc'[v] = IF v = w THEN l ELSE loc[v]
    BY <2>6, <2>7
  <2>9. loc' \in [Workers -> LocType]
    BY <2>3, <2>6, <2>7
  <2>10. LocsOK'
    BY <2>5, <2>6, <2>8, <2>9 DEF LocsOK
  <2>11. ASSUME ~stale' PROVE PushOK'
    <3>1. PushOK /\ \A v \in Workers : ~Alive(v)
      BY <1>1, <1>2, <2>11 DEF SomeAlive
    <3>2. \A v \in Workers : Alive(v)' <=> v = w
      BY <2>3, <2>8, <3>1 DEF Alive
    <3>3. Lone' /\ SessionOK'
      BY <1>2, <3>1, <3>2 DEF PushOK, Lone, SessionOK, PushedTo
    <3>4. ModeOK(l)'
      BY <1>2, <2>3, <3>1 DEF PushOK, SessionOK, ModeOK, Validating
    <3>5. AnswerOK(l)'
      BY <1>2, <2>3, <3>1 DEF PushOK, NobodyOK, AnswerOK, Asking, Verdicts
    <3>6. EntryOK(l)'
      BY <2>3, <2>4 DEF EntryOK, Writing, Validating
    <3>7. loc'[w] = l
      BY <2>8
    <3>8. WorkerOK(loc[w])'
      BY <3>4, <3>5, <3>6, <3>7 DEF WorkerOK, ModeOK, AnswerOK, EntryOK
    <3> QED BY <3>2, <3>3, <3>8 DEF PushOK
  <2> QED BY <1>3, <2>10, <2>11 DEF PushInv
<1> QED BY <1>4, <1>5 DEF CbEnabled

\* ... stores the verdict, and signals it.
LEMMA CbVerdictInv ==
  ASSUME PushInv, CbStore \/ CbSignal
  PROVE  PushInv'
<1>1. RestTypeOK /\ LocsOK /\ (~stale => PushOK)
  BY DEF PushInv
<1>2. CASE CbStore
  <2>1. /\ cb \in Verdicts /\ cb' = "signal"
        /\ validatePushModeStatus' = IF cb = "validateSuccess" THEN "SUCCESS" ELSE "FAIL"
        /\ UNCHANGED <<line, map, buf, loc, registered, sess, pushMode, tiiReq, validated,
                       part, failed, lost, stale>>
    BY <1>2 DEF CbStore, tii, history, Verdicts
  <2>2. RestTypeOK' /\ LocsOK'
    BY <1>1, <2>1, LocsStay DEF RestTypeOK
  <2>3. ASSUME ~stale' PROVE PushOK'
    <3>1. PushOK
      BY <1>1, <2>1, <2>3
    <3>2. Lone' /\ SessionOK'
      BY <2>1, <3>1 DEF PushOK, Lone, Alive, SessionOK, PushedTo
    <3>3. ASSUME NEW w \in Workers, Alive(w)' PROVE WorkerOK(loc[w])'
      <4>1. WorkerOK(loc[w])
        BY <2>1, <3>1, <3>3 DEF PushOK, Alive
      <4>2. ModeOK(loc[w])' /\ EntryOK(loc[w])'
        BY <2>1, <4>1 DEF WorkerOK, ModeOK, EntryOK, PushedTo
      <4>3. AnswerOK(loc[w])'
        BY <2>1, <4>1 DEF WorkerOK, AnswerOK, Asking, Verdicts
      <4> QED BY <4>2, <4>3 DEF WorkerOK
    <3>4. ~(\A w \in Workers : ~Alive(w)')
      BY <2>1, <3>1 DEF PushOK, Alive, NobodyOK
    <3> QED BY <3>2, <3>3, <3>4 DEF PushOK
  <2> QED BY <2>2, <2>3 DEF PushInv
<1>3. CASE CbSignal
  <2>1. /\ cb = "signal" /\ cb' = "none" /\ lost' \in BOOLEAN
        /\ UNCHANGED <<line, map, buf, validatePushModeStatus, registered, sess, pushMode,
                       tiiReq, validated, part, failed, stale>>
    BY <1>1, <1>3 DEF CbSignal, tii, RestTypeOK
  <2>2. RestTypeOK'
    BY <1>1, <2>1 DEF RestTypeOK
  <2>3. CASE loc' = loc
    <3>1. LocsOK'
      BY <1>1, <2>3, LocsStay
    <3>2. ASSUME ~stale' PROVE PushOK'
      <4>1. PushOK
        BY <1>1, <2>1, <3>2
      <4>2. Lone' /\ SessionOK' /\ ((\A w \in Workers : ~Alive(w)') => NobodyOK')
        BY <2>1, <2>3, <4>1
           DEF PushOK, Lone, Alive, SessionOK, PushedTo, NobodyOK, Verdicts
      <4>3. ASSUME NEW w \in Workers, Alive(w)' PROVE WorkerOK(loc[w])'
        <5>1. WorkerOK(loc[w])
          BY <2>3, <4>1, <4>3 DEF PushOK, Alive
        <5> QED BY <2>1, <2>3, <5>1
                DEF WorkerOK, ModeOK, EntryOK, PushedTo, AnswerOK, Asking, Verdicts
      <4> QED BY <4>2, <4>3 DEF PushOK
    <3> QED BY <2>2, <3>1, <3>2 DEF PushInv
  <2>4. ASSUME NEW w \in Workers, loc[w].pc = "wait", Goto(w, "test") PROVE PushInv'
    <3>1. PICK l : /\ LocOK(l) /\ loc' = [loc EXCEPT ![w] = l]
                   /\ l.pc = "test" /\ l.i = loc[w].i /\ l.off = loc[w].off
      BY <1>1, <2>4, GotoLoc DEF WorkerPlaces
    <3>2. loc \in [Workers -> LocType] /\ \A v \in Workers : LocOK(loc[v])
      BY <1>1 DEF LocsOK
    <3>3. \A v \in Workers : loc'[v] = IF v = w THEN l ELSE loc[v]
      BY <3>1, <3>2
    <3>4. l \in LocType
      BY <3>1 DEF LocOK
    <3>5. loc' \in [Workers -> LocType]
      BY <3>1, <3>2, <3>4
    <3>6. LocsOK'
      BY <3>1, <3>2, <3>3, <3>5 DEF LocsOK
    <3>7. ASSUME ~stale' PROVE PushOK'
      <4>1. PushOK /\ \A v \in Workers : Alive(v)' <=> Alive(v)
        BY <1>1, <2>1, <2>4, <3>1, <3>3, <3>7 DEF Alive
      <4>2. Lone' /\ SessionOK' /\ ((\A v \in Workers : ~Alive(v)') => NobodyOK')
        BY <2>1, <4>1 DEF PushOK, Lone, SessionOK, PushedTo, NobodyOK, Verdicts
      <4>3. ASSUME NEW v \in Workers, Alive(v)' PROVE WorkerOK(loc[v])'
        <5>1. WorkerOK(loc[v]) /\ (v = w => loc[v].pc = "wait")
          BY <2>4, <4>1, <4>3 DEF PushOK
        <5>2. CASE v = w
          <6>1. loc'[v] = l
            BY <3>3, <5>2
          <6>2. ModeOK(loc[v])'
            BY <2>1, <3>1, <5>1, <5>2, <6>1
               DEF WorkerOK, ModeOK, Validating, Writing
          <6>3. AnswerOK(loc[v])'
            BY <2>1, <3>1, <5>1, <5>2, <6>1 DEF WorkerOK, AnswerOK, Asking, Verdicts
          <6>4. EntryOK(loc[v])'
            BY <2>1, <3>1, <5>1, <5>2, <6>1
               DEF WorkerOK, EntryOK, PushedTo, Validating, Writing
          <6> QED BY <6>2, <6>3, <6>4 DEF WorkerOK
        <5>3. CASE v # w
          <6>1. loc'[v] = loc[v]
            BY <3>3, <5>3
          <6> QED BY <2>1, <5>1, <6>1
                  DEF WorkerOK, ModeOK, EntryOK, PushedTo, AnswerOK, Asking, Verdicts
        <5> QED BY <5>2, <5>3
      <4> QED BY <4>2, <4>3 DEF PushOK
    <3> QED BY <2>2, <3>6, <3>7 DEF PushInv
  <2> QED BY <1>3, <2>3, <2>4 DEF CbSignal, Waiting, Wakes, Goto
<1> QED BY <1>2, <1>3

-----------------------------------------------------------------------------
(* The theorems *)

\* Every step preserves the invariant.
LEMMA PushNext == PushInv /\ [Next]_vars => PushInv'
<1> SUFFICES ASSUME PushInv, [Next]_vars PROVE PushInv'
  OBVIOUS
<1>1. CASE TypeCommand \/ AbortDeploy \/ \E p \in Packages : Deploy(p)
  BY <1>1, PromptInv
<1>2. CASE TiiStep
  BY <1>2, TiiInv
<1>3. CASE CbStep
  BY <1>3, CbEnabledInv, CbVerdictInv DEF CbStep
<1>4. ASSUME NEW w \in Workers, PushStep(w) \/ CallFails(w) \/ WakesUp(w)
      PROVE  PushInv'
  BY <1>4, ReadMapInv, ReadChunkInv, FailsInv, WriteChunkInv, StartInv, WaitInv,
     EnableInv, EndInv DEF PushStep
<1>5. CASE UNCHANGED vars
  <2>1. UNCHANGED <<line, map, buf, validatePushModeStatus, loc, cb, registered, sess,
                    pushMode, tiiReq, validated, part, failed, lost, stale>>
    BY <1>5 DEF vars, client, tii, history
  <2>2. RestTypeOK /\ LocsOK /\ (~stale => PushOK)
    BY DEF PushInv
  <2>3. RestTypeOK' /\ LocsOK'
    BY <2>1, <2>2, LocsStay DEF RestTypeOK
  <2>4. ASSUME ~stale PROVE PushOK'
    <3>1. Lone' /\ SessionOK' /\ ((\A w \in Workers : ~Alive(w)') => NobodyOK')
      BY <2>1, <2>2, <2>4 DEF PushOK, Lone, Alive, SessionOK, PushedTo, NobodyOK
    <3>2. ASSUME NEW w \in Workers, Alive(w)' PROVE WorkerOK(loc[w])'
      <4>1. WorkerOK(loc[w])
        BY <2>1, <2>2, <2>4, <3>2 DEF PushOK, Alive
      <4> QED BY <2>1, <4>1 DEF WorkerOK, ModeOK, EntryOK, PushedTo, AnswerOK
    <3> QED BY <3>1, <3>2 DEF PushOK
  <2> QED BY <2>1, <2>3, <2>4 DEF PushInv
<1> QED BY <1>1, <1>2, <1>3, <1>4, <1>5 DEF Next

\* One thread at a time pushes, DU TII's push mode and its answers are that thread's, and
\* all that comes before the thread's place in the map is written and validated, unless
\* others interfere: the inductive invariant of PushUpdate.
THEOREM PushInvariant == Spec => []PushInv
<1> QED BY PushInit, PushNext, PTL DEF Spec

\* The variables keep their types, and what is written is always a chunk of some package
\* in its place, whatever threads and lines interfere.
THEOREM PushTypeCorrect == Spec => []PushTypeOK
<1>1. PushInv => PushTypeOK
  BY DEF PushInv, RestTypeOK, LocsOK, LocOK, LocType, WorkerPlaces, PushTypeOK
<1> QED BY <1>1, PushInvariant, PTL

\* When push mode is disabled all images of the deployed package are in their partitions
\* and all its validations were answered well, for any map and any buffer size.
THEOREM AlwaysDisabledMeansPushed == Spec => []DisabledMeansPushed
<1>1. PushInv => DisabledMeansPushed
  <2> SUFFICES ASSUME PushInv, pushMode = "disabled", sess # NoPkg, ~stale
               PROVE  /\ \A c \in Chunks(sess) : part[c] = Content(sess, c[1], c[2])
                      /\ {i \in 1..Len(Map[sess]) : Map[sess][i].kind = "validate"}
                           \subseteq validated
    BY DEF DisabledMeansPushed
  <2>1. PushedTo(sess, Len(Map[sess]) + 1, 0)
    BY DEF PushInv, PushOK, SessionOK
  <2>2. PICK p \in Packages : p = sess
    BY DEF PushInv, RestTypeOK
  <2>3. Len(Map[p]) \in Nat
    BY MapEntry
  <2>4. \A c \in Chunks(p) : c[1] < Len(Map[p]) + 1
    BY <2>3, InChunks
  <2>5. \A j \in 1..Len(Map[p]) : j < Len(Map[p]) + 1
    BY <2>3
  <2> QED BY <2>1, <2>2, <2>4, <2>5 DEF PushedTo
<1> QED BY <1>1, PushInvariant, PTL

\* An update is given up for a reason.
THEOREM AlwaysAbortHasReason == Spec => []AbortHasReason
<1>1. PushInv => AbortHasReason
  BY DEF PushInv, PushOK, Alive, WorkerOK, AnswerOK, AbortHasReason
<1> QED BY <1>1, PushInvariant, PTL

\* Partitions are written while push mode is enabled only.
THEOREM AlwaysWritesWhenEnabled == Spec => WritesWhenEnabled
<1>1. PushInv /\ [Next]_vars =>
        [part' # part /\ sess # NoPkg /\ ~stale => pushMode = "enabled"]_vars
  <2> SUFFICES ASSUME PushInv, Next, part' # part, sess # NoPkg, ~stale
               PROVE  pushMode = "enabled"
    OBVIOUS
  <2>1. PICK w \in Workers : loc[w].pc = "write"
    BY DEF Next, Deploy, TypeCommand, AbortDeploy, TiiStep, TiiEnables, TiiValidates,
           MasterEnds, CbStep, CbEnabled, CbStore, CbSignal, PushStep, ReadMap, ReadChunk,
           ReadMissing, WriteChunk, StartValidation, SendJson, Test, Wait, Verdict,
           Enable, Reload, Disable, Abort, CallFails, WakesUp
  <2>2. WorkerOK(loc[w])
    BY <2>1, WorkerNow DEF Alive
  <2> QED BY <2>1, <2>2 DEF WorkerOK, ModeOK, Writing
<1> QED BY <1>1, PushInvariant, PTL DEF Spec, WritesWhenEnabled

=============================================================================
