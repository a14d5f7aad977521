------------------------------ MODULE DuCliProofs ------------------------------
(* The order of the payloads and the reload of the tables, for every number of   *)
(* files and every directory.                                                    *)
EXTENDS DuCli, FiniteSetTheorems, WellFoundedInduction, TLAPS

-----------------------------------------------------------------------------
(* The inductive invariant *)

\* What the order rests on: where the loop stands against what has been applied, that
\* suffixes are only passed over, and that a table is loaded before the loop goes on.
CliInv ==
  /\ CliTypeOK
  /\ pc \in {"args", "init", "showPT", "deploy"} => i = 1
  /\ pc = "find" => i <= totalNum + 1
  /\ pc \in {"flash", "reload"} => i <= totalNum /\ suffixIndex # NoSuffix
  /\ pc \in {"args", "init", "showPT", "deploy", "find", "flash"} =>
       Len(flashed) = i - 1 /\ ~staleTable
  /\ pc = "reload" => Len(flashed) = i
  /\ \A n \in 1..Len(flashed) : flashed[n].file[2] <= suffixIndex
  /\ FlashedInOrder

-----------------------------------------------------------------------------
(* The count of the files *)

\* Among the numbers of an interval that are in a set, one is the least.
LEMMA LeastNumber ==
  ASSUME NEW a \in Nat, NEW b \in Nat, NEW N, N \subseteq a..b, N # {}
  PROVE  \E k \in N : \A j \in N : k <= j
<1> DEFINE S == a..b
           T == {a..k : k \in N}
<1>1. IsFiniteSet(S)
  <2>1. a \in Int /\ b \in Int
    OBVIOUS
  <2> QED BY <2>1, FS_Interval
<1>2. IsWellFoundedOn(StrictSubsetOrdering(S), SUBSET S)
  BY <1>1, FS_FiniteSubsetsOfFinite, FS_StrictSubsetOrderingWellFounded
<1>3. T \subseteq SUBSET S /\ T # {}
  <2>1. \A k \in N : a..k \in SUBSET (a..b)
    OBVIOUS
  <2> QED BY <2>1
<1>4. \E x \in T : \A y \in T : <<y, x>> \notin StrictSubsetOrdering(S)
  <2> HIDE DEF T, S
  <2> QED BY <1>2, <1>3, WFMin
<1>5. PICK k \in N : \A j \in N : <<a..j, a..k>> \notin StrictSubsetOrdering(S)
  BY <1>4
<1>6. ASSUME NEW j \in N, j < k PROVE FALSE
  <2>1. a..j \subseteq a..k /\ k \in a..k /\ k \notin a..j /\ a..j \in SUBSET S /\ a..k \in SUBSET S
    BY <1>6
  <2>2. <<a..j, a..k>> \in StrictSubsetOrdering(S)
    BY <2>1 DEF StrictSubsetOrdering
  <2> QED BY <1>5, <2>2
<1> QED BY <1>6

\* InARow counts up to the first number that is not there.
LEMMA InARowFound ==
  ASSUME NEW s \in Suffixes, NEW n \in 1..MaxNum + 1
  PROVE  /\ InARow(s, n) \in 0..MaxNum + 1 - n
         /\ \A m \in n..n + InARow(s, n) - 1 : Exists(<<m, s>>)
         /\ ~Exists(<<n + InARow(s, n), s>>)
<1> DEFINE K == {k \in n..MaxNum : \A m \in n..k : Exists(<<m, s>>)}
           N == {k \in n..MaxNum + 1 : ~Exists(<<k, s>>)}
<1>1. MaxNum \in Nat /\ n \in Nat /\ MaxNum + 1 \in Nat
  BY CliAssumption
<1>2. MaxNum + 1 \in N
  <2>1. <<MaxNum + 1, s>> \notin Files
    BY <1>1 DEF Files
  <2> QED BY <1>1, <2>1 DEF Exists, Content
<1>3. PICK k0 \in N : \A j \in N : k0 <= j
  <2>1. N \subseteq n..MaxNum + 1 /\ N # {}
    BY <1>2
  <2> HIDE DEF N
  <2> QED BY <1>1, <2>1, LeastNumber
<1>4. k0 \in n..MaxNum + 1 /\ ~Exists(<<k0, s>>)
  OBVIOUS
<1>5. \A m \in n..k0 - 1 : Exists(<<m, s>>)
  <2> SUFFICES ASSUME NEW m \in n..k0 - 1, ~Exists(<<m, s>>) PROVE FALSE
    OBVIOUS
  <2>1. m \in N /\ m < k0
    BY <1>1, <1>4
  <2> QED BY <1>1, <1>3, <1>4, <2>1
<1>6. K = n..k0 - 1
  <2>1. ASSUME NEW k \in K PROVE k \in n..k0 - 1
    <3>1. ~(k0 \in n..k)
      BY <1>4, <2>1
    <3> QED BY <1>1, <1>4, <3>1
  <2>2. ASSUME NEW k \in n..k0 - 1 PROVE k \in K
    <3>1. k \in n..MaxNum /\ \A m \in n..k : m \in n..k0 - 1
      BY <1>1, <1>4, <2>2
    <3> QED BY <1>5, <3>1
  <2> QED BY <2>1, <2>2
<1>7. Cardinality(n..k0 - 1) = k0 - n
  <2>1. n \in Int /\ k0 - 1 \in Int /\ n <= k0
    BY <1>1, <1>4
  <2>2. Cardinality(n..k0 - 1) = IF n > k0 - 1 THEN 0 ELSE k0 - 1 - n + 1
    BY <2>1, FS_Interval
  <2> HIDE DEF N
  <2> QED BY <1>1, <1>4, <2>1, <2>2
<1>8. InARow(s, n) = k0 - n
  BY <1>6, <1>7 DEF InARow
<1>9. n + (k0 - n) = k0 /\ n + (k0 - n) - 1 = k0 - 1 /\ k0 - n \in 0..MaxNum + 1 - n
  BY <1>1, <1>4
<1> QED BY <1>4, <1>5, <1>8, <1>9

\* InARow counts no number twice and none above MaxNum.
LEMMA InARowBound ==
  ASSUME NEW s \in Suffixes, NEW n \in 1..MaxNum + 1
  PROVE  InARow(s, n) \in 0..MaxNum + 1 - n
BY InARowFound

\* getTotalPayload counts at most one file for each number.
LEMMA TotalBound == TotalPayload \in 0..MaxNum
<1>1. MaxNum \in Nat
  BY CliAssumption
<1>2. L1pts \in 0..MaxNum
  BY <1>1, InARowBound DEF L1pts, Suffixes
<1>3. Pts \in 0..MaxNum - L1pts
  BY <1>1, <1>2, InARowBound DEF Pts, Suffixes
<1>4. Patches \in 0..MaxNum - L1pts - Pts
  BY <1>1, <1>2, <1>3, InARowBound DEF Patches, Suffixes
<1> QED BY <1>1, <1>2, <1>3, <1>4 DEF TotalPayload

-----------------------------------------------------------------------------
(* The inductive invariant *)

\* What every step but a search and a flash leaves alone.
Kept == UNCHANGED <<input, totalNum, suffixIndex, flashed>>

\* The part of CliInv about the payloads follows if they and the suffix stay, and the
\* places are right.
LEMMA KeptStep ==
  ASSUME CliInv, Kept, CliTypeOK',
         (pc \in {"args", "init", "showPT", "deploy"} => i = 1)',
         (pc = "find" => i <= totalNum + 1)',
         (pc \in {"flash", "reload"} => i <= totalNum /\ suffixIndex # NoSuffix)',
         (pc \in {"args", "init", "showPT", "deploy", "find", "flash"} =>
            Len(flashed) = i - 1 /\ ~staleTable)',
         (pc = "reload" => Len(flashed) = i)'
  PROVE  CliInv'
BY DEF CliInv, Kept, FlashedInOrder

\* An element of a sequence is of the set the sequence is over.
LEMMA ElementOf ==
  ASSUME NEW S, NEW q \in Seq(S), NEW n \in 1..Len(q)
  PROVE  q[n] \in S
OBVIOUS

\* Nothing has been flashed before the loop begins.
LEMMA CliInit == Init => CliInv
<1> SUFFICES ASSUME Init PROVE CliInv
  OBVIOUS
<1>1. MaxNum \in Nat /\ Dirs \subseteq [Files -> Kinds]
  BY CliAssumption
<1>2. dir \in [Files -> Kinds]
  BY <1>1 DEF Init, NoDir, Kinds
<1>3. CliTypeOK
  <2>1. i \in 1..MaxNum + 1 /\ suffixIndex \in 0..NoSuffix /\ totalNum \in 0..MaxNum
    BY <1>1 DEF Init, NoSuffix
  <2>2. flashed \in Seq([file : Files, chain : {"PERSIST"} \union BootChains])
    BY DEF Init
  <2> QED BY <1>2, <2>1, <2>2 DEF Init, CliTypeOK
<1> QED BY <1>3 DEF Init, CliInv, FlashedInOrder

\* A payload is found: its suffix is not before those that went out.
LEMMA FindStep == CliInv /\ FindPayload => CliInv'
<1> SUFFICES ASSUME CliInv, FindPayload PROVE CliInv'
  OBVIOUS
<1> USE DEF FindPayload, CliInv, CliTypeOK
<1>1. MaxNum \in Nat
  BY CliAssumption
<1>2. suffixIndex' \in suffixIndex..NoSuffix /\ pc' \in {"log", "flash"}
  BY DEF DeployEnds, Candidates, NoSuffix
<1>3. CliTypeOK'
  BY <1>1, <1>2 DEF DeployEnds, input, server, NoSuffix
<1>4. pc' = "flash" => suffixIndex' # NoSuffix
  BY DEF DeployEnds, Candidates, NoSuffix
<1>5. \A n \in 1..Len(flashed) : flashed[n].file[2] \in Nat
  <2>1. SUFFICES ASSUME NEW n \in 1..Len(flashed)
                 PROVE  flashed[n].file[2] \in Nat
    OBVIOUS
  <2>2. flashed[n] \in [file : Files, chain : {"PERSIST"} \union BootChains]
    BY ElementOf
  <2>3. flashed[n].file \in (1..MaxNum) \X (0..2)
    BY <2>2 DEF Files, Suffixes
  <2> QED BY <2>3
<1>6. (\A n \in 1..Len(flashed) : flashed[n].file[2] <= suffixIndex)'
  BY <1>2, <1>5 DEF server, NoSuffix
<1>7. FlashedInOrder'
  BY DEF FlashedInOrder, server
<1>8. (pc = "flash" => Len(flashed) = i - 1 /\ ~staleTable /\ i <= totalNum)'
  BY DEF server, DeployEnds
<1> QED BY <1>2, <1>3, <1>4, <1>6, <1>7, <1>8

\* A payload goes out: it has the next number, and no smaller suffix than the others.
LEMMA FlashStep == CliInv /\ Flash => CliInv'
<1> SUFFICES ASSUME CliInv, Flash PROVE CliInv'
  OBVIOUS
<1> USE DEF CliInv, CliTypeOK
<1>1. MaxNum \in Nat
  BY CliAssumption
<1>2. Payload \in Files /\ Payload[1] = i /\ Payload[2] = suffixIndex
  BY <1>1 DEF Flash, Payload, Files, Suffixes, NoSuffix
<1>3. Target \in {"PERSIST"} \union BootChains
  BY DEF Target, BootChains
<1> DEFINE e == [file |-> Payload, chain |-> Target]
<1>4. e \in [file : Files, chain : {"PERSIST"} \union BootChains]
  BY <1>2, <1>3
<1>5. flashed' = Append(flashed, e) /\ Len(flashed) = i - 1 /\ i <= totalNum
  BY DEF Flash
<1>6. /\ Len(flashed') = i
      /\ \A n \in 1..Len(flashed) : flashed'[n] = flashed[n]
      /\ flashed'[i] = e
  BY <1>4, <1>5
<1>7. flashed' \in Seq([file : Files, chain : {"PERSIST"} \union BootChains])
  BY <1>4, <1>5
<1>8. i' \in {i, i + 1} /\ pc' \in {"reload", "find"} /\ suffixIndex' = suffixIndex
  BY DEF Flash, NextPayload
<1>9. CliTypeOK'
  <2>1. i' \in 1..MaxNum + 1
    BY <1>1, <1>5, <1>8
  <2>2. /\ UNCHANGED <<dir, wantsLog, active, suffixIndex, totalNum, ret, verdict, exitCode,
                        connected>>
        /\ staleTable' \in BOOLEAN
    BY DEF Flash, input, report
  <2> QED BY <1>7, <1>8, <2>1, <2>2
<1>10. /\ pc' = "find" => i' = i + 1 /\ ~staleTable'
       /\ pc' = "reload" => i' = i
  BY DEF Flash, NextPayload
<1>11. \A n \in 1..Len(flashed') : flashed'[n].file[2] <= suffixIndex'
  BY <1>2, <1>5, <1>6, <1>8
<1>12. FlashedInOrder'
  <2> SUFFICES ASSUME NEW n \in 1..Len(flashed')
               PROVE  /\ flashed'[n].file[1] = n
                      /\ n > 1 => flashed'[n - 1].file[2] <= flashed'[n].file[2]
    BY DEF FlashedInOrder
  <2>1. CASE n = i
    <3>1. flashed'[n].file = Payload
      BY <1>6, <2>1
    <3>2. n > 1 => n - 1 \in 1..Len(flashed)
      BY <1>5, <2>1
    <3> QED BY <1>2, <1>6, <2>1, <3>1, <3>2
  <2>2. CASE n # i
    <3>1. n \in 1..Len(flashed) /\ (n > 1 => n - 1 \in 1..Len(flashed))
      BY <1>5, <1>6, <2>2
    <3> QED BY <1>6, <3>1 DEF FlashedInOrder
  <2> QED BY <2>1, <2>2
<1>13. i' <= totalNum' + 1 /\ (pc' = "reload" => i' <= totalNum')
  BY <1>1, <1>5, <1>8, <1>10 DEF Flash
<1>14. suffixIndex' # NoSuffix
  BY DEF Flash
<1>15. /\ pc' = "find" => Len(flashed') = i' - 1
       /\ pc' = "reload" => Len(flashed') = i'
  <2>1. i \in Nat /\ Len(flashed') = i
    BY <1>1, <1>6
  <2> HIDE DEF CliInv, CliTypeOK
  <2> QED BY <1>10, <2>1
<1> QED BY <1>8, <1>9, <1>10, <1>11, <1>12, <1>13, <1>14, <1>15

\* Every step keeps the invariant.
LEMMA CliNext == CliInv /\ [Next]_vars => CliInv'
<1> SUFFICES ASSUME CliInv, [Next]_vars PROVE CliInv'
  OBVIOUS
<1> USE DEF Kept, Exit, DeployEnds, NextPayload, input, loop, report, server
<1>0. MaxNum \in Nat
  BY CliAssumption
<1>1. CASE ParseArgument
  <2>1. Kept /\ pc = "args" /\ pc' \in {"init", "exit"} /\ UNCHANGED <<i, staleTable>>
    BY <1>1 DEF ParseArgument
  <2>2. CliTypeOK'
    BY <1>1 DEF CliInv, CliTypeOK, ParseArgument
  <2> QED BY <2>1, <2>2, KeptStep DEF CliInv
<1>2. CASE DuscInit
  BY <1>2, KeptStep DEF CliInv, CliTypeOK, DuscInit
<1>3. CASE ShowPT
  BY <1>3, KeptStep DEF CliInv, CliTypeOK, ShowPT
<1>4. CASE CountPayloads
  <2>1. totalNum' \in 0..MaxNum /\ (pc' = "find" => totalNum' > 0)
    BY <1>4, TotalBound DEF CountPayloads
  <2>2. /\ pc = "deploy" /\ pc' \in {"find", "log"}
        /\ UNCHANGED <<i, suffixIndex, flashed, staleTable>>
    BY <1>4 DEF CountPayloads
  <2>3. CliTypeOK'
    BY <1>4, <2>1, <2>2 DEF CountPayloads, CliInv, CliTypeOK
  <2>4. i = 1 /\ Len(flashed) = i - 1 /\ ~staleTable
    BY <2>2 DEF CliInv
  <2>5. FlashedInOrder' /\ (\A n \in 1..Len(flashed) : flashed[n].file[2] <= suffixIndex)'
    BY <2>2 DEF CliInv, FlashedInOrder
  <2>6. i' <= totalNum' + 1
    <3>1. i' = 1 /\ totalNum' \in Nat
      BY <1>0, <2>1, <2>2, <2>4
    <3>2. \A x \in Nat : 1 <= x + 1
      OBVIOUS
    <3> QED BY <3>1, <3>2
  <2> QED BY <2>2, <2>3, <2>4, <2>5, <2>6 DEF CliInv
<1>5. CASE FindPayload
  BY <1>5, FindStep
<1>6. CASE AllFlashed
  BY <1>6, KeptStep DEF CliInv, CliTypeOK, AllFlashed
<1>7. CASE Flash
  BY <1>7, FlashStep
<1>8. CASE FlashFails
  BY <1>8, KeptStep DEF CliInv, CliTypeOK, FlashFails
<1>9. CASE ReloadPt
  <2>1. /\ Kept /\ pc = "reload" /\ pc' = "find" /\ i' = i + 1 /\ staleTable' = FALSE
        /\ UNCHANGED <<ret, verdict, exitCode, connected>>
    BY <1>9 DEF ReloadPt
  <2>2. i \in 1..MaxNum /\ i <= totalNum /\ totalNum \in 0..MaxNum /\ Len(flashed) = i
    BY <1>0, <2>1 DEF CliInv, CliTypeOK
  <2>3. CliTypeOK'
    <3>1. i' \in 1..MaxNum + 1
      BY <1>0, <2>1, <2>2
    <3> QED BY <2>1, <3>1 DEF CliInv, CliTypeOK
  <2>4. Len(flashed') = i' - 1 /\ i' <= totalNum' + 1
    BY <2>1, <2>2
  <2> QED BY <2>1, <2>3, <2>4, KeptStep
<1>10. CASE ReloadFails
  BY <1>10, KeptStep DEF CliInv, CliTypeOK, ReloadFails
<1>11. CASE GetDUSLog
  BY <1>11, KeptStep DEF CliInv, CliTypeOK, GetDUSLog
<1>12. CASE LogDone
  BY <1>12, KeptStep DEF CliInv, CliTypeOK, LogDone
<1>13. CASE DuscDeinit
  BY <1>13, KeptStep DEF CliInv, CliTypeOK, DuscDeinit
<1>14. CASE CleanUp
  BY <1>14, KeptStep DEF CliInv, CliTypeOK, CleanUp
<1>15. CASE UNCHANGED vars
  <2>1. Kept /\ UNCHANGED <<pc, i, ret, verdict, exitCode, connected, staleTable>>
    BY <1>15 DEF vars
  <2>2. CliTypeOK'
    BY <2>1 DEF CliInv, CliTypeOK
  <2> QED BY <2>1, <2>2, KeptStep DEF CliInv
<1> QED
  BY <1>1, <1>2, <1>3, <1>4, <1>5, <1>6, <1>7, <1>8, <1>9, <1>10, <1>11, <1>12, <1>13, <1>14,
     <1>15 DEF Next, CliStep

-----------------------------------------------------------------------------
(* The theorems *)

\* The invariant holds, for every directory and any number of files.
THEOREM CliInvariant == Spec => []CliInv
<1>1. Init => CliInv
  BY CliInit
<1>2. CliInv /\ [Next]_vars => CliInv'
  BY CliNext
<1> QED BY <1>1, <1>2, PTL DEF Spec

\* Every variable of du_cli keeps its type; above all no count exceeds the files.
THEOREM CliTypeCorrect == Spec => []CliTypeOK
<1>1. CliInv => CliTypeOK
  BY DEF CliInv
<1> QED BY <1>1, CliInvariant, PTL

\* deploy applies the payloads in the order of their numbers, tables first.
THEOREM AlwaysInOrder == Spec => []FlashedInOrder
<1>1. CliInv => FlashedInOrder
  BY DEF CliInv
<1> QED BY <1>1, CliInvariant, PTL

\* deploy applies no payload before the tables it has replaced are loaded.
THEOREM TablesAlwaysFresh == Spec => TablesFresh
<1>1. CliInv /\ [Next]_vars => [flashed' # flashed => ~staleTable]_vars
  <2> SUFFICES ASSUME CliInv, [Next]_vars, flashed' # flashed
               PROVE  ~staleTable
    OBVIOUS
  <2>1. Flash
    BY DEF Next, CliStep, vars, server, ParseArgument, DuscInit, ShowPT, CountPayloads,
       FindPayload, AllFlashed, FlashFails, ReloadPt, ReloadFails, GetDUSLog, LogDone,
       DuscDeinit, CleanUp
  <2> QED BY <2>1 DEF Flash, CliInv
<1> QED BY <1>1, CliInvariant, PTL DEF Spec, TablesFresh

-----------------------------------------------------------------------------
(* The two scans of the directory agree *)

AllReadable == \A f \in Files : dir[f] # "unreadable"

\* The suffix of the payload before the n-th.
SuffixBefore(n) == IF n = 1 THEN 0 ELSE Counted(n - 1)[2]

\* What has been applied is what was counted, and goes where it should.
AppliedAsCounted ==
  \A n \in 1..Len(flashed) :
    /\ flashed[n].file = Counted(n)
    /\ flashed[n].chain = active => dir[Counted(n)] = "C_"

\* Where the loop of deploy stands against the count, if every file is readable.
LoopFollowsCount ==
  /\ pc = "find" => suffixIndex = SuffixBefore(i)
  /\ pc \in {"flash", "reload"} => Payload = Counted(i)

\* The count is made once, before the loop.
CountKept ==
  /\ pc \in {"args", "init", "showPT", "deploy"} => suffixIndex = 0 /\ i = 1
  /\ pc \in {"find", "flash", "reload"} => totalNum = TotalPayload

\* The verdict is given when deploy is left; SUCCESS when the loop is over.
VerdictAtEnd ==
  /\ pc \notin {"log", "getLog", "deinit", "exit"} => verdict = "none"
  /\ verdict = "SUCCESS" => Len(flashed) = TotalPayload /\ ~staleTable

ScanInv ==
  /\ CountKept
  /\ VerdictAtEnd
  /\ AllReadable => AppliedAsCounted /\ LoopFollowsCount

\* The n-th counted file is there, and is the first one at or after the suffix before.
CountedFound ==
  \A n \in 1..TotalPayload :
    /\ Counted(n) \in Files /\ Exists(Counted(n))
    /\ SuffixBefore(n) \in 0..Counted(n)[2]
    /\ \A t \in SuffixBefore(n)..Counted(n)[2] : Exists(<<n, t>>) => t = Counted(n)[2]

\* The n-th file that is counted is the one the search comes to, if the search goes on
\* from the suffix of the file before.
LEMMA CountIsFound == CountedFound
<1> SUFFICES ASSUME NEW n \in 1..TotalPayload
             PROVE  /\ Counted(n) \in Files /\ Exists(Counted(n))
                    /\ SuffixBefore(n) \in 0..Counted(n)[2]
                    /\ \A t \in SuffixBefore(n)..Counted(n)[2] :
                         Exists(<<n, t>>) => t = Counted(n)[2]
  BY DEF CountedFound
<1> DEFINE a == L1pts
           b == L1pts + Pts
           c == L1pts + Pts + Patches
<1>1. MaxNum \in Nat /\ Suffixes = {0, 1, 2}
  BY CliAssumption DEF Suffixes
<1>2. /\ L1pts \in 0..MaxNum
      /\ \A m \in 1..a : Exists(<<m, 0>>)
      /\ ~Exists(<<1 + a, 0>>)
  <2>1. 1 \in 1..MaxNum + 1 /\ 0 \in Suffixes
    BY <1>1
  <2>2. /\ InARow(0, 1) \in 0..MaxNum + 1 - 1
        /\ \A m \in 1..1 + InARow(0, 1) - 1 : Exists(<<m, 0>>)
        /\ ~Exists(<<1 + InARow(0, 1), 0>>)
    BY <2>1, InARowFound
  <2>3. MaxNum + 1 - 1 = MaxNum /\ 1 + L1pts - 1 = L1pts
    BY <1>1, <2>2 DEF L1pts
  <2> QED BY <2>2, <2>3 DEF L1pts
<1>3. /\ Pts \in 0..MaxNum - L1pts
      /\ \A m \in 1 + a..b : Exists(<<m, 1>>)
      /\ ~Exists(<<1 + b, 1>>)
  <2>1. 1 + L1pts \in 1..MaxNum + 1 /\ 1 \in Suffixes
    BY <1>1, <1>2
  <2>2. /\ Pts \in 0..MaxNum + 1 - (1 + L1pts)
        /\ \A m \in 1 + L1pts..1 + L1pts + Pts - 1 : Exists(<<m, 1>>)
        /\ ~Exists(<<1 + L1pts + Pts, 1>>)
    BY <2>1, InARowFound DEF Pts
  <2>3. /\ MaxNum + 1 - (1 + L1pts) = MaxNum - L1pts
        /\ 1 + L1pts + Pts - 1 = b /\ 1 + L1pts + Pts = 1 + b
    BY <1>1, <1>2, <2>2
  <2> QED BY <2>2, <2>3
<1>4. /\ Patches \in 0..MaxNum - L1pts - Pts
      /\ \A m \in 1 + b..c : Exists(<<m, 2>>)
  <2>1. 1 + L1pts + Pts \in 1..MaxNum + 1 /\ 2 \in Suffixes
    BY <1>1, <1>2, <1>3
  <2>2. /\ Patches \in 0..MaxNum + 1 - (1 + L1pts + Pts)
        /\ \A m \in 1 + L1pts + Pts..1 + L1pts + Pts + Patches - 1 : Exists(<<m, 2>>)
    BY <2>1, InARowFound DEF Patches
  <2>3. /\ MaxNum + 1 - (1 + L1pts + Pts) = MaxNum - L1pts - Pts
        /\ 1 + L1pts + Pts + Patches - 1 = c /\ 1 + L1pts + Pts = 1 + b
    BY <1>1, <1>2, <1>3, <2>2
  <2> QED BY <2>2, <2>3
<1>5. n \in 1..c /\ c \in 0..MaxNum /\ a \in Nat /\ b \in Nat /\ a <= b /\ b <= c
  BY <1>1, <1>2, <1>3, <1>4 DEF TotalPayload
<1> DEFINE k(m) == IF m <= a THEN 0 ELSE IF m <= b THEN 1 ELSE 2
<1>6. /\ Counted(n) = <<n, k(n)>>
      /\ SuffixBefore(n) = IF n = 1 THEN 0 ELSE k(n - 1)
  BY DEF Counted, SuffixBefore
<1>7. Exists(<<n, k(n)>>)
  BY <1>2, <1>3, <1>4, <1>5
<1>8. k(n) \in 0..2 /\ SuffixBefore(n) \in 0..k(n)
  <2> HIDE DEF a, b, c
  <2> QED BY <1>5, <1>6
<1>9. ASSUME NEW t \in SuffixBefore(n)..k(n), Exists(<<n, t>>), t # k(n)
      PROVE  FALSE
  <2>1. \/ t = 0 /\ n = 1 + a
        \/ t = 1 /\ n = 1 + b
    <3> HIDE DEF a, b, c
    <3>1. t \in {0, 1} /\ t < k(n)
      BY <1>8, <1>9
    <3>2. n = 1 \/ k(n - 1) <= t
      BY <1>5, <1>6, <1>8, <1>9
    <3>3. CASE t = 0
      <4>1. n > a
        BY <1>5, <3>1, <3>3
      <4>2. n = 1 \/ n - 1 <= a
        BY <1>5, <3>2, <3>3
      <4> QED BY <1>5, <3>3, <4>1, <4>2
    <3>4. CASE t = 1
      <4>1. n > b
        BY <1>5, <3>1, <3>4
      <4>2. n = 1 \/ n - 1 <= b
        BY <1>5, <3>2, <3>4
      <4> QED BY <1>5, <3>4, <4>1, <4>2
    <3> QED BY <3>1, <3>3, <3>4
  <2> QED BY <1>2, <1>3, <1>9, <2>1
<1>10. <<n, k(n)>> \in Files
  BY <1>1, <1>5, <1>8 DEF Files
<1> QED BY <1>6, <1>7, <1>8, <1>9, <1>10

\* Nothing changes the directory, so the count stays what it was.
LEMMA CountStays ==
  ASSUME UNCHANGED dir
  PROVE  /\ TotalPayload' = TotalPayload
         /\ AllReadable' = AllReadable
         /\ \A n : Counted(n)' = Counted(n)
<1>1. /\ L1pts' = L1pts /\ Pts' = Pts /\ Patches' = Patches
  BY DEF L1pts, Pts, Patches, InARow, Exists, Content
<1> QED BY <1>1 DEF TotalPayload, AllReadable, Counted

\* What every step but a count, a search and a flash leaves alone.
LEMMA ScanKept ==
  ASSUME ScanInv, UNCHANGED <<dir, active, flashed>>, CountKept', VerdictAtEnd',
         AllReadable => LoopFollowsCount'
  PROVE  ScanInv'
<1>1. AllReadable' = AllReadable /\ (\A n : Counted(n)' = Counted(n))
  BY CountStays
<1>2. AppliedAsCounted => AppliedAsCounted'
  BY <1>1 DEF AppliedAsCounted
<1> QED BY <1>1, <1>2 DEF ScanInv

\* Nothing has been applied and nothing reported at the beginning.
LEMMA ScanInit == Init => ScanInv
<1> SUFFICES ASSUME Init PROVE ScanInv
  OBVIOUS
<1>1. flashed = <<>> /\ pc = "args" /\ suffixIndex = 0 /\ i = 1 /\ verdict = "none"
  BY DEF Init
<1>2. AppliedAsCounted
  <2>1. Len(flashed) = 0 /\ 1..0 = {}
    BY <1>1
  <2> QED BY <2>1 DEF AppliedAsCounted
<1> QED BY <1>1, <1>2 DEF ScanInv, CountKept, VerdictAtEnd, LoopFollowsCount

\* The search comes to the file that was counted, if it is readable.
LEMMA ScanFind == CliInv /\ ScanInv /\ FindPayload => ScanInv'
<1> SUFFICES ASSUME CliInv, ScanInv, FindPayload PROVE ScanInv'
  OBVIOUS
<1>1. /\ UNCHANGED <<dir, active, flashed, staleTable, i, totalNum>>
      /\ pc = "find" /\ i <= totalNum /\ pc' \in {"log", "flash"}
      /\ pc' = "log" => verdict' = "none" \/ verdict' = "FAIL"
      /\ pc' = "flash" => verdict' = verdict
  BY DEF FindPayload, DeployEnds, input, server
<1>2. TotalPayload' = TotalPayload /\ (\A n : Counted(n)' = Counted(n))
  BY <1>1, CountStays
<1>3. totalNum = TotalPayload /\ i \in 1..MaxNum + 1 /\ suffixIndex \in 0..NoSuffix /\ MaxNum \in Nat
  BY <1>1, CliAssumption DEF ScanInv, CountKept, CliInv, CliTypeOK
<1>4. i \in 1..TotalPayload
  BY <1>1, <1>3, TotalBound
<1>5. CountKept' /\ VerdictAtEnd'
  <2>1. verdict = "none"
    BY <1>1 DEF ScanInv, VerdictAtEnd
  <2> QED BY <1>1, <1>2, <1>3, <2>1 DEF CountKept, VerdictAtEnd
<1>6. AllReadable => LoopFollowsCount'
  <2> SUFFICES ASSUME AllReadable, pc' = "flash" PROVE Payload' = Counted(i)'
    BY <1>1 DEF LoopFollowsCount
  <2>1. suffixIndex = SuffixBefore(i)
    BY <1>1 DEF ScanInv, LoopFollowsCount
  <2>2. /\ Counted(i) \in Files /\ Exists(Counted(i))
        /\ SuffixBefore(i) \in 0..Counted(i)[2]
        /\ \A t \in SuffixBefore(i)..Counted(i)[2] : Exists(<<i, t>>) => t = Counted(i)[2]
    BY <1>4, CountIsFound DEF CountedFound
  <2>3. Counted(i) = <<i, Counted(i)[2]>> /\ Counted(i)[2] \in 0..2
    BY DEF Counted
  <2> DEFINE s == Counted(i)[2]
  <2>4. \A t \in 0..2 : Readable(<<i, t>>) <=> Exists(<<i, t>>)
    BY <1>3 DEF AllReadable, Readable, Exists, Content
  <2>5. Candidates = {t \in suffixIndex..2 : Exists(<<i, t>>)}
    BY <1>3, <2>4 DEF Candidates, NoSuffix
  <2>6. s \in Candidates
    <3>1. s \in suffixIndex..2 /\ Exists(<<i, s>>)
      BY <1>3, <2>1, <2>2, <2>3
    <3> QED BY <2>5, <3>1
  <2>7. suffixIndex' \in Candidates /\ suffixIndex' <= s
    <3>1. suffixIndex' \in {x \in Candidates : \A t \in Candidates : x <= t}
      BY <2>6 DEF FindPayload
    <3> QED BY <2>6, <3>1
  <2>8. suffixIndex' = s
    <3>1. suffixIndex' \in SuffixBefore(i)..s /\ Exists(<<i, suffixIndex'>>)
      BY <1>3, <2>1, <2>3, <2>5, <2>7
    <3> QED BY <2>2, <3>1
  <2> QED BY <1>1, <1>2, <2>3, <2>8 DEF Payload
<1> QED BY <1>1, <1>5, <1>6, ScanKept

\* The file that was counted is applied, to a chain that is not the active one unless
\* the partition is a C_ partition.
LEMMA ScanFlash == CliInv /\ ScanInv /\ Flash => ScanInv'
<1> SUFFICES ASSUME CliInv, ScanInv, Flash PROVE ScanInv'
  OBVIOUS
<1> DEFINE e == [file |-> Payload, chain |-> Target]
<1>1. /\ UNCHANGED <<dir, active, totalNum, suffixIndex, verdict>>
      /\ flashed' = Append(flashed, e) /\ pc = "flash" /\ i <= totalNum
      /\ \/ pc' = "reload" /\ i' = i
         \/ pc' = "find" /\ i' = i + 1
  BY DEF Flash, NextPayload, input, report, CliInv
<1>2. AllReadable' = AllReadable /\ TotalPayload' = TotalPayload /\ (\A n : Counted(n)' = Counted(n))
  BY <1>1, CountStays
<1>3. /\ totalNum = TotalPayload /\ verdict = "none"
      /\ i \in 1..MaxNum + 1 /\ MaxNum \in Nat
      /\ flashed \in Seq([file : Files, chain : {"PERSIST"} \union BootChains])
      /\ Len(flashed) = i - 1 /\ suffixIndex \in 0..2 /\ active \in BootChains
  BY <1>1, CliAssumption DEF ScanInv, CountKept, VerdictAtEnd, CliInv, CliTypeOK, NoSuffix
<1>4. i \in 1..TotalPayload
  BY <1>1, <1>3, TotalBound
<1>5. CountKept' /\ VerdictAtEnd'
  <2>1. CountKept'
    BY <1>1, <1>2, <1>3 DEF CountKept
  <2>2. verdict' = "none"
    BY <1>1, <1>3
  <2> QED BY <2>1, <2>2 DEF VerdictAtEnd
<1>6. ASSUME AllReadable PROVE AppliedAsCounted' /\ LoopFollowsCount'
  <2>1. Payload = Counted(i) /\ AppliedAsCounted
    BY <1>1, <1>6 DEF ScanInv, LoopFollowsCount
  <2>2. /\ Len(flashed') = i /\ flashed'[i] = e
        /\ \A n \in 1..i - 1 : flashed'[n] = flashed[n]
    <3>1. e \in [file : Files, chain : {"PERSIST"} \union BootChains]
      <4>1. Payload \in Files
        BY <1>4, <2>1, CountIsFound DEF CountedFound
      <4>2. Target \in {"PERSIST"} \union BootChains
        BY DEF Target, BootChains
      <4> QED BY <4>1, <4>2
    <3> HIDE DEF e
    <3> QED BY <1>1, <1>3, <3>1
  <2>3. Target = active => dir[Counted(i)] = "C_"
    <3>1. Content(Payload) = dir[Counted(i)]
      BY <1>4, <2>1, CountIsFound DEF CountedFound, Content
    <3> QED BY <1>3, <3>1 DEF Target, BootChains
  <2>4. AppliedAsCounted'
    <3> SUFFICES ASSUME NEW n \in 1..i
                 PROVE  /\ flashed'[n].file = Counted(n)
                        /\ flashed'[n].chain = active => dir[Counted(n)] = "C_"
      BY <1>1, <1>2, <2>2 DEF AppliedAsCounted
    <3>1. CASE n = i
      BY <2>1, <2>2, <2>3, <3>1
    <3>2. CASE n # i
      <4>1. n \in 1..i - 1 /\ n \in 1..Len(flashed)
        BY <1>3, <3>2
      <4> QED BY <2>1, <2>2, <4>1 DEF AppliedAsCounted
    <3> QED BY <3>1, <3>2
  <2>5. LoopFollowsCount'
    <3>1. CASE pc' = "reload" /\ i' = i
      <4>1. Payload' = Counted(i)
        BY <1>1, <2>1, <3>1 DEF Payload
      <4> QED BY <1>2, <3>1, <4>1 DEF LoopFollowsCount
    <3>2. CASE pc' = "find" /\ i' = i + 1
      <4>1. suffixIndex = Counted(i)[2]
        BY <2>1 DEF Payload
      <4>2. i' # 1 /\ i' - 1 = i
        BY <1>3, <3>2
      <4>3. SuffixBefore(i)' = Counted(i)[2]
        BY <1>2, <4>2 DEF SuffixBefore
      <4> QED BY <1>1, <3>2, <4>1, <4>3 DEF LoopFollowsCount
    <3> QED BY <1>1, <3>1, <3>2
  <2> QED BY <2>4, <2>5
<1> QED BY <1>2, <1>5, <1>6 DEF ScanInv

\* Every step keeps the agreement of the two scans.
LEMMA ScanNext == CliInv /\ ScanInv /\ [Next]_vars => ScanInv'
<1> SUFFICES ASSUME CliInv, ScanInv, [Next]_vars PROVE ScanInv'
  OBVIOUS
<1> USE DEF input, loop, report, server
<1>1. UNCHANGED <<dir, active>>
  BY DEF Next, CliStep, vars, ParseArgument, DuscInit, ShowPT, CountPayloads, FindPayload,
     AllFlashed, Flash, FlashFails, ReloadPt, ReloadFails, GetDUSLog, LogDone, DuscDeinit, CleanUp
<1>2. TotalPayload' = TotalPayload /\ (\A n : Counted(n)' = Counted(n))
  BY <1>1, CountStays
<1>3. CountKept /\ VerdictAtEnd
  BY DEF ScanInv
<1>4. CASE CountPayloads
  <2>1. /\ UNCHANGED <<i, suffixIndex, flashed, staleTable>> /\ pc = "deploy"
        /\ totalNum' = TotalPayload /\ pc' \in {"log", "find"} /\ verdict' # "SUCCESS"
        /\ pc' = "find" => verdict' = verdict
    BY <1>3, <1>4 DEF CountPayloads, DeployEnds, VerdictAtEnd
  <2>2. CountKept' /\ VerdictAtEnd'
    BY <1>2, <1>3, <2>1 DEF CountKept, VerdictAtEnd
  <2>3. LoopFollowsCount'
    BY <1>3, <2>1 DEF LoopFollowsCount, CountKept, SuffixBefore
  <2> QED BY <1>1, <2>1, <2>2, <2>3, ScanKept
<1>5. CASE FindPayload
  BY <1>5, ScanFind
<1>6. CASE AllFlashed
  <2>1. /\ UNCHANGED <<flashed, staleTable>> /\ pc = "find" /\ pc' = "log" /\ i > totalNum
    BY <1>6 DEF AllFlashed, DeployEnds
  <2>2. /\ totalNum = TotalPayload /\ Len(flashed) = i - 1 /\ ~staleTable
        /\ i <= totalNum + 1 /\ i \in 1..MaxNum + 1 /\ totalNum \in 0..MaxNum /\ MaxNum \in Nat
    BY <1>3, <2>1, CliAssumption DEF CountKept, CliInv, CliTypeOK
  <2>3. Len(flashed) = TotalPayload
    BY <2>1, <2>2
  <2>4. CountKept' /\ VerdictAtEnd'
    BY <1>2, <2>1, <2>2, <2>3 DEF CountKept, VerdictAtEnd
  <2> QED BY <1>1, <2>1, <2>4, ScanKept DEF LoopFollowsCount
<1>7. CASE Flash
  BY <1>7, ScanFlash
<1>8. CASE FlashFails \/ ReloadFails
  <2>1. /\ UNCHANGED flashed /\ pc' = "log" /\ verdict' # "SUCCESS"
    BY <1>8 DEF FlashFails, ReloadFails, DeployEnds
  <2>2. CountKept' /\ VerdictAtEnd'
    BY <2>1 DEF CountKept, VerdictAtEnd
  <2> QED BY <1>1, <2>1, <2>2, ScanKept DEF LoopFollowsCount
<1>9. CASE ReloadPt
  <2>1. /\ UNCHANGED <<flashed, suffixIndex, totalNum, verdict>> /\ pc = "reload"
        /\ pc' = "find" /\ i' = i + 1
    BY <1>9 DEF ReloadPt, NextPayload
  <2>2. CountKept' /\ VerdictAtEnd'
    BY <1>2, <1>3, <2>1 DEF CountKept, VerdictAtEnd
  <2>3. AllReadable => LoopFollowsCount'
    <3> SUFFICES ASSUME AllReadable PROVE LoopFollowsCount'
      OBVIOUS
    <3>1. <<i, suffixIndex>> = Counted(i)
      BY <2>1 DEF ScanInv, LoopFollowsCount, Payload
    <3>2. suffixIndex = Counted(i)[2]
      BY <3>1
    <3>3. i' # 1 /\ i' - 1 = i
      <4>1. i \in Nat /\ i >= 1
        BY CliAssumption DEF CliInv, CliTypeOK
      <4> QED BY <2>1, <4>1
    <3>4. SuffixBefore(i)' = Counted(i)[2]
      BY <1>2, <3>3 DEF SuffixBefore
    <3> QED BY <2>1, <3>2, <3>4 DEF LoopFollowsCount
  <2> QED BY <1>1, <2>1, <2>2, <2>3, ScanKept
<1>10. CASE ParseArgument \/ DuscInit \/ ShowPT \/ GetDUSLog \/ LogDone \/ DuscDeinit \/ CleanUp
  <2>1. /\ UNCHANGED <<flashed, staleTable, verdict, i, suffixIndex>>
        /\ \/ pc' \in {"log", "getLog", "deinit", "exit"}
           \/ /\ pc \in {"args", "init", "showPT", "deploy"}
              /\ pc' \in {"args", "init", "showPT", "deploy"}
    BY <1>10 DEF ParseArgument, DuscInit, ShowPT, GetDUSLog, LogDone, DuscDeinit, CleanUp, Exit
  <2>2. CountKept' /\ VerdictAtEnd'
    BY <1>2, <1>3, <2>1 DEF CountKept, VerdictAtEnd
  <2>3. LoopFollowsCount'
    BY <2>1 DEF LoopFollowsCount
  <2> QED BY <1>1, <2>1, <2>2, <2>3, ScanKept
<1>11. CASE UNCHANGED vars
  <2>1. UNCHANGED <<dir, active, pc, i, suffixIndex, totalNum, verdict, flashed, staleTable>>
    BY <1>11 DEF vars
  <2>2. CountKept' /\ VerdictAtEnd'
    BY <1>2, <1>3, <2>1 DEF CountKept, VerdictAtEnd
  <2>3. AllReadable => LoopFollowsCount'
    BY <1>2, <2>1 DEF ScanInv, LoopFollowsCount, SuffixBefore, Payload
  <2> QED BY <1>1, <2>1, <2>2, <2>3, ScanKept
<1> QED
  BY <1>4, <1>5, <1>6, <1>7, <1>8, <1>9, <1>10, <1>11 DEF Next, CliStep

\* The search of deploy follows the count of getTotalPayload.
THEOREM ScanInvariant == Spec => []ScanInv
<1>1. Init => ScanInv
  BY ScanInit
<1>2. CliInv /\ ScanInv /\ [Next]_vars => ScanInv'
  BY ScanNext
<1> QED BY <1>1, <1>2, CliInvariant, PTL DEF Spec

\* SUCCESS means that exactly the counted files have been applied, to the right chain,
\* and that the last table is loaded.
THEOREM AlwaysSuccessMeansFlashed == Spec => []SuccessMeansFlashed
<1>1. ScanInv => SuccessMeansFlashed
  <2> SUFFICES ASSUME ScanInv, verdict = "SUCCESS", AllReadable
               PROVE  /\ Len(flashed) = TotalPayload /\ ~staleTable
                      /\ \A n \in 1..TotalPayload :
                           /\ flashed[n].file = Counted(n)
                           /\ flashed[n].chain = active => dir[Counted(n)] = "C_"
    BY DEF SuccessMeansFlashed, AllReadable
  <2>1. Len(flashed) = TotalPayload /\ ~staleTable /\ AppliedAsCounted
    BY DEF ScanInv, VerdictAtEnd
  <2> QED BY <2>1 DEF AppliedAsCounted
<1> QED BY <1>1, ScanInvariant, PTL

=============================================================================
