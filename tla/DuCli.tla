--------------------------------- MODULE DuCli ---------------------------------
(***************************************************************************)
(* The command line tool du_cli (du-cli/du_cli.c): it counts the payload      *)
(* files of a directory, flashes them one by one through DU Server, tells DU   *)
(* Server to reload its partition table after each table, and reports.         *)
(*                                                                         *)
(* A directory is scanned twice: getTotalPayload counts the files that are     *)
(* there, deploy takes the files it can read, and both go through the          *)
(* suffixes once, the number going up.                                        *)
(***************************************************************************)
EXTENDS Naturals, Sequences, FiniteSets

CONSTANTS
  MaxNum,    \* the largest number of a file
  Dirs       \* the directories a user may deploy: what each file is

\* fileSuffix: ".l1pt", ".pt", ".patch".
Suffixes == 0..2
NoSuffix == 3
IsTable(s) == s \in 0..1

\* A file is a number and a suffix.
Files == (1..MaxNum) \X Suffixes

\* What a file is: not there; of a size that is refused; without a payload in it; a
\* payload for a partition of a boot chain; one for a partition "C_...".
Kinds == {"absent", "unreadable", "corrupt", "chain", "C_"}

ASSUME CliAssumption ==
  /\ MaxNum \in Nat
  /\ Dirs \subseteq [Files -> Kinds]

NoDir == [f \in Files |-> "absent"]

VARIABLES
  dir,          \* the directory named by -d, and what -l asks for
  wantsLog,
  active,       \* the active boot chain
  pc,
  i,            \* the number of the next payload
  suffixIndex,
  totalNum,
  ret,
  verdict,      \* what main prints: "none", "SUCCESS", "FAIL"
  exitCode,
  connected,    \* between duscInit and duscDeinit
  \* DU Server
  flashed,      \* the payloads it has applied: records with file and chain
  staleTable    \* a partition table was applied and not loaded yet

input  == <<dir, wantsLog, active>>
loop   == <<i, suffixIndex, totalNum>>
report == <<verdict, exitCode, connected>>
server == <<flashed, staleTable>>
vars   == <<input, pc, loop, ret, report, server>>

BootChains == {"A", "B", "C"}

Content(f) == IF f \in Files THEN dir[f] ELSE "absent"
Exists(f) == Content(f) # "absent"
Readable(f) == Content(f) \notin {"absent", "unreadable"}

Init ==
  /\ dir \in Dirs \union {NoDir} /\ wantsLog \in BOOLEAN
  /\ active \in BootChains
  /\ pc = "args"
  /\ i = 1 /\ suffixIndex = 0 /\ totalNum = 0
  /\ ret = "PASS"
  /\ verdict = "none" /\ exitCode = "none" /\ connected = FALSE
  /\ flashed = <<>> /\ staleTable = FALSE

Exit(code) == pc' = "exit" /\ exitCode' = code

-----------------------------------------------------------------------------
(* main, up to the deploy *)

ParseArgument ==
  /\ pc = "args"
  /\ \/ pc' = "init" /\ UNCHANGED exitCode
     \/ Exit("FAIL")
  /\ UNCHANGED <<input, loop, ret, verdict, connected, server>>

DuscInit ==
  /\ pc = "init"
  /\ \/ pc' = "showPT" /\ connected' = TRUE /\ UNCHANGED exitCode
     \/ Exit("FAIL") /\ UNCHANGED connected
  /\ UNCHANGED <<input, loop, ret, verdict, server>>

ShowPT ==
  /\ pc = "showPT"
  /\ \/ pc' = "deploy" /\ UNCHANGED ret
     \/ pc' = "log" /\ ret' \in {"SERVER_ERROR", "CLIENT_ERROR"}
  /\ UNCHANGED <<input, loop, report, server>>

-----------------------------------------------------------------------------
(* deploy *)

\* Variant with a bug: the number that is not there is counted, too.
InARowAndOne(s, n) ==
  1 + Cardinality({k \in n..MaxNum : \A m \in n..k : Exists(<<m, s>>)})

\* How many files of suffix s there are from number n on, without a gap.
InARow(s, n) == Cardinality({k \in n..MaxNum : \A m \in n..k : Exists(<<m, s>>)})

\* getTotalPayload: each suffix goes on at the number where the one before stopped.
L1pts == InARow(0, 1)
Pts == InARow(1, 1 + L1pts)
Patches == InARow(2, 1 + L1pts + Pts)
TotalPayload == L1pts + Pts + Patches

\* The n-th file that getTotalPayload counted.
Counted(n) == <<n, IF n <= L1pts THEN 0 ELSE IF n <= L1pts + Pts THEN 1 ELSE 2>>

\* deploy is left; main prints the verdict if there was something to do.
DeployEnds(r, total) ==
  /\ ret' = r
  /\ pc' = "log"
  /\ verdict' = IF total = 0 THEN "none" ELSE IF r = "PASS" THEN "SUCCESS" ELSE "FAIL"

\* The files are counted and the clock is read, which may fail.
CountPayloads ==
  /\ pc = "deploy"
  /\ totalNum' = TotalPayload
  /\ \/ TotalPayload = 0 /\ DeployEnds("PASS", 0)
     \/ TotalPayload > 0 /\ DeployEnds("FAIL", TotalPayload)
     \/ TotalPayload > 0 /\ pc' = "find" /\ UNCHANGED <<ret, verdict>>
  /\ UNCHANGED <<input, i, suffixIndex, exitCode, connected, server>>

\* Variant with a bug: the search starts at .l1pt for each number.
CandidatesFromFirst == {s \in Suffixes : Readable(<<i, s>>)}

\* The suffixes under which the payload may still be found.
Candidates == {s \in suffixIndex..2 : Readable(<<i, s>>)}

\* Variant with a bug: the search never gives up.
SearchAgain ==
  /\ pc = "find" /\ i <= totalNum
  /\ Candidates # {}
  /\ suffixIndex' \in {s \in Candidates : \A t \in Candidates : s <= t}
  /\ pc' = "flash"
  /\ UNCHANGED <<input, i, totalNum, ret, report, server>>

\* readFileContent is tried on the suffixes that are left; one that was passed over
\* is not tried again.
FindPayload ==
  /\ pc = "find" /\ i <= totalNum
  /\ IF Candidates = {}
     THEN suffixIndex' = NoSuffix /\ DeployEnds("FAIL", totalNum)
     ELSE /\ suffixIndex' \in {s \in Candidates : \A t \in Candidates : s <= t}
          /\ pc' = "flash" /\ UNCHANGED <<ret, verdict>>
  /\ UNCHANGED <<input, i, totalNum, exitCode, connected, server>>

\* Variant with a bug: the last payload is left out.
AllButOneFlashed ==
  /\ pc = "find" /\ i >= totalNum
  /\ DeployEnds("PASS", totalNum)
  /\ UNCHANGED <<input, loop, exitCode, connected, server>>

\* The loop is over.
AllFlashed ==
  /\ pc = "find" /\ i > totalNum
  /\ DeployEnds("PASS", totalNum)
  /\ UNCHANGED <<input, loop, exitCode, connected, server>>

Payload == <<i, suffixIndex>>

\* The chain a payload goes to: flashL1pt does not look at its partition.
Target ==
  IF suffixIndex = 0 THEN "PERSIST"
  ELSE IF Content(Payload) = "C_" THEN "C"
  ELSE IF active = "A" THEN "B" ELSE "A"

NextPayload == pc' = "find" /\ i' = i + 1

\* DU Server applies the payload; a table has to be loaded before the next one.
Flash ==
  /\ pc = "flash" /\ Content(Payload) # "corrupt"
  /\ flashed' = Append(flashed, [file |-> Payload, chain |-> Target])
  /\ IF IsTable(suffixIndex)
     THEN pc' = "reload" /\ staleTable' = TRUE /\ UNCHANGED i
     ELSE NextPayload /\ UNCHANGED staleTable
  /\ UNCHANGED <<input, suffixIndex, totalNum, ret, report>>

\* There is no payload in the file, the active chain cannot be read, or DU Server
\* refuses the payload.
FlashFails ==
  /\ pc = "flash"
  /\ DeployEnds("FAIL", totalNum)
  /\ UNCHANGED <<input, loop, exitCode, connected, server>>

ReloadPt ==
  /\ pc = "reload"
  /\ NextPayload /\ staleTable' = FALSE
  /\ UNCHANGED <<input, suffixIndex, totalNum, ret, report, flashed>>

\* Variant with a bug: a reload that failed is not looked at.
ReloadIgnored ==
  /\ pc = "reload"
  /\ NextPayload
  /\ UNCHANGED <<input, suffixIndex, totalNum, ret, report, server>>

ReloadFails ==
  /\ pc = "reload"
  /\ DeployEnds("FAIL", totalNum)
  /\ UNCHANGED <<input, loop, exitCode, connected, server>>

-----------------------------------------------------------------------------
(* main, after the deploy *)

\* The log of DU Server is fetched if it was asked for, or after an error of DU
\* Server: deploy never returns one.
GetDUSLog ==
  /\ pc = "log"
  /\ pc' = IF ret = "SERVER_ERROR" \/ wantsLog THEN "getLog" ELSE "deinit"
  /\ UNCHANGED <<input, loop, ret, report, server>>

\* Whether that works or not.
LogDone ==
  /\ pc = "getLog"
  /\ pc' = "deinit"
  /\ UNCHANGED <<input, loop, ret, report, server>>

\* The exit code is the result of duscDeinit.
DuscDeinit ==
  /\ pc = "deinit"
  /\ ret' \in {"PASS", "CLIENT_ERROR"}
  /\ Exit(IF ret' = "PASS" THEN "PASS" ELSE "FAIL")
  /\ connected' = FALSE
  /\ UNCHANGED <<input, loop, verdict, server>>

\* A signal, from initSetting on.  What DU Server has applied stays.
CleanUp ==
  /\ pc \notin {"args", "exit"}
  /\ Exit("FAIL")
  /\ connected' = FALSE
  /\ UNCHANGED <<input, loop, ret, verdict, server>>

-----------------------------------------------------------------------------

CliStep ==
  \/ ParseArgument \/ DuscInit \/ ShowPT \/ CountPayloads \/ FindPayload \/ AllFlashed
  \/ Flash \/ FlashFails \/ ReloadPt \/ ReloadFails \/ GetDUSLog \/ LogDone \/ DuscDeinit

Next == CliStep \/ CleanUp

Spec == Init /\ [][Next]_vars

\* The process is scheduled and the calls of DU Server return.
FairSpec == Spec /\ WF_vars(CliStep)

-----------------------------------------------------------------------------
(* Properties *)

CliTypeOK ==
  /\ dir \in [Files -> Kinds] /\ wantsLog \in BOOLEAN /\ active \in BootChains
  /\ pc \in {"args", "init", "showPT", "deploy", "find", "flash", "reload", "log", "getLog",
             "deinit", "exit"}
  /\ i \in 1..MaxNum + 1 /\ suffixIndex \in 0..NoSuffix /\ totalNum \in 0..MaxNum
  /\ ret \in {"PASS", "FAIL", "SERVER_ERROR", "CLIENT_ERROR"}
  /\ verdict \in {"none", "SUCCESS", "FAIL"} /\ exitCode \in {"none", "PASS", "FAIL"}
  /\ connected \in BOOLEAN
  /\ flashed \in Seq([file : Files, chain : {"PERSIST"} \union BootChains])
  /\ staleTable \in BOOLEAN

\* No payload is applied while DU Server still works with a partition table that
\* this run has replaced: a reload that fails or is left out stops the deploy.
TablesFresh == [][flashed' # flashed => ~staleTable]_vars

\* The payloads are applied in the order of their numbers, none twice and none left
\* out, the tables before everything else; whatever files are unreadable and wherever
\* the run stops.
FlashedInOrder ==
  \A n \in 1..Len(flashed) :
    /\ flashed[n].file[1] = n
    /\ n > 1 => flashed[n - 1].file[2] <= flashed[n].file[2]

\* If the files are readable, SUCCESS means that exactly the files that were counted
\* have been applied, although the two scans of the directory go by different tests;
\* that the last table is loaded; and that nothing but C_ partitions was written to
\* the active chain.
SuccessMeansFlashed ==
  verdict = "SUCCESS" /\ (\A f \in Files : dir[f] # "unreadable") =>
    /\ Len(flashed) = TotalPayload
    /\ \A n \in 1..TotalPayload :
         /\ flashed[n].file = Counted(n)
         /\ flashed[n].chain = active => dir[Counted(n)] = "C_"
    /\ ~staleTable

\* The tool ends, whatever the directory holds.
CliEnds == <>(pc = "exit" /\ ~connected)

=============================================================================
