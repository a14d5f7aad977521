------------------------------ MODULE PushUpdate ------------------------------
(***************************************************************************)
(* Push mode of the update client (driveupdate/driveupdate.c).               *)
(*                                                                         *)
(* DU TII announces "enabled" to pushCB, which starts a thread of            *)
(* performPush.  That thread writes the images of the package to their       *)
(* partitions, in the order of the package's map, and at each validation     *)
(* waits until pushCB has been told the verdict.  pushCB runs on a DU Link    *)
(* thread and does not take the mutex of the condition variable.  The map,    *)
(* the transfer buffer and the path of the package are static: a second       *)
(* thread, or a command typed meanwhile, overwrites them.  abort takes        *)
(* pushCB off DU TII's list and leaves the thread running.                    *)
(***************************************************************************)
EXTENDS Naturals, Sequences

CONSTANTS
  Packages,   \* the packages a user may deploy
  NoPkg,      \* no package; a path that names none
  Map,        \* per package, the map of the inactive chain: records with kind and size
  Buf,        \* sizeof(pushFileBuf)
  Workers,    \* threads of performPush, and the bound on how many run at once
  Old         \* what a partition holds before the update

ASSUME PushAssumption ==
  /\ NoPkg \notin Packages
  /\ Map \in [Packages -> Seq([kind : {"image", "validate", "reload"}, size : Nat])]
  /\ Buf \in Nat \ {0}

VARIABLES
  line,        \* the package named in the line typed last, which pPkgPath points into
  map,         \* jsonBuf, elmtArray: the package whose map was read last
  buf,         \* pushFileBuf: the chunk that was read last
  validatePushModeStatus,
  loc,         \* each worker: pc, entry of the map, offset, bytes in the buffer
  cb,          \* the call of pushCB under way: a value of push_mode, "signal", "none"
  registered,  \* pushCB is on DU TII's list
  \* DU TII and DU Master
  sess,        \* the package whose update is under way
  pushMode,    \* the node /tii/push_mode
  tiiReq,      \* the validation DU TII was asked for, 0 when there is none
  part,        \* what was written to each place of the partitions since the deploy
  validated,   \* the validations that DU TII found good since the deploy
  \* history: a call failed or a verdict was bad; an answer was signalled when nobody
  \* waited; other threads or lines of the command prompt interfere
  failed, lost, stale

client  == <<line, map, buf, validatePushModeStatus, loc>>
tii     == <<sess, pushMode, tiiReq, validated>>
history == <<failed, lost, stale>>
vars    == <<client, cb, registered, tii, part, history>>

Images(p) == {i \in 1..Len(Map[p]) : Map[p][i].kind = "image"}

\* The images found under the path that the line names.
Readable == IF line = NoPkg THEN {} ELSE Images(line)

\* Where in the partitions the chunks of a package's images go.
Chunks(p) ==
  UNION {{<<i, off>> : off \in {o \in 0..Map[p][i].size :
                                  o < Map[p][i].size /\ o % Buf = 0}} : i \in Images(p)}
Places == UNION {Chunks(p) : p \in Packages}

\* What is read from a package: a chunk of one of its images.
Content(p, i, off) == [from |-> p, image |-> i, off |-> off]
Contents == UNION {{Content(p, c[1], c[2]) : c \in Chunks(p)} : p \in Packages}

Free == [pc |-> "free", i |-> 0, off |-> 0, n |-> 0]
Alive(w) == loc[w].pc # "free"
SomeAlive == \E w \in Workers : Alive(w)

Init ==
  /\ line = NoPkg /\ map = NoPkg /\ buf = Old
  /\ validatePushModeStatus = "FAIL"
  /\ loc = [w \in Workers |-> Free]
  /\ cb = "none" /\ registered = FALSE
  /\ sess = NoPkg /\ pushMode = "off" /\ tiiReq = 0
  /\ part = [c \in Places |-> Old] /\ validated = {}
  /\ failed = FALSE /\ lost = FALSE /\ stale = FALSE

-----------------------------------------------------------------------------
(* The command prompt *)

\* deployPackage in push mode, while no update is under way.  Threads and answers of
\* an earlier one may still be there.
Deploy(p) ==
  /\ sess = NoPkg
  /\ line' = p /\ sess' = p /\ registered' = TRUE
  /\ pushMode' = "off" /\ tiiReq' = 0
  /\ part' = [c \in Places |-> Old] /\ validated' = {}
  /\ failed' = FALSE /\ lost' = FALSE
  /\ stale' = (SomeAlive \/ cb # "none")
  /\ UNCHANGED <<map, buf, validatePushModeStatus, loc, cb>>

\* getLine: the next line overwrites the one that named the package.
TypeCommand ==
  /\ sess # NoPkg
  /\ line' \in (Packages \union {NoPkg}) \ {line}
  /\ stale' = TRUE
  /\ UNCHANGED <<map, buf, validatePushModeStatus, loc, cb, registered, tii, part,
                 failed, lost>>

\* abortDeploy: DU TII forgets pushCB, DU Master ends the update; performPush is
\* not told.
AbortDeploy ==
  /\ registered
  /\ registered' = FALSE
  /\ sess' = NoPkg /\ pushMode' = "off" /\ tiiReq' = 0
  /\ UNCHANGED <<client, cb, part, validated, history>>

-----------------------------------------------------------------------------
(* DU TII and DU Master (external): DU TII tells pushCB of the changes it makes *)

TiiEnables ==
  /\ sess # NoPkg /\ registered
  /\ pushMode = "off" /\ cb = "none"
  /\ pushMode' = "enabled" /\ cb' = "enabled"
  /\ UNCHANGED <<client, registered, sess, tiiReq, part, validated, history>>

TiiValidates ==
  /\ tiiReq # 0 /\ registered /\ cb = "none"
  /\ \/ cb' = "validateSuccess" /\ validated' = validated \union {tiiReq}
        /\ UNCHANGED failed
     \/ cb' = "validateFail" /\ failed' = TRUE /\ UNCHANGED validated
  /\ tiiReq' = 0
  /\ UNCHANGED <<client, registered, sess, pushMode, part, lost, stale>>

MasterEnds ==
  /\ sess # NoPkg /\ pushMode = "disabled"
  /\ sess' = NoPkg /\ pushMode' = "off" /\ tiiReq' = 0
  /\ UNCHANGED <<client, cb, registered, part, validated, history>>

-----------------------------------------------------------------------------
(* pushCB *)

\* A thread of performPush, unless pthread_create fails.
CbEnabled ==
  /\ cb = "enabled"
  /\ \/ \E w \in Workers :
          ~Alive(w) /\ loc' = [loc EXCEPT ![w] = [Free EXCEPT !.pc = "map"]]
     \/ UNCHANGED loc
  /\ cb' = "none"
  /\ stale' = (stale \/ SomeAlive)
  /\ UNCHANGED <<line, map, buf, validatePushModeStatus, registered, tii, part, failed,
                 lost>>

\* The verdict is stored, without the mutex ...
CbStore ==
  /\ cb \in {"validateSuccess", "validateFail"}
  /\ validatePushModeStatus' = IF cb = "validateSuccess" THEN "SUCCESS" ELSE "FAIL"
  /\ cb' = "signal"
  /\ UNCHANGED <<line, map, buf, loc, registered, tii, part, history>>

Waiting == {w \in Workers : loc[w].pc = "wait"}
Wakes(w) == loc' = [loc EXCEPT ![w].pc = "test"]

\* Variant with a bug: only a good verdict is signalled.
CbSignalSuccess ==
  /\ cb = "signal"
  /\ IF Waiting = {} \/ validatePushModeStatus = "FAIL" THEN UNCHANGED loc
     ELSE \E w \in Waiting : Wakes(w)
  /\ cb' = "none"
  /\ lost' = (lost \/ (Waiting = {} /\ \E w \in Workers : loc[w].pc = "tested"))
  /\ UNCHANGED <<line, map, buf, validatePushModeStatus, registered, tii, part, failed,
                 stale>>

\* ... and signalled to one of those who wait, if anybody does.
CbSignal ==
  /\ cb = "signal"
  /\ IF Waiting = {} THEN UNCHANGED loc ELSE \E w \in Waiting : Wakes(w)
  /\ cb' = "none"
  /\ lost' = (lost \/ (Waiting = {} /\ \E w \in Workers : loc[w].pc = "tested"))
  /\ UNCHANGED <<line, map, buf, validatePushModeStatus, registered, tii, part, failed,
                 stale>>

-----------------------------------------------------------------------------
(* performPush *)

Goto(w, place) == loc' = [loc EXCEPT ![w].pc = place]
NextEntry(w) == loc' = [loc EXCEPT ![w] = [Free EXCEPT !.pc = "entry", !.i = loc[w].i + 1]]

AtEntry(w) == loc[w].pc = "entry" /\ loc[w].i <= Len(Map[map])
IsAt(w, kind) == AtEntry(w) /\ Map[map][loc[w].i].kind = kind

\* The active boot chain, and the map, for the other chain, of the package that the
\* line names.
ReadMap(w) ==
  /\ loc[w].pc = "map" /\ line # NoPkg
  /\ map' = line
  /\ NextEntry(w)
  /\ UNCHANGED <<line, buf, validatePushModeStatus, cb, registered, tii, part, history>>

\* Variant with a bug: more is read than the buffer holds.
ReadWhole(w) ==
  /\ IsAt(w, "image")
  /\ loc[w].i \in Readable
  /\ buf' = Content(line, loc[w].i, loc[w].off)
  /\ loc' = [loc EXCEPT ![w].pc = "write", ![w].n = Map[line][loc[w].i].size]
  /\ UNCHANGED <<line, map, validatePushModeStatus, cb, registered, tii, part, history>>

\* The next bytes of an image, as many as fit; a read of nothing ends an image
\* that filled the buffer to the end.
ReadChunk(w) ==
  /\ IsAt(w, "image")
  /\ loc[w].i \in Readable
  /\ LET left == Map[line][loc[w].i].size - loc[w].off IN
     IF left <= 0 THEN NextEntry(w) /\ UNCHANGED buf
     ELSE /\ buf' = Content(line, loc[w].i, loc[w].off)
          /\ loc' = [loc EXCEPT ![w].pc = "write", ![w].n = IF left < Buf THEN left
                                                                ELSE Buf]
  /\ UNCHANGED <<line, map, validatePushModeStatus, cb, registered, tii, part, history>>

\* The line names no package any more, or one without such an image.
ReadMissing(w) ==
  /\ \/ loc[w].pc = "map" /\ line = NoPkg
     \/ IsAt(w, "image") /\ loc[w].i \notin Readable
  /\ Goto(w, "fail")
  /\ failed' = TRUE
  /\ UNCHANGED <<line, map, buf, validatePushModeStatus, cb, registered, tii, part, lost,
                 stale>>

WriteChunk(w) ==
  /\ loc[w].pc = "write"
  /\ part' = [part EXCEPT ![<<loc[w].i, loc[w].off>>] = buf]
  /\ IF loc[w].n = Buf
     THEN loc' = [loc EXCEPT ![w].pc = "entry", ![w].off = @ + Buf, ![w].n = 0]
     ELSE NextEntry(w)
  /\ UNCHANGED <<line, map, buf, validatePushModeStatus, cb, registered, tii, history>>

\* "validating" to DU TII, and INPROGRESS; then the element of the map.
StartValidation(w) ==
  /\ IsAt(w, "validate")
  /\ pushMode' = "validating"
  /\ validatePushModeStatus' = "INPROGRESS"
  /\ Goto(w, "json")
  /\ UNCHANGED <<line, map, buf, cb, registered, sess, tiiReq, part, validated, history>>

SendJson(w) ==
  /\ loc[w].pc = "json"
  /\ tiiReq' = loc[w].i
  /\ Goto(w, "test")
  /\ UNCHANGED <<line, map, buf, validatePushModeStatus, cb, registered, sess, pushMode,
                 part, validated, history>>

\* Under the mutex, which only these threads take: is the verdict there?
Test(w) ==
  /\ loc[w].pc = "test" /\ \A v \in Workers : loc[v].pc # "tested"
  /\ Goto(w, IF validatePushModeStatus = "INPROGRESS" THEN "tested" ELSE "verdict")
  /\ UNCHANGED <<line, map, buf, validatePushModeStatus, cb, registered, tii, part,
                 history>>

\* pthread_cond_wait gives the mutex back and waits.
Wait(w) ==
  /\ loc[w].pc = "tested"
  /\ Goto(w, "wait")
  /\ UNCHANGED <<line, map, buf, validatePushModeStatus, cb, registered, tii, part,
                 history>>

\* Variant with a bug: the status is tested once, with if instead of while.
WakesUpForGood(w) ==
  /\ loc[w].pc = "wait"
  /\ Goto(w, "verdict")
  /\ UNCHANGED <<line, map, buf, validatePushModeStatus, cb, registered, tii, part,
                 history>>

\* A wait may end without a signal.
WakesUp(w) ==
  /\ loc[w].pc = "wait"
  /\ Wakes(w)
  /\ UNCHANGED <<line, map, buf, validatePushModeStatus, cb, registered, tii, part,
                 history>>

\* The status is read again after the mutex was given back.
Verdict(w) ==
  /\ loc[w].pc = "verdict"
  /\ Goto(w, IF validatePushModeStatus = "SUCCESS" THEN "enable" ELSE "fail")
  /\ UNCHANGED <<line, map, buf, validatePushModeStatus, cb, registered, tii, part,
                 history>>

\* Variant with a bug: the next image is written while DU TII still validates.
NotEnabled(w) ==
  /\ loc[w].pc = "enable"
  /\ NextEntry(w)
  /\ UNCHANGED <<line, map, buf, validatePushModeStatus, cb, registered, tii, part,
                 history>>

Enable(w) ==
  /\ loc[w].pc = "enable"
  /\ pushMode' = "enabled"
  /\ NextEntry(w)
  /\ UNCHANGED <<line, map, buf, validatePushModeStatus, cb, registered, sess, tiiReq,
                 part, validated, history>>

\* One write, of the reload command.
Reload(w) ==
  /\ IsAt(w, "reload")
  /\ NextEntry(w)
  /\ UNCHANGED <<line, map, buf, validatePushModeStatus, cb, registered, tii, part,
                 history>>

\* Variant with a bug: a write that came out short is taken for a whole one.
ShortWriteGoesOn(w) ==
  /\ loc[w].pc \in {"map", "write", "json", "enable"} \/ AtEntry(w)
  /\ IF loc[w].pc = "write" THEN NextEntry(w) ELSE Goto(w, "fail")
  /\ failed' = TRUE
  /\ UNCHANGED <<line, map, buf, validatePushModeStatus, cb, registered, tii, part, lost,
                 stale>>

\* Any call fails, or a write comes out short.
CallFails(w) ==
  /\ loc[w].pc \in {"map", "write", "json", "enable"} \/ AtEntry(w)
  /\ Goto(w, "fail")
  /\ failed' = TRUE
  /\ UNCHANGED <<line, map, buf, validatePushModeStatus, cb, registered, tii, part, lost,
                 stale>>

\* All is pushed: push mode is disabled.
Disable(w) ==
  /\ loc[w].pc = "entry" /\ ~AtEntry(w)
  /\ pushMode' \in {"disabled", pushMode}
  /\ loc' = [loc EXCEPT ![w] = Free]
  /\ UNCHANGED <<line, map, buf, validatePushModeStatus, cb, registered, sess, tiiReq,
                 part, validated, history>>

\* DU_MASTER_CMD_ABORT, which may fail, too: then the update hangs.
Abort(w) ==
  /\ loc[w].pc = "fail"
  /\ \/ sess' = NoPkg /\ pushMode' = "off" /\ tiiReq' = 0
     \/ UNCHANGED <<sess, pushMode, tiiReq>>
  /\ loc' = [loc EXCEPT ![w] = Free]
  /\ UNCHANGED <<line, map, buf, validatePushModeStatus, cb, registered, part, validated,
                 history>>

-----------------------------------------------------------------------------

PushStep(w) ==
  \/ ReadMap(w) \/ ReadChunk(w) \/ ReadMissing(w) \/ WriteChunk(w)
  \/ StartValidation(w) \/ SendJson(w) \/ Test(w) \/ Wait(w) \/ Verdict(w) \/ Enable(w)
  \/ Reload(w) \/ Disable(w) \/ Abort(w)

CbStep == CbEnabled \/ CbStore \/ CbSignal
TiiStep == TiiEnables \/ TiiValidates \/ MasterEnds

Next ==
  \/ \E p \in Packages : Deploy(p)
  \/ TypeCommand \/ AbortDeploy
  \/ TiiStep \/ CbStep
  \/ \E w \in Workers : PushStep(w) \/ CallFails(w) \/ WakesUp(w)

Spec == Init /\ [][Next]_vars

\* Threads run on and DU TII answers.  Nobody has to type anything, no call has to
\* fail, and a wait need not end without a signal.
FairSpec ==
  /\ Spec
  /\ WF_vars(CbStep) /\ WF_vars(TiiStep)
  /\ \A w \in Workers : WF_vars(PushStep(w))

-----------------------------------------------------------------------------
(* Properties *)

PushTypeOK ==
  /\ line \in Packages \union {NoPkg} /\ map \in Packages \union {NoPkg}
  /\ buf \in Contents \union {Old}
  /\ validatePushModeStatus \in {"FAIL", "SUCCESS", "INPROGRESS"}
  /\ \A w \in Workers :
       /\ loc[w].pc \in {"free", "map", "entry", "write", "json", "test", "tested",
                         "wait", "verdict", "enable", "fail"}
       /\ loc[w].n \in 0..Buf
       /\ loc[w].pc = "write" => <<loc[w].i, loc[w].off>> \in Places
  /\ cb \in {"none", "enabled", "validateSuccess", "validateFail", "signal"}
  /\ registered \in BOOLEAN
  /\ sess \in Packages \union {NoPkg}
  /\ pushMode \in {"off", "enabled", "validating", "disabled"}
  /\ tiiReq \in Nat /\ validated \subseteq Nat
  /\ part \in [Places -> Contents \union {Old}]
  /\ failed \in BOOLEAN /\ lost \in BOOLEAN /\ stale \in BOOLEAN

\* When DU TII is told that push mode is over, each byte of each image of the
\* deployed package is in its partition, read from that package, and each validation
\* of the map was answered well: no short write, no chunk boundary, no verdict that
\* is read outside the mutex gets around that.  (stale: a thread or an answer of an
\* aborted update was left, push mode was enabled twice, or another command was typed,
\* which overwrites the path of the package.)
DisabledMeansPushed ==
  pushMode = "disabled" /\ sess # NoPkg /\ ~stale =>
    /\ \A c \in Chunks(sess) : part[c] = Content(sess, c[1], c[2])
    /\ {i \in 1..Len(Map[sess]) : Map[sess][i].kind = "validate"} \subseteq validated

\* Partitions are written while push mode is enabled only, and never while DU TII
\* validates what was written before.
WritesWhenEnabled ==
  [][part' # part /\ sess # NoPkg /\ ~stale => pushMode = "enabled"]_vars

\* An update is given up for a reason only: a call that failed or a bad verdict, not
\* a wait that ended early or an answer that is not there yet.
AbortHasReason == (\E w \in Workers : loc[w].pc = "fail") => failed \/ stale

\* A thread of performPush ends, unless its answer was signalled between its test
\* and its wait, or DU TII has been made to forget pushCB, or others interfere.
PushEnds ==
  \A w \in Workers : Alive(w) ~> (~Alive(w) \/ lost \/ ~registered \/ stale)

-----------------------------------------------------------------------------
(* What the documentation says and the code does not do *)

\* docs/driveupdate.md:210 says that performPush waits for the validation to
\* complete: once the verdict is stored it does not go on waiting, if nothing of an
\* earlier update and no other command interferes.
AnswerEndsWait ==
  \A w \in Workers :
    (loc[w].pc = "wait" /\ validatePushModeStatus # "INPROGRESS") ~>
    (loc[w].pc # "wait" \/ stale)

=============================================================================
