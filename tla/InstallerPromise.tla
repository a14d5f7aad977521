-------------------------- MODULE InstallerPromise --------------------------
(***************************************************************************)
(* What the installer plugin promises DU Master, without threads, locks or  *)
(* buffers: the state machine of README.md ("duinstaller"), and the meaning *)
(* of staging and committing.  A source is offered when it has been copied  *)
(* whole and may be committed; published[f] is the source that stands under *)
(* the final name f.  up tells that the process runs.                       *)
(***************************************************************************)

CONSTANTS Sources, NoSource, Targets

VARIABLES up, phase, offer, published

vars == <<up, phase, offer, published>>

Init ==
  /\ up = FALSE
  /\ phase = "IDLE"
  /\ offer = NoSource
  /\ published = [f \in Targets |-> NoSource]

Trans(from, to) == phase = from /\ phase' = to

\* A command is taken in IDLE; it waits for its run level unless that is there.
Accept ==
  /\ \/ Trans("IDLE", "PENDING_RL") \/ Trans("IDLE", "INSTALLING")
     \/ Trans("PENDING_RL", "INSTALLING")
  /\ UNCHANGED <<offer, published>>

\* The deploy is done: a whole copy of s awaits its commit.
Stage(s) ==
  /\ Trans("INSTALLING", "PENDING_COMMIT")
  /\ offer' = s
  /\ UNCHANGED published

\* The commit itself: in one step the offered copy gets its final name.
Publish(f) ==
  /\ phase = "PENDING_COMMIT"
  /\ offer # NoSource
  /\ published' = [published EXCEPT ![f] = offer]
  /\ offer' = NoSource
  /\ UNCHANGED phase

\* IDLE is reached again only when nothing is on offer any more.
Finish ==
  /\ Trans("PENDING_COMMIT", "IDLE")
  /\ offer = NoSource
  /\ UNCHANGED <<offer, published>>

\* Any state may fail, which withdraws the offer and publishes nothing.
Fail ==
  /\ phase # "ERROR"
  /\ phase' = "ERROR"
  /\ offer' = NoSource
  /\ UNCHANGED published

Clear ==
  /\ Trans("ERROR", "IDLE")
  /\ UNCHANGED <<offer, published>>

\* The process comes up, idle, and works until it is killed; started again, it
\* offers nothing.  Nothing else ends an update half-way.
Boot ==
  /\ ~up /\ up'
  /\ UNCHANGED <<phase, offer, published>>

Restart ==
  /\ ~up'
  /\ phase' = "IDLE"
  /\ offer' = NoSource
  /\ UNCHANGED published

Work ==
  /\ up /\ up'
  /\ \/ Accept
     \/ \E s \in Sources : Stage(s)
     \/ \E f \in Targets : Publish(f)
     \/ Finish \/ Fail \/ Clear

Next == Boot \/ Restart \/ Work

Spec == Init /\ [][Next]_vars

=============================================================================
