------------------------ MODULE DuInstallerRefinement ------------------------
(* DuInstaller implements InstallerPromise. *)
EXTENDS DuInstaller

\* The source c is a whole copy of, if there is one.
WholeCopyOf(c) == IF c # Absent /\ c = Full(c.src) THEN c.src ELSE NoPath

\* Something is on offer while the state is PENDING_COMMIT and the staged file
\* of the current deploy is still there and whole.
Offered ==
  IF state = "PENDING_COMMIT" /\ stagedFile # NoFile
  THEN WholeCopyOf(staged[stagedFile]) ELSE NoPath

Promise == INSTANCE InstallerPromise WITH
  Sources <- Paths, NoSource <- NoPath, Targets <- Files,
  up <- (pc # "boot"), phase <- state, offer <- Offered,
  published <- [f \in Files |-> WholeCopyOf(saved[f])]

\* Every behaviour of the installer, with its callbacks, failures and crashes,
\* is one the README's state machine allows, and files are published exactly by
\* the commits that machine makes.  (As long as fclose loses nothing.)
ImplementsPromise == Promise!Spec

=============================================================================
