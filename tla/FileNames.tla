------------------------------ MODULE FileNames ------------------------------
(***************************************************************************)
(* File names as execDeployCmd and execCommitCmd see them: sequences of     *)
(* segments, one of which may be the ".staged" suffix.                      *)
(***************************************************************************)
EXTENDS Sequences, SequencesExt

STAGED_SUFFIX == ".staged"

\* execDeployCmd: the staged file of name n.
StagedName(n) == Append(n, STAGED_SUFFIX)

\* execCommitCmd: everything before the first occurrence of the suffix.
CutAtSuffix(n) == SubSeq(n, 1, SelectInSeq(n, LAMBDA x : x = STAGED_SUFFIX) - 1)

=============================================================================
