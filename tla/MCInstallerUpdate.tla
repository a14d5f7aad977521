-------------------------- MODULE MCInstallerUpdate --------------------------
(* Small instances of InstallerUpdate for TLC: two packages of one name. *)
EXTENDS InstallerUpdate

CONSTANTS p1, p2

MCNames == {"file"}
MCSize == [p \in Paths |-> IF p = p1 THEN 2 ELSE 1]
MCBasename == [p \in Paths |-> "file"]
MCCommitName == [n \in Names |-> n]

=============================================================================
