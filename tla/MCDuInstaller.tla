---------------------------- MODULE MCDuInstaller ----------------------------
(* Small instances of DuInstaller for TLC. *)
EXTENDS DuInstallerInvariant, FileNames

CONSTANTS p1, p2

\* A plain name, and one with the suffix inside, which is committed as the other.
SuffixName == <<"a", ".staged", ".bin">>
TwoNames == {<<"a">>, SuffixName}
OneName == {<<"a">>}

MCSize == [p \in Paths |-> IF p = p1 THEN 2 ELSE 0]
MCBasename == [p \in Paths |-> <<"a">>]
MCCommitName == [n \in Names |-> CutAtSuffix(StagedName(n))]

Deploy(p, n) == [word |-> "deploy", path |-> p, name |-> n]
Simple(w) == [word |-> w, path |-> NoPath, name |-> NoName]

\* A deploy that takes its name from the path, one that is given a name, a deploy
\* that fails to parse after its path was stored, and the two other commands.
AllRequests ==
  {Deploy(p1, NoName), Deploy(p2, SuffixName), Deploy(p2, BadName),
   Simple("commit"), Simple("clear_error")}

\* Fewer commands for the liveness run, one of them nonsense.
FewRequests == {Deploy(p1, NoName), Simple("commit"), Simple("clear_error"),
                Simple("other")}

\* Just below RL_BG_APPLY (RL_XFER) and at it; RL_DORMANT is the initial level.
MCRunLevels == {3, RL_BG_APPLY}

=============================================================================
