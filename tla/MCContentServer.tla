--------------------------- MODULE MCContentServer ---------------------------
(* Small instances of ContentServer: two packages that share their root node. *)
EXTENDS ContentServer

CONSTANTS p1, p2

MCEntries == [p \in Packages |-> IF p = p1 THEN <<"files", "files/a">> ELSE <<"files">>]
MCPackages == {p1, p2}

=============================================================================
