----------------------- MODULE MCRemoteContentProvider -----------------------
(* A small instance of RemoteContentProvider for TLC: two packages that share a  *)
(* node, with a file of one chunk and a half on a server that keeps to ranges,    *)
(* and one of two chunks on a server that need not.                              *)
EXTENDS RemoteContentProvider

CONSTANTS p1, p2, w, r1, r2

MCEntries == [p \in Packages |-> IF p = p1 THEN <<"files", "files/a">> ELSE <<"files">>]
MCSize == [p \in Packages |-> IF p = p1 THEN 3 ELSE 4]

=============================================================================
