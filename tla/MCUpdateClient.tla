--------------------------- MODULE MCUpdateClient ---------------------------
(* A small instance of UpdateClient for TLC. *)
EXTENDS UpdateClient

CONSTANTS p1, m1, m2

=============================================================================
