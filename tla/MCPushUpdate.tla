----------------------------- MODULE MCPushUpdate -----------------------------
(* A small instance of PushUpdate for TLC: a package with an image that fills the *)
(* buffer, a validation and an image of one buffer and a half, and another one     *)
(* with a reload.                                                                 *)
EXTENDS PushUpdate

CONSTANTS p1, p2, w1

MCEntry(k, n) == [kind |-> k, size |-> n]
MCMap ==
  [p \in Packages |->
     IF p = p1
     THEN <<MCEntry("image", 2), MCEntry("validate", 0), MCEntry("image", 3)>>
     ELSE <<MCEntry("image", 1), MCEntry("reload", 0)>>]

=============================================================================
