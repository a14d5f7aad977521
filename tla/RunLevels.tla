------------------------------ MODULE RunLevels ------------------------------
(***************************************************************************)
(* DU_RUN_LEVEL as runlevelUintToEnum (utils.h) numbers it, and the rule    *)
(* setInstallerPendingRl uses to combine the run level a plugin is already  *)
(* waiting for with the one a new request needs.                            *)
(***************************************************************************)
EXTENDS Naturals

RL_DORMANT  == 0
RL_BG_APPLY == 4
RL_INVALID  == 7

\* Every value DU_RUN_LEVEL takes, and those a client may request.
AnyRunLevel == RL_DORMANT..RL_INVALID
ValidRunLevel == RL_DORMANT..(RL_INVALID - 1)

\* The value of pendingRl after setInstallerPendingRl(wanted) when it was old:
\* RL_INVALID withdraws the request, a lower level replaces a higher one, and
\* a higher one is ignored while a lower one is awaited.
MergedPendingRl(old, wanted) ==
  IF wanted >= RL_INVALID THEN RL_INVALID
  ELSE IF old >= RL_INVALID \/ wanted <= old THEN wanted
  ELSE old

=============================================================================
