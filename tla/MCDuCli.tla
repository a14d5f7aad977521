-------------------------------- MODULE MCDuCli --------------------------------
(* Small directories for TLC: up to three files, of any numbers, suffixes and      *)
(* kinds, enough for one of each suffix in a row, gaps and numbers used twice.     *)
EXTENDS DuCli

MCDirs ==
  UNION {{[f \in Files |-> IF f \in fs THEN k[f] ELSE "absent"] :
            k \in [fs -> Kinds \ {"absent"}]} :
           fs \in {s \in SUBSET Files : Cardinality(s) <= 3}}

=============================================================================
