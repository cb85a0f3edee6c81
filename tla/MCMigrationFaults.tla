------------------------- MODULE MCMigrationFaults -------------------------
(***************************************************************************)
(* Three instances, of which one dies: the third is the destination of a   *)
(* migration that starts while the clean-up of an older one is under way.  *)
(***************************************************************************)
EXTENDS MigrationFaults, TLC

CONSTANTS a, b, c, r1

MCInst == {a, b, c}
MCReq == {r1}

Symmetry == Permutations(MCInst)
=============================================================================
