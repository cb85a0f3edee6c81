-------------------------- MODULE MCLiveMigration --------------------------
(***************************************************************************)
(* Instances of LiveMigration for TLC: two unified instances, and a        *)
(* prefill instance with two decoding instances.                           *)
(***************************************************************************)
EXTENDS LiveMigrationOwnership, TLC

CONSTANTS a, b, c, r1, r2

MCInst == {a, b}
MCInstPD == {a, b, c}
MCPrefill == {a}
MCReq == {r1, r2}
MCOneReq == {r1}

SymmetryPD == Permutations(MCReq) \cup Permutations(MCInstPD \ MCPrefill)
=============================================================================
