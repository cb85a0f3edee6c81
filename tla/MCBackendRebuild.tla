-------------------------- MODULE MCBackendRebuild --------------------------
(***************************************************************************)
(* Three instances that join and leave.                                    *)
(***************************************************************************)
EXTENDS BackendRebuild, TLC

CONSTANTS a, b, c, t1, t2

MCInst == {a, b, c}
MCTask == {t1, t2}
=============================================================================
