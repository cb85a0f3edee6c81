------------------------------ MODULE MCKvHandoff ------------------------------
(* A prefill and a decoding instance for TLC.                                 *)
EXTENDS KvHandoff

CONSTANTS p1, d1, r1, r2

MCPrefill == {p1}
MCDecode == {d1}
MCReq == {r1, r2}
MCOneReq == {r1}
===============================================================================
