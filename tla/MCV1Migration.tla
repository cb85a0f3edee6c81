--------------------------- MODULE MCV1Migration ---------------------------
(***************************************************************************)
(* One prefill and two decoding instances, one request and two tasks.  The *)
(* first migration goes to b; three are enough to come back to an instance *)
(* that has exported the request.                                          *)
(***************************************************************************)
EXTENDS V1Migration

CONSTANTS a, b, c, r1, t1, t2

MCInstPD == {a, b, c}
MCPrefill == {a}
MCOneReq == {r1}
MCPairs == {<<a, b>>, <<b, c>>, <<c, b>>}
MCTask == {t1, t2}
=============================================================================
