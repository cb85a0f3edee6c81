------------------------------- MODULE MCOutputs -------------------------------
(* A small instance of OutputDelivery for TLC.                               *)
EXTENDS OutputDelivery

CONSTANTS r1, r2, s1, s2

MCReq == {r1, r2}

MCSrv == {s1, s2}

\* One server for both requests, or one each.
MCPlacements == {f \in [MCReq -> MCSrv] : f[r1] = s1}
===============================================================================
