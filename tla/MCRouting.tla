------------------------------- MODULE MCRouting -------------------------------
(* Small instances of RequestRouting for TLC.                                *)
EXTENDS RequestRouting

CONSTANTS p, d, r1, r2

MCInst == {p, d}

MCPrefill == {p}

MCOwn == {p, d}

MCReq == {r1, r2}

MCOneReq == {r1}
===============================================================================
