------------------------------ MODULE MCKvEvents ------------------------------
(* Two prompts that share their first block, one with a partial block.      *)
EXTENDS KvEvents

CONSTANTS t, u

MCPrompt == {<<t, t, u>>, <<t, t, u, u>>}
===============================================================================
