----------------------------- MODULE MCDeployment -----------------------------
(* Small instances of Deployment for TLC.                                    *)
EXTENDS Deployment, TLC

CONSTANTS i1, i2, i3

MCIds == {i1, i2, i3}

MCTwoIds == {i1, i2}

Symmetry == Permutations(MCIds)
===============================================================================
