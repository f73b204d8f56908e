------------------------------ MODULE MCKeyPool ------------------------------
(* KeyPool with two reserve keys.                                            *)
EXTENDS KeyPool, TLC

CONSTANTS h1, h2

MCHolder == {h1, h2}
Symmetry == Permutations(MCHolder)
=============================================================================
