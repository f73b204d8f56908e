---------------------------- MODULE MCPrimeWorker ----------------------------
(* PrimeWorker with one or two workers and three solutions: a share, a      *)
(* block, and one whose chain is shorter than its client claims.             *)
EXTENDS PrimeWorker

CONSTANTS w1, w2

One == {w1}
Two == {w1, w2}
AShare == [claimed |-> 8, length |-> 8, isblock |-> FALSE]
ABlock == [claimed |-> 10, length |-> 10, isblock |-> TRUE]
TooShort == [claimed |-> 8, length |-> 7, isblock |-> FALSE]
Both == {AShare, ABlock}
All == {AShare, ABlock, TooShort}
OnlyBlock == {ABlock}
Symmetry == {[w \in Two |-> w], [w \in Two |-> IF w = w1 THEN w2 ELSE w1]}
=============================================================================
