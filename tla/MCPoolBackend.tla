---------------------------- MODULE MCPoolBackend ----------------------------
(* PoolBackend on a small instance: the pool's own address and a miner with  *)
(* a valid address, and one with an invalid one.  COIN is small, so that few *)
(* shares lead to requests; the periods are short, so that a pass of every   *)
(* kind is near.                                                             *)
EXTENDS PoolBackend

MCAddr == {1, 2}
MCValidAddr == {1}
MCPoolAddress == 1
MCAddrMinPayout == [a \in MCAddr |-> 0]
MCLengths == {8, 10, 11}
OneAddr == {1}
OneAddrMinPayout == [a \in OneAddr |-> 0]
OneLength == {8}
MCGenValues == {20}
SmallGenValues == {10}
Fault == {"sent", "failed", "rejected"}
NoFault == {"sent"}
=============================================================================
