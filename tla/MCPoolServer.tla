----------------------------- MODULE MCPoolServer -----------------------------
(* PoolServer with one worker: the destructor waits for each in turn, and    *)
(* one is enough to be waited for.                                           *)
EXTENDS PoolServer

CONSTANTS w1

OneWorker == {w1}
Off == {FALSE}
OnOff == {TRUE, FALSE}
=============================================================================
