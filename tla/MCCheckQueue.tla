----------------------------- MODULE MCCheckQueue -----------------------------
(* CheckQueue with two workers and blocks of a few checks.                   *)
EXTENDS CheckQueue

CONSTANTS w1, w2

MCWorker == {w1, w2}
MCBatches == {<<TRUE>>, <<FALSE>>, <<TRUE, TRUE, TRUE>>, <<TRUE, FALSE>>}
SmallBatches == {<<TRUE>>, <<FALSE>>, <<TRUE, TRUE>>}
=============================================================================
