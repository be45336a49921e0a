--------------------------- MODULE MCTaskQueue ---------------------------
(***************************************************************************)
(* Finite instances of TaskQueue.                                          *)
(***************************************************************************)
EXTENDS TaskQueue, TLC

CONSTANTS r1, r2, w1, w2, m1, m2, m3, m4

MCReceivers == {r1, r2}
MCWorkers == {w1, w2}
MCMsgs == {m1, m2, m3}
OneWorker == {w1}
FourMsgs == {m1, m2, m3, m4}
TwoMsgs == {m1, m2}
Symmetry == Permutations(MCWorkers) \cup Permutations(Msgs)
==========================================================================
