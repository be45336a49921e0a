-------------------------- MODULE MCTransactions ---------------------------
(***************************************************************************)
(* Finite instances of Transactions.                                       *)
(***************************************************************************)
EXTENDS Transactions, TLC

CONSTANTS c1, c2, w1, w2, b1, b2, b3, l1, l2, l3

TwoCallers == {c1, c2}
OneCaller == {c1}
NoCallers == {}
OneWorker == {w1}
TwoWorkers == {w1, w2}
ThreeBlocks == {b1, b2, b3}
TwoBlocks == {b1, b2}
TwoLocks == {l1, l2}
ThreeLocks == {l1, l2, l3}
Symmetry == Permutations(TwoCallers) \cup Permutations(TwoWorkers)
              \cup Permutations(ThreeBlocks) \cup Permutations(TwoLocks)
============================================================================
