---------------------------- MODULE MCOcsCredit ----------------------------
(***************************************************************************)
(* Finite instances of OcsCredit.                                          *)
(***************************************************************************)
EXTENDS OcsCredit, TLC

CONSTANTS w1, w2, c1, c2, a1, a2

OneWorker == {w1}
TwoWorkers == {w1, w2}
OneCid == {c1}
TwoCids == {c1, c2}
TwoAddrs == {a1, a2}
LowGarbage == {-1, 3}
ZeroGarbage == {0}
Symmetry == Permutations(TwoWorkers) \cup Permutations(TwoCids)
              \cup Permutations(TwoAddrs)
============================================================================
