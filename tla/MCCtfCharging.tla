--------------------------- MODULE MCCtfCharging ---------------------------
(***************************************************************************)
(* Finite instances of CtfCharging.                                        *)
(***************************************************************************)
EXTENDS CtfCharging, TLC

CONSTANTS a, b, w1, w2

OneCall == {a}
TwoCalls == {a, b}
OneWorker == {w1}
TwoWorkers == {w1, w2}
Zeroed == {"none"}
AnyGarbage == {"none", "SStart", "SStop"}
SomeGrants == {0, 2}
============================================================================
