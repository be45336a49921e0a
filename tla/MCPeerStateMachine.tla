------------------------- MODULE MCPeerStateMachine -------------------------
(* Instances of PeerStateMachine for TLC. *)
EXTENDS PeerStateMachine, TLC

CONSTANTS i1, i2, r1, r2

MCInitiated == {i1, i2}
MCOneInitiated == {i1}
MCAccepted == {r1, r2}
MCOneAccepted == {r1}
MCFds == {3, 4}
MCOneFd == {3}

Symmetry == Permutations(MCInitiated) \cup Permutations(MCAccepted)
=============================================================================
