--------------------------- MODULE ChargingSession --------------------------
(***************************************************************************)
(* What the charging trigger function promises the servers about a call:   *)
(* START, any number of INTERIMs, STOP, in this order; seconds are used in *)
(* between only, and none is reported before it was used or twice. Of a    *)
(* call whose START fails nothing is promised.                             *)
(***************************************************************************)
EXTENDS Naturals

CONSTANTS Calls, MaxUsed

VARIABLES phase, used, reported

Init ==
  /\ phase = [c \in Calls |-> "none"]
  /\ used = [c \in Calls |-> 0] /\ reported = [c \in Calls |-> 0]

Start(c) ==
  /\ phase[c] = "none"
  /\ phase' = [phase EXCEPT ![c] = "open"]
  /\ UNCHANGED <<used, reported>>

Fail(c) ==
  /\ phase[c] = "none"
  /\ phase' = [phase EXCEPT ![c] = "failed"]
  /\ UNCHANGED <<used, reported>>

Failed(c) ==
  /\ phase[c] = "failed"
  /\ used' = [used EXCEPT ![c] = used'[c]]
  /\ reported' = [reported EXCEPT ![c] = reported'[c]]
  /\ UNCHANGED phase

Second(c) ==
  /\ phase[c] = "open"
  /\ used' = [used EXCEPT ![c] = @ + 1]
  /\ UNCHANGED <<phase, reported>>

Report(c) ==
  \E n \in 0 .. MaxUsed :
    /\ reported[c] + n <= used[c]
    /\ reported' = [reported EXCEPT ![c] = @ + n]

Interim(c) == phase[c] = "open" /\ Report(c) /\ UNCHANGED <<phase, used>>

Stop(c) ==
  /\ phase[c] = "open" /\ Report(c)
  /\ phase' = [phase EXCEPT ![c] = "closed"]
  /\ UNCHANGED used

Next ==
  \E c \in Calls :
    Start(c) \/ Fail(c) \/ Failed(c) \/ Second(c) \/ Interim(c) \/ Stop(c)

Spec == Init /\ [][Next]_<<phase, used, reported>>
============================================================================
