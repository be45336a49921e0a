--------------------------- MODULE DiameterCalls ----------------------------
(***************************************************************************)
(* What AAASendRecvMessage promises its callers: a call ends once, in the  *)
(* answer to its own request or in a time-out, and what it ended in is     *)
(* what it returns.                                                        *)
(***************************************************************************)
EXTENDS Naturals

CONSTANTS Callers, MaxReqs

VARIABLES
  call,   \* of each caller: the request, how far it is, and what it ended in
  calls   \* requests so far

TimedOut == 0
NoCall == [state |-> "none", id |-> 0, result |-> TimedOut]

Init == call = [c \in Callers |-> NoCall] /\ calls = 0

Call(c) ==
  /\ call[c].state = "none" /\ calls < MaxReqs
  /\ calls' = calls + 1
  /\ call' = [call EXCEPT ![c] = [state |-> "open", id |-> calls + 1,
                                  result |-> TimedOut]]

\* A request that nobody waits for.
Post == calls < MaxReqs /\ calls' = calls + 1 /\ UNCHANGED call

End(c, result) ==
  /\ call[c].state = "open"
  /\ call' = [call EXCEPT ![c].state = "over", ![c].result = result]
  /\ UNCHANGED calls

Return(c) ==
  /\ call[c].state = "over"
  /\ call' = [call EXCEPT ![c] = NoCall]
  /\ UNCHANGED calls

\* The request could not be sent: no result.
Fail(c) ==
  /\ call[c].state \in {"open", "over"}
  /\ call' = [call EXCEPT ![c] = NoCall]
  /\ UNCHANGED calls

Next ==
  \/ Post
  \/ \E c \in Callers :
       Call(c) \/ End(c, call[c].id) \/ End(c, TimedOut) \/ Return(c) \/ Fail(c)

Spec == Init /\ [][Next]_<<call, calls>>
=============================================================================
