---------------------------- MODULE MCReceiver ------------------------------
(***************************************************************************)
(* Liveness of the receivers: those of PeerStateMachine, with the events   *)
(* they raise, and one of Receiver, with its streams, side by side. part   *)
(* is the one that moves in a behaviour; the other stays as it begins.     *)
(***************************************************************************)
EXTENDS PeerStateMachine, Receiver, TLC

CONSTANTS s1, s2, m1, m2

VARIABLE part

V1(start, length) == [version |-> 1, start |-> start, length |-> length]
Stray(start) == [version |-> 0, start |-> start, length |-> 1]

SomeStreams == {<<V1(0, 3), Stray(3), V1(4, 2)>>, <<V1(0, 4)>>}

BothInit ==
  /\ part \in {"peer", "streams"}
  /\ part = "peer" => stream = <<V1(0, 4)>>
  /\ Init /\ StreamInit

BothNext ==
  /\ UNCHANGED part
  /\ \/ part = "peer" /\ Next /\ UNCHANGED streamVars
     \/ part = "streams" /\ StreamNext /\ UNCHANGED vars

\* The fairness of both modules, each for its own part.
BothSpec ==
  /\ BothInit /\ [][BothNext]_<<part, vars, streamVars>>
  /\ WF_vars(part = "peer" /\ TimePasses)
  /\ WF_vars(part = "peer" /\ TimerStep)
  /\ \A c \in Conns : /\ SF_vars(part = "peer" /\ ReceiverStep(c))
                      /\ WF_vars(part = "peer" /\ ~open[c] /\ Lose(c))
  /\ WF_streamVars(part = "streams" /\ Serve)
  /\ \A s \in Senders : WF_streamVars(part = "streams" /\ Send(s))

\* What is in the pipe of a receiver that serves is written; m1 may be sent by either
\* sender, before or after m2, so it stands for both.
PipeServed == Served(m1)
=============================================================================
