---------------------------- MODULE MessageLife ------------------------------
(***************************************************************************)
(* Who has a Diameter message and who frees it. Messages lie in shared     *)
(* memory and only pointers to them travel: through the pipe of a receiver *)
(* (peer_send_msg), through the queue of tasks (put_task, take_task) and   *)
(* from a worker to the caller of AAASendRecvMessageToPeer (api_callback). *)
(*                                                                         *)
(* The order in the pipe and in the queue is that of Receiver and          *)
(* TaskQueue; here both are sets.                                          *)
(***************************************************************************)
EXTENDS Naturals

CONSTANTS
  Msgs,     \* the AAAMessage structures of a run
  Callers,  \* processes in AAASendRecvMessageToPeer
  Workers,
  NoMsg

ASSUME LifeAssumption == NoMsg \notin Msgs

VARIABLES
  class,       \* what each message is, or "none" before it exists
  frees,      \* how often AAAFreeMessage was called on it
  pipe, tasks,\* the pointers in the pipe and in the queue
  rpc, hand,  \* where the receiver is, and its msg
  wpc, task,  \* where each worker is, and its t.msg
  asked,      \* the request each caller waits for an answer to
  answer,     \* t->ans of its transaction
  forgotten,  \* messages whose last pointer was dropped by the receiver
  down        \* *shutdownx

lifeVars == <<class, frees, pipe, tasks, rpc, hand, wpc, task, asked, answer, forgotten, down>>

LifeInit ==
  /\ class = [m \in Msgs |-> "none"] /\ frees = [m \in Msgs |-> 0]
  /\ pipe = {} /\ tasks = {} /\ forgotten = {} /\ down = FALSE
  /\ rpc = "read" /\ hand = NoMsg
  /\ wpc = [w \in Workers |-> "idle"] /\ task = [w \in Workers |-> NoMsg]
  /\ asked = [c \in Callers |-> NoMsg] /\ answer = [c \in Callers |-> NoMsg]

New(m, k) == class[m] = "none" /\ class' = [class EXCEPT ![m] = k]

Free(m) == frees' = [frees EXCEPT ![m] = @ + 1]

Serving == rpc \notin {"ended", "crashed"}

(************************** Sending a message ****************************)

\* AAASendMessageToPeer and AAASendRecvMessageToPeer: the pointer goes into the pipe.
\* After that the sender does not touch the message.
Sent(m) ==
  /\ New(m, "own") /\ Serving
  /\ pipe' = pipe \cup {m}
  /\ UNCHANGED frees

\* No peer, no connection or no pipe: both free what they could not send.
NotSent(m) ==
  /\ New(m, "own") /\ Free(m)
  /\ UNCHANGED pipe

Ask(c, m) ==
  /\ asked[c] = NoMsg
  /\ \/ Sent(m) /\ asked' = [asked EXCEPT ![c] = m]
     \/ NotSent(m) /\ UNCHANGED asked
  /\ UNCHANGED <<tasks, rpc, hand, wpc, task, answer, forgotten, down>>

\* A mutant: Ro_CCR frees its request when no answer came, as it does on errors.
TimedOutFrees(c) ==
  /\ asked[c] # NoMsg /\ answer[c] = NoMsg
  /\ Free(asked[c])
  /\ asked' = [asked EXCEPT ![c] = NoMsg]
  /\ UNCHANGED <<class, pipe, tasks, rpc, hand, wpc, task, answer, forgotten, down>>

\* trans_timer ends the transaction without an answer.
TimedOut(c) ==
  /\ asked[c] # NoMsg /\ answer[c] = NoMsg
  /\ asked' = [asked EXCEPT ![c] = NoMsg]
  /\ UNCHANGED <<class, frees, pipe, tasks, rpc, hand, wpc, task, answer, forgotten, down>>

\* Ro_CCR or Rf_ACR returns the answer to event_handler, which only tests it for 0.
Heard(c) ==
  /\ answer[c] # NoMsg
  /\ asked' = [asked EXCEPT ![c] = NoMsg] /\ answer' = [answer EXCEPT ![c] = NoMsg]
  /\ UNCHANGED <<class, frees, pipe, tasks, rpc, hand, wpc, task, forgotten, down>>

(**************************** The receiver *******************************)

\* select_recv writes a message from the pipe to the socket and frees it.
WriteOut(m) ==
  /\ rpc = "read" /\ m \in pipe
  /\ Free(m) /\ pipe' = pipe \ {m}
  /\ UNCHANGED <<class, tasks, rpc, hand, wpc, task, asked, answer, forgotten, down>>

\* Its connection is lost, or writing m to it failed: what is left in the pipe is lost.
End ==
  /\ rpc = "read"
  /\ rpc' = "ended"
  /\ \E gone \in {{}} \cup {{m} : m \in pipe} :
       /\ frees' = [m \in Msgs |-> IF m \in gone THEN frees[m] + 1 ELSE frees[m]]
       /\ forgotten' = forgotten \cup (pipe \ gone)
  /\ pipe' = {}
  /\ UNCHANGED <<class, tasks, hand, wpc, task, asked, answer, down>>

\* The peer is connected again, by another receiver.
Reconnect ==
  /\ rpc = "ended" /\ ~down
  /\ rpc' = "read"
  /\ UNCHANGED <<class, frees, pipe, tasks, hand, wpc, task, asked, answer, forgotten, down>>

\* receive_loop has read a whole message. "base" stands for the messages of the peer
\* itself: capabilities, watch-dog, disconnection.
Arrive(m) ==
  /\ rpc = "read"
  /\ \E k \in {"request", "answer", "base"} : New(m, k)
  /\ hand' = m /\ rpc' = "got"
  /\ UNCHANGED <<frees, pipe, tasks, wpc, task, asked, answer, forgotten, down>>

\* receive_message: an unknown peer, or one that is not open.
Ignore ==
  /\ rpc = "got"
  /\ Free(hand) /\ hand' = NoMsg /\ rpc' = "read"
  /\ UNCHANGED <<class, pipe, tasks, wpc, task, asked, answer, forgotten, down>>

\* sm_process: the state has changed since receive_message looked at it, or the event
\* needs no message. It returns without freeing the message.
Invalid ==
  /\ rpc = "got"
  /\ forgotten' = forgotten \cup {hand} /\ hand' = NoMsg /\ rpc' = "read"
  /\ UNCHANGED <<class, frees, pipe, tasks, wpc, task, asked, answer, down>>

\* Process_DWA, Snd_DWA, Snd_DPA and Snd_CEA free what they process, and the reply that
\* peer_send_msg did not take is forgotten.
Handle ==
  /\ rpc = "got" /\ class[hand] = "base"
  /\ Free(hand) /\ hand' = NoMsg /\ rpc' = "read"
  /\ \/ UNCHANGED <<class, pipe, forgotten>>
     \/ \E n \in Msgs :
          /\ New(n, "reply")
          /\ \/ pipe' = pipe \cup {n} /\ UNCHANGED forgotten
             \/ forgotten' = forgotten \cup {n} /\ UNCHANGED pipe
  /\ UNCHANGED <<tasks, wpc, task, asked, answer, down>>

\* Process_CEA frees the answer and reads its Result-Code afterwards.
HandleCEA ==
  /\ rpc = "got" /\ class[hand] = "base"
  /\ Free(hand) /\ rpc' = "late"
  /\ UNCHANGED <<class, pipe, tasks, hand, wpc, task, asked, answer, forgotten, down>>

\* Rcv_Process puts the message into the queue and prints it afterwards.
Queue ==
  /\ rpc = "got" /\ class[hand] \in {"request", "answer"}
  /\ tasks' = tasks \cup {hand} /\ rpc' = "late"
  /\ UNCHANGED <<class, frees, pipe, hand, wpc, task, asked, answer, forgotten, down>>

Late ==
  /\ rpc = "late"
  /\ hand' = NoMsg /\ rpc' = "read"
  /\ UNCHANGED <<class, frees, pipe, tasks, wpc, task, asked, answer, forgotten, down>>

\* put_task refuses, which it does on a shutdown only: AAAFreeMessage sets msg to 0, and
\* printing that ends the process.
Refuse ==
  /\ rpc = "got" /\ class[hand] \in {"request", "answer"} /\ down
  /\ Free(hand) /\ hand' = NoMsg
  /\ rpc' = "crashed" /\ forgotten' = forgotten \cup pipe /\ pipe' = {}
  /\ UNCHANGED <<class, tasks, wpc, task, asked, answer, down>>

(**************************** The workers ********************************)

Take(w) ==
  /\ wpc[w] = "idle" /\ ~down
  /\ \E m \in tasks :
       tasks' = tasks \ {m} /\ task' = [task EXCEPT ![w] = m]
  /\ wpc' = [wpc EXCEPT ![w] = "api"]
  /\ UNCHANGED <<class, frees, pipe, rpc, hand, asked, answer, forgotten, down>>

\* api_callback: take_trans finds the transaction of an answer, if it has not ended.
Api(w) ==
  /\ wpc[w] = "api"
  /\ wpc' = [wpc EXCEPT ![w] = "incoming"]
  /\ \/ UNCHANGED answer
     \/ \E c \in Callers :
          /\ class[task[w]] = "answer" /\ asked[c] # NoMsg /\ answer[c] = NoMsg
          /\ answer' = [answer EXCEPT ![c] = task[w]]
  /\ UNCHANGED <<class, frees, pipe, tasks, rpc, hand, task, asked, forgotten, down>>

\* process_incoming, which answers a request.
Incoming(w) ==
  /\ wpc[w] = "incoming"
  /\ wpc' = [wpc EXCEPT ![w] = "done"]
  /\ IF class[task[w]] = "request"
     THEN UNCHANGED <<class, frees, pipe>> \/ \E n \in Msgs : Sent(n) \/ NotSent(n)
     ELSE UNCHANGED <<class, frees, pipe>>
  /\ UNCHANGED <<tasks, rpc, hand, task, asked, answer, forgotten, down>>

\* The end of the loop of worker_process: "will be freed by the user in upper api".
Done(w) ==
  /\ wpc[w] = "done"
  /\ IF class[task[w]] = "request" THEN Free(task[w]) ELSE UNCHANGED frees
  /\ task' = [task EXCEPT ![w] = NoMsg] /\ wpc' = [wpc EXCEPT ![w] = "idle"]
  /\ UNCHANGED <<class, pipe, tasks, rpc, hand, asked, answer, forgotten, down>>

(**************************** The shutdown *******************************)

BeginShutdown ==
  /\ ~down /\ down' = TRUE
  /\ UNCHANGED <<class, frees, pipe, tasks, rpc, hand, wpc, task, asked, answer, forgotten>>

\* worker_destroy frees the tasks that no worker has taken.
Destroy ==
  /\ down /\ tasks # {} /\ \A w \in Workers : wpc[w] = "idle"
  /\ frees' = [m \in Msgs |-> IF m \in tasks THEN frees[m] + 1 ELSE frees[m]]
  /\ tasks' = {}
  /\ UNCHANGED <<class, pipe, rpc, hand, wpc, task, asked, answer, forgotten, down>>

LifeNext ==
  \/ \E c \in Callers : TimedOut(c) \/ Heard(c) \/ \E m \in Msgs : Ask(c, m)
  \/ \E m \in Msgs : WriteOut(m) \/ Arrive(m)
  \/ End \/ Reconnect \/ Ignore \/ Invalid \/ Handle \/ HandleCEA \/ Queue \/ Late \/ Refuse
  \/ \E w \in Workers : Take(w) \/ Api(w) \/ Incoming(w) \/ Done(w)
  \/ BeginShutdown \/ Destroy

LifeSpec == LifeInit /\ [][LifeNext]_lifeVars

(***************************** Properties ********************************)

LifeTypeOK ==
  /\ class \in [Msgs -> {"none", "own", "reply", "request", "answer", "base"}]
  /\ frees \in [Msgs -> Nat]
  /\ pipe \subseteq Msgs /\ tasks \subseteq Msgs /\ forgotten \subseteq Msgs
  /\ rpc \in {"read", "got", "late", "ended", "crashed"} /\ hand \in Msgs \cup {NoMsg}
  /\ wpc \in [Workers -> {"idle", "api", "incoming", "done"}]
  /\ task \in [Workers -> Msgs \cup {NoMsg}]
  /\ asked \in [Callers -> Msgs \cup {NoMsg}] /\ answer \in [Callers -> Msgs \cup {NoMsg}]
  /\ down \in BOOLEAN

\* A pointer to m is somewhere from where it will be used.
InUse(m) ==
  \/ m \in pipe \cup tasks
  \/ hand = m /\ rpc = "got"
  \/ \E w \in Workers : task[w] = m
  \/ \E c \in Callers : answer[c] = m

\* No message is freed twice (AAAFreeMessage is called in six places on pointers that
\* came from other processes).
FreedOnce == \A m \in Msgs : frees[m] <= 1

\* A freed message is used no more, but for the two reads that come too late in the
\* receiver (Rcv_Process, Process_CEA).
NotUsedFreed == \A m \in Msgs : InUse(m) => frees[m] = 0

\* Requests that were received, and messages that were sent, are freed in the end,
\* unless the receiver forgot them.
NothingLost ==
  \A m \in Msgs :
    class[m] \in {"own", "request"} /\ ~InUse(m) => frees[m] = 1 \/ m \in forgotten

\* Whoever frees a message is the last to use it, and somebody does.
FreedByTheLast == FreedOnce /\ NotUsedFreed /\ NothingLost

\* "will be freed by the user in upper api" (worker.c:340): an answer that was heard
\* is freed.
AnswersAreFreed ==
  \A m \in Msgs :
    class[m] = "answer" /\ ~InUse(m) => frees[m] = 1 \/ m \in forgotten
============================================================================
