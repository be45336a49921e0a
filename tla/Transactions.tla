---------------------------- MODULE Transactions ----------------------------
(***************************************************************************)
(* The transactions of the Diameter peer: AAASendRecvMessage[ToPeer] and   *)
(* AAASendMessage[ToPeer] add a transaction and send the request; a worker *)
(* that has its answer (api_callback) or the timer (trans_timer) ends it.  *)
(* The list is kept with its pointers and the transactions and locks in    *)
(* blocks of shared memory, for trans_timer reads a transaction after it   *)
(* has woken the caller that frees it.                                     *)
(***************************************************************************)
EXTENDS Integers, FiniteSets

CONSTANTS
  Callers,       \* processes that send requests
  TimerCallers,  \* those of them that are callbacks of the timer process
  Workers,       \* worker processes
  timer,         \* the timer process
  Blocks,        \* shared memory for transactions
  Locks,         \* shared memory for the locks of waiting callers
  Nil,           \* a null pointer, nobody
  MaxReqs,       \* bound on the requests sent
  SendFails,     \* whether peer_send_msg may fail
  Reuse          \* whether memory that is still pointed to may be handed out

ASSUME TransactionsAssumption ==
  /\ TimerCallers \subseteq Callers
  /\ timer \notin Callers \cup Workers /\ Callers \cap Workers = {}
  /\ Nil \notin Callers \cup Workers \cup Blocks \cup Locks \cup {timer}
  /\ MaxReqs \in Nat /\ SendFails \in BOOLEAN /\ Reuse \in BOOLEAN

VARIABLES
  head, tail,  \* trans_list
  mem,         \* the contents of the blocks, which survive their release
  used,        \* the blocks that are allocated
  tlock,       \* trans_list->lock: the process that holds it, or Nil
  heldL,       \* the locks of callers that are taken
  usedL,       \* the locks of callers that are allocated
  pc,          \* where each process is
  cur,         \* t of a caller and of a worker, x of the timer
  nxt,         \* n of the timer
  lk,          \* the lock a caller waits for
  req,         \* the request of a caller, the answer in a worker's hand
  sent,        \* requests that the other side may still answer
  reqs,        \* requests so far: their identifiers are 1, 2, ...
  orphans      \* transactions whose caller could not send and gave up

memory == <<head, tail, mem, used, tlock>>
vars == <<head, tail, mem, used, tlock, heldL, usedL, pc, cur, nxt, lk, req,
          sent, reqs, orphans>>

Procs == Callers \cup Workers \cup {timer}
Ids == 1 .. MaxReqs
TimedOut == 0

\* cdp_trans_t. A lock stands for the callback sendrecv_cb with its parameter;
\* without one the callback is the user's and the transaction is auto_drop.
Transaction ==
  [next : Blocks \cup {Nil}, prev : Blocks \cup {Nil}, id : Ids \cup {0},
   expired : BOOLEAN, ans : Ids \cup {TimedOut}, lock : Locks \cup {Nil}]

autoDrop(x) == mem[x].lock = Nil

Init ==
  /\ head = Nil /\ tail = Nil
  /\ mem = [b \in Blocks |-> [next |-> Nil, prev |-> Nil, id |-> 0,
                              expired |-> FALSE, ans |-> TimedOut, lock |-> Nil]]
  /\ used = {} /\ tlock = Nil
  /\ heldL = {} /\ usedL = {}
  /\ pc = [p \in Procs |-> "idle"]
  /\ cur = [p \in Procs |-> Nil] /\ nxt = Nil
  /\ lk = [c \in Callers |-> Nil]
  /\ req = [p \in Callers \cup Workers |-> 0]
  /\ sent = {} /\ reqs = 0 /\ orphans = {}

(***************************** The list **********************************)

\* The transactions that are reached from the head by their pointers: the least set that
\* has the head and whatever follows one of its members.
Closed(S) == head \in S \cup {Nil} /\ \A b \in S : mem[b].next \in S \cup {Nil}

Listed == {b \in Blocks : \A S \in SUBSET Blocks : Closed(S) => b \in S}

\* A mutant: the oldest transaction, whatever the identifier.
FoundHead(i) == {head} \ {Nil}

\* The transaction with the identifier i, as the search of take_trans finds it. Both
\* identifiers of a message grow together, so either one that matches is the same test.
Found(i) == {b \in Listed : mem[b].id = i}

\* A mutant: the pointer back is forgotten.
UnlinkForward(x) ==
  [b \in Blocks |->
    [mem[b] EXCEPT !.next = IF mem[x].prev = b THEN mem[x].next ELSE @]]

\* The fields of the list after x is taken out through its own pointers.
UnlinkMem(x) ==
  [b \in Blocks |->
    [mem[b] EXCEPT
      !.next = IF mem[x].prev = b THEN mem[x].next ELSE @,
      !.prev = IF mem[x].next = b THEN mem[x].prev ELSE @]]

Unlink(x) ==
  /\ mem' = UnlinkMem(x)
  /\ head' = IF mem[x].prev = Nil THEN mem[x].next ELSE head
  /\ tail' = IF mem[x].next = Nil THEN mem[x].prev ELSE tail

(**************************** The callers *********************************)

\* The timer process is busy with a callback of its own.
TimerBusy == pc[timer] # "idle" \/ \E c \in TimerCallers : pc[c] # "idle"

FreshBlock(b) == b \notin used /\ (Reuse \/ b # cur[timer])

FreshLock(l) ==
  l \notin usedL /\ (Reuse \/ \A b \in orphans : mem[b].lock # l)

\* add_trans up to its lock: ans and prev are left as they were.
NewTransaction(b, l) ==
  /\ used' = used \cup {b}
  /\ mem' = [mem EXCEPT ![b] = [next |-> Nil, prev |-> @.prev, id |-> reqs + 1,
                                expired |-> FALSE, ans |-> @.ans, lock |-> l]]

\* AAASendRecvMessage: a lock of its own, taken, and a transaction.
SendRecv(c) ==
  /\ pc[c] = "idle" /\ reqs < MaxReqs
  /\ c \in TimerCallers => ~TimerBusy
  /\ \E b \in Blocks, l \in Locks :
       /\ FreshBlock(b) /\ FreshLock(l)
       /\ NewTransaction(b, l)
       /\ usedL' = usedL \cup {l} /\ heldL' = heldL \cup {l}
       /\ cur' = [cur EXCEPT ![c] = b] /\ lk' = [lk EXCEPT ![c] = l]
  /\ reqs' = reqs + 1 /\ req' = [req EXCEPT ![c] = reqs + 1]
  /\ pc' = [pc EXCEPT ![c] = "link"]
  /\ UNCHANGED <<head, tail, tlock, nxt, sent, orphans>>

\* AAASendMessage with a callback: nobody waits.
SendAsync(c) ==
  /\ pc[c] = "idle" /\ reqs < MaxReqs
  /\ c \in TimerCallers => ~TimerBusy
  /\ \E b \in Blocks :
       /\ FreshBlock(b) /\ NewTransaction(b, Nil)
       /\ cur' = [cur EXCEPT ![c] = b]
  /\ lk' = [lk EXCEPT ![c] = Nil]
  /\ reqs' = reqs + 1 /\ req' = [req EXCEPT ![c] = reqs + 1]
  /\ pc' = [pc EXCEPT ![c] = "link"]
  /\ UNCHANGED <<head, tail, tlock, heldL, usedL, nxt, sent, orphans>>

\* The critical section of add_trans.
Link(c) ==
  LET b == cur[c] IN
  /\ pc[c] = "link" /\ tlock = Nil
  /\ mem' = [x \in Blocks |->
              [mem[x] EXCEPT !.prev = IF x = b THEN tail ELSE @,
                             !.next = IF x = tail THEN b ELSE @]]
  /\ tail' = b
  /\ head' = IF head = Nil THEN b ELSE head
  /\ pc' = [pc EXCEPT ![c] = "send"]
  /\ UNCHANGED <<used, tlock, heldL, usedL, cur, nxt, lk, req, sent, reqs, orphans>>

\* The caller is in AAASendRecvMessage: it has a lock to wait for.
waits(c) == lk[c] # Nil

SendOk(c) ==
  /\ pc[c] = "send"
  /\ sent' = sent \cup {req[c]}
  /\ pc' = [pc EXCEPT ![c] = IF waits(c) THEN "wait" ELSE "idle"]
  /\ cur' = [cur EXCEPT ![c] = IF waits(c) THEN @ ELSE Nil]
  /\ req' = [req EXCEPT ![c] = IF waits(c) THEN @ ELSE 0]
  /\ UNCHANGED <<memory, heldL, usedL, nxt, lk, reqs, orphans>>

\* The caller frees its lock and returns; its transaction stays in the list.
SendFail(c) ==
  /\ SendFails /\ pc[c] = "send"
  /\ usedL' = usedL \ {lk[c]}
  /\ orphans' = IF waits(c) THEN orphans \cup {cur[c]} ELSE orphans
  /\ pc' = [pc EXCEPT ![c] = "idle"]
  /\ cur' = [cur EXCEPT ![c] = Nil] /\ lk' = [lk EXCEPT ![c] = Nil]
  /\ req' = [req EXCEPT ![c] = 0]
  /\ UNCHANGED <<memory, heldL, nxt, sent, reqs>>

\* lock_get(lock) returns: somebody has released it.
Wake(c) ==
  /\ pc[c] = "wait" /\ lk[c] \notin heldL
  /\ usedL' = usedL \ {lk[c]}
  /\ lk' = [lk EXCEPT ![c] = Nil]
  /\ pc' = [pc EXCEPT ![c] = "collect"]
  /\ UNCHANGED <<memory, heldL, cur, nxt, req, sent, reqs, orphans>>

\* ans = t->ans; free_trans(t).
Collect(c) ==
  /\ pc[c] = "collect"
  /\ used' = used \ {cur[c]}
  /\ cur' = [cur EXCEPT ![c] = Nil] /\ req' = [req EXCEPT ![c] = 0]
  /\ pc' = [pc EXCEPT ![c] = "idle"]
  /\ UNCHANGED <<head, tail, mem, tlock, heldL, usedL, nxt, lk, sent, reqs,
                 orphans>>

(***************************** The workers *******************************)

\* A worker takes the answer to a request from the queue. An answer may be late,
\* and the answers of two requests may come in any order.
Deliver(w) ==
  /\ pc[w] = "idle"
  /\ \E i \in sent : req' = [req EXCEPT ![w] = i] /\ sent' = sent \ {i}
  /\ pc' = [pc EXCEPT ![w] = "take"]
  /\ UNCHANGED <<memory, heldL, usedL, cur, nxt, lk, reqs, orphans>>

\* take_trans finds the transaction of the answer and unlinks it.
Take(w) ==
  /\ pc[w] = "take" /\ tlock = Nil
  /\ \E x \in Found(req[w]) :
       /\ Unlink(x)
       /\ cur' = [cur EXCEPT ![w] = x]
  /\ pc' = [pc EXCEPT ![w] = "answer"]
  /\ UNCHANGED <<used, tlock, heldL, usedL, nxt, lk, req, sent, reqs, orphans>>

\* The search ends, or goes round for ever with the lock if the list is a circle.
Circular == head # Nil /\ \A b \in Listed : mem[b].next # Nil

\* take_trans finds nothing: the transaction has timed out.
TakeNone(w) ==
  /\ pc[w] = "take" /\ tlock = Nil /\ Found(req[w]) = {}
  /\ tlock' = IF Circular THEN w ELSE Nil
  /\ pc' = [pc EXCEPT ![w] = IF Circular THEN "spin" ELSE "idle"]
  /\ req' = [req EXCEPT ![w] = 0]
  /\ UNCHANGED <<head, tail, mem, used, heldL, usedL, cur, nxt, lk, sent, reqs,
                 orphans>>

\* What api_callback frees after the callback, from auto_drop as it was before.
Dropped(x) == IF autoDrop(x) THEN {x} ELSE {}

\* api_callback: t->ans = msg, sendrecv_cb, and free_trans of an auto_drop.
CallBack(w) ==
  LET x == cur[w] IN
  /\ pc[w] = "answer"
  /\ mem' = [mem EXCEPT ![x].ans = req[w]]
  /\ heldL' = heldL \ {mem[x].lock}
  /\ used' = used \ Dropped(x)
  /\ cur' = [cur EXCEPT ![w] = Nil] /\ req' = [req EXCEPT ![w] = 0]
  /\ pc' = [pc EXCEPT ![w] = "idle"]
  /\ UNCHANGED <<head, tail, tlock, usedL, nxt, lk, sent, reqs, orphans>>

(****************************** The timer ********************************)

\* Five seconds have passed since the transaction was added. Time passes between
\* the passes of the timer, which look at the clock once.
Expire(b) ==
  /\ b \in used /\ ~mem[b].expired /\ pc[timer] = "idle"
  /\ mem' = [mem EXCEPT ![b].expired = TRUE]
  /\ UNCHANGED <<head, tail, used, tlock, heldL, usedL, pc, cur, nxt, lk, req,
                 sent, reqs, orphans>>

TimerStart ==
  /\ ~TimerBusy /\ tlock = Nil
  /\ tlock' = timer
  /\ cur' = [cur EXCEPT ![timer] = head]
  /\ pc' = [pc EXCEPT ![timer] = "scan"]
  /\ UNCHANGED <<head, tail, mem, used, heldL, usedL, nxt, lk, req, sent, reqs,
                 orphans>>

TimerSkip ==
  /\ pc[timer] = "scan" /\ cur[timer] # Nil /\ ~mem[cur[timer]].expired
  /\ cur' = [cur EXCEPT ![timer] = mem[cur[timer]].next]
  /\ UNCHANGED <<memory, heldL, usedL, pc, nxt, lk, req, sent, reqs, orphans>>

\* A mutant: the answer keeps what was in the block before.
TimerFireStale ==
  LET x == cur[timer] IN
  /\ pc[timer] = "scan" /\ x # Nil /\ mem[x].expired
  /\ heldL' = heldL \ {mem[x].lock}
  /\ pc' = [pc EXCEPT ![timer] = "next"]
  /\ UNCHANGED <<head, tail, mem, used, tlock, usedL, cur, nxt, lk, req, sent, reqs,
                 orphans>>

\* A mutant: the callback is not called.
TimerFireSilent ==
  LET x == cur[timer] IN
  /\ pc[timer] = "scan" /\ x # Nil /\ mem[x].expired
  /\ mem' = [mem EXCEPT ![x].ans = TimedOut]
  /\ pc' = [pc EXCEPT ![timer] = "next"]
  /\ UNCHANGED <<head, tail, used, tlock, heldL, usedL, cur, nxt, lk, req, sent,
                 reqs, orphans>>

\* x->ans = 0 and the callback, which wakes the caller.
TimerFire ==
  LET x == cur[timer] IN
  /\ pc[timer] = "scan" /\ x # Nil /\ mem[x].expired
  /\ mem' = [mem EXCEPT ![x].ans = TimedOut]
  /\ heldL' = heldL \ {mem[x].lock}
  /\ pc' = [pc EXCEPT ![timer] = "next"]
  /\ UNCHANGED <<head, tail, used, tlock, usedL, cur, nxt, lk, req, sent, reqs,
                 orphans>>

\* n = x->next, read when the caller may be gone.
TimerNext ==
  /\ pc[timer] = "next"
  /\ nxt' = mem[cur[timer]].next
  /\ pc' = [pc EXCEPT ![timer] = "unlink"]
  /\ UNCHANGED <<memory, heldL, usedL, cur, lk, req, sent, reqs, orphans>>

TimerUnlink ==
  LET x == cur[timer] IN
  /\ pc[timer] = "unlink"
  /\ Unlink(x)
  /\ used' = used \ Dropped(x)
  /\ cur' = [cur EXCEPT ![timer] = nxt] /\ nxt' = Nil
  /\ pc' = [pc EXCEPT ![timer] = "scan"]
  /\ UNCHANGED <<tlock, heldL, usedL, lk, req, sent, reqs, orphans>>

TimerEnd ==
  /\ pc[timer] = "scan" /\ cur[timer] = Nil
  /\ tlock' = Nil
  /\ pc' = [pc EXCEPT ![timer] = "idle"]
  /\ UNCHANGED <<head, tail, mem, used, heldL, usedL, cur, nxt, lk, req, sent,
                 reqs, orphans>>

TimerStep ==
  TimerStart \/ TimerSkip \/ TimerFire \/ TimerNext \/ TimerUnlink \/ TimerEnd

CallerStep(c) == Link(c) \/ SendOk(c) \/ SendFail(c) \/ Wake(c) \/ Collect(c)

WorkerStep(w) == Take(w) \/ TakeNone(w) \/ CallBack(w)

Next ==
  \/ \E c \in Callers : SendRecv(c) \/ SendAsync(c) \/ CallerStep(c)
  \/ \E w \in Workers : Deliver(w) \/ WorkerStep(w)
  \/ \E b \in Blocks : Expire(b)
  \/ TimerStep

\* Processes are scheduled and time passes; nobody has to send or to answer.
Fairness ==
  /\ \A c \in Callers : SF_vars(CallerStep(c))
  /\ \A w \in Workers : SF_vars(WorkerStep(w))
  /\ SF_vars(\E b \in Blocks : Expire(b))
  /\ SF_vars(TimerStep)

Spec == Init /\ [][Next]_vars /\ Fairness

(***************************** Properties ********************************)

TypeOK ==
  /\ head \in Blocks \cup {Nil} /\ tail \in Blocks \cup {Nil}
  /\ mem \in [Blocks -> Transaction] /\ used \subseteq Blocks
  /\ tlock \in Procs \cup {Nil}
  /\ heldL \subseteq Locks /\ usedL \subseteq Locks
  /\ pc \in [Procs -> {"idle", "link", "send", "wait", "collect", "take",
                       "answer", "spin", "scan", "next", "unlink"}]
  /\ cur \in [Procs -> Blocks \cup {Nil}] /\ nxt \in Blocks \cup {Nil}
  /\ lk \in [Callers -> Locks \cup {Nil}]
  /\ req \in [Callers \cup Workers -> Ids \cup {0}]
  /\ sent \subseteq Ids /\ reqs \in 0 .. MaxReqs /\ orphans \subseteq Blocks

\* Whenever the lock of the list is free the list is a list: it leads from head to
\* tail and back, through allocated transactions only (transaction.c: add_trans,
\* take_trans and trans_timer leave the pointers whole).
ListSound ==
  tlock = Nil =>
    /\ (head = Nil) = (tail = Nil)
    /\ head # Nil => mem[head].prev = Nil /\ mem[tail].next = Nil /\ tail \in Listed
    /\ \A b \in Listed :
         /\ b \in used
         /\ b # tail => mem[b].next \in Listed /\ mem[mem[b].next].prev = b

\* A caller that returns has the answer to its own request, or none and then
\* its time was over (AAASendRecvMessage: ans = t->ans, whoever has set it).
OwnAnswer ==
  \A c \in Callers : pc[c] = "collect" =>
    LET t == mem[cur[c]] IN
    \/ t.ans = req[c]
    \/ t.ans = TimedOut /\ t.expired

\* Who waits can still be woken: its transaction is in the list or with a worker
\* that has its answer (a transaction nobody finds is a caller that hangs).
WaiterIsKnown ==
  \A c \in Callers : pc[c] = "wait" /\ lk[c] \in heldL =>
    \/ cur[c] \in Listed
    \/ \E w \in Workers : pc[w] = "answer" /\ cur[w] = cur[c]

\* Between passes every allocated transaction is in the list, in the hands of
\* one process that will free it, or was given up after a failed send; nobody
\* uses or frees one that is free (free_trans is called by three parties).
NothingLeaks ==
  tlock = Nil =>
    LET inHand == {cur[p] : p \in {q \in Callers : waits(q) \/ pc[q] = "collect"
                                                   \/ pc[q] = "link"}
                                 \cup {w \in Workers : pc[w] = "answer"}}
    IN used = Listed \cup inHand \cup orphans

\* The list is a list, what is allocated is in it or in hand, and who waits is known.
TransactionsKept == ListSound /\ NothingLeaks /\ WaiterIsKnown

\* A call as its caller sees it: open while its lock is taken, then over with
\* what the transaction holds.
callOf(c) ==
  IF ~waits(c) /\ pc[c] # "collect" THEN [state |-> "none", id |-> 0, result |-> TimedOut]
  ELSE [state |-> IF pc[c] # "collect" /\ lk[c] \in heldL THEN "open" ELSE "over",
        id |-> req[c],
        result |-> IF pc[c] # "collect" /\ lk[c] \in heldL THEN TimedOut
                   ELSE mem[cur[c]].ans]

Promise == INSTANCE DiameterCalls WITH
             call <- [c \in Callers |-> callOf(c)], calls <- reqs

\* Every call ends once, and returns what it ended in: nothing is written to a
\* transaction between the release of its lock and its caller's reading of it
\* (api_callback and trans_timer against AAASendRecvMessage).
EndsOnce == Promise!Spec

\* "This blocks until a response is received or a transactional time-out happens"
\* (diameter_api.c:266, 325): a call returns.
CallsReturn == \A c \in Callers : pc[c] = "wait" ~> pc[c] = "idle"
=============================================================================
