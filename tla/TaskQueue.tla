---------------------------- MODULE TaskQueue ----------------------------
(***************************************************************************)
(* The task queue of the C Diameter Peer, cdp/worker.c, with the processes *)
(* that use it: the receivers (cdp/receiver.c), which put every message    *)
(* they read, the workers, which take and process the tasks, and the main  *)
(* process, which shuts the peer down (cdp/diameter_peer.c).  All of them  *)
(* are forked processes that share the ring, its spin lock and two System  *)
(* V semaphores.                                                           *)
(*                                                                         *)
(* A step is what a process does between two points where another process  *)
(* can observe it: a critical section is split into taking the lock, the   *)
(* test of the ring, the update, the post of the semaphore and the release *)
(* of the lock.                                                            *)
(***************************************************************************)
EXTENDS Integers, FiniteSets

CONSTANTS
    Receivers,   \* receiver processes, one per connection
    Waited,      \* those whose pid diameter_peer_destroy can wait for
    Workers,     \* worker processes
    Msgs,        \* messages that arrive on the connections
    Max,         \* config->queue_length, the size of the ring
    SemInit,     \* initial value of both semaphores (0666|IPC_CREAT = 950)
    MaxSignals,  \* bound: signals that interrupt a sleeping process
    None         \* no message, no process

ASSUME MaxAssumption == Max \in Nat /\ Max >= 2
ASSUME SemAssumption == SemInit \in Nat /\ SemInit >= 1
ASSUME SignalAssumption == MaxSignals \in Nat
ASSUME ProcAssumption ==
    /\ Waited \subseteq Receivers
    /\ Receivers \cap Workers = {}
    /\ None \notin Receivers \cup Workers
ASSUME MsgAssumption == None \notin Msgs

VARIABLES
    queue,      \* tasks->queue[i].msg
    start, end, \* tasks->start, tasks->end
    lock,       \* holder of tasks->lock
    empty,      \* value of semaphore tasks->empty, where workers sleep
    full,       \* value of semaphore tasks->full, where receivers sleep
    shutdownx,  \* the shared flag *shutdownx
    pc,         \* where each receiver and worker is
    hand,       \* the message a process works on
    unread,     \* messages not read from a connection yet
    handled,    \* messages the callbacks have processed
    refused,    \* messages dropped because put_task returned 0
    main,       \* progress of diameter_peer_destroy
    signals     \* signals delivered so far

ring == <<queue, start, end>>
sems == <<empty, full>>
msgs == <<unread, handled, refused>>
vars == <<ring, lock, sems, shutdownx, pc, hand, msgs, main, signals>>

Procs == Receivers \cup Workers
Slots == 0 .. Max - 1

ReceiverPCs == {"loop", "recv", "spin", "pLock", "pTest", "pSignal",
                "pUnlock", "pShut", "pSleep", "exited"}
WorkerPCs == {"check", "tLock", "tTest", "tSignal", "tUnlock", "tShut",
              "tSleep", "handle", "poison", "exited"}
\* The steps taken between lock_get(tasks->lock) and lock_release.
Critical == {"pTest", "pSignal", "pUnlock", "tTest", "tSignal", "tUnlock"}

NextSlot(i) == (i + 1) % Max
IsFull == NextSlot(end) = start
IsEmpty == start = end

\* worker_init: both semaphores get cdp_semun_init, then one is taken from
\* empty.
Init ==
    /\ queue = [i \in Slots |-> None]
    /\ start = 0 /\ end = 0
    /\ lock = None
    /\ empty = SemInit - 1
    /\ full = SemInit
    /\ shutdownx = FALSE
    /\ pc = [q \in Procs |-> IF q \in Receivers THEN "loop" ELSE "check"]
    /\ hand = [q \in Procs |-> None]
    /\ unread = Msgs /\ handled = {} /\ refused = {}
    /\ main = "run"
    /\ signals = 0

GoTo(q, l) == pc' = [pc EXCEPT ![q] = l]
Hold(q, m) == hand' = [hand EXCEPT ![q] = m]

(***************************************************************************)
(* Receivers.  select_recv gives up with 0 bytes when it sees a shutdown,  *)
(* and receive_loop then calls it again: the process spins.                *)
(***************************************************************************)
ReceiveLoop(p) ==
    /\ pc[p] = "loop"
    /\ GoTo(p, IF shutdownx THEN "exited" ELSE "recv")
    /\ UNCHANGED <<ring, lock, sems, shutdownx, hand, msgs, main, signals>>

Receive(p) ==
    /\ pc[p] = "recv"
    /\ \E m \in unread :
        /\ Hold(p, m)
        /\ unread' = unread \ {m}
    /\ GoTo(p, "pLock")
    /\ UNCHANGED <<ring, lock, sems, shutdownx, handled, refused, main, signals>>

\* The connection ends, or a signal breaks the select that waits on it.
Disconnect(p) ==
    /\ pc[p] = "recv"
    /\ GoTo(p, "exited")
    /\ UNCHANGED <<ring, lock, sems, shutdownx, hand, msgs, main, signals>>

SpinOnShutdown(p) ==
    /\ pc[p] = "recv" /\ shutdownx
    /\ GoTo(p, "spin")
    /\ UNCHANGED <<ring, lock, sems, shutdownx, hand, msgs, main, signals>>

(***************************************************************************)
(* put_task, called by Rcv_Process.                                        *)
(***************************************************************************)
PutLock(p) ==
    /\ pc[p] = "pLock" /\ lock = None
    /\ lock' = p
    /\ GoTo(p, "pTest")
    /\ UNCHANGED <<ring, sems, shutdownx, hand, msgs, main, signals>>

PutFull(p) ==
    /\ pc[p] = "pTest" /\ IsFull
    /\ lock' = None
    /\ GoTo(p, "pShut")
    /\ UNCHANGED <<ring, sems, shutdownx, hand, msgs, main, signals>>

PutStore(p) ==
    /\ pc[p] = "pTest" /\ ~IsFull
    /\ queue' = [queue EXCEPT ![end] = hand[p]]
    /\ end' = NextSlot(end)
    /\ Hold(p, None)
    /\ GoTo(p, "pSignal")
    /\ UNCHANGED <<start, lock, sems, shutdownx, msgs, main, signals>>

\* Mutant: no post for the workers.
PutSignalNone(p) ==
    /\ pc[p] = "pSignal"
    /\ GoTo(p, "pUnlock")
    /\ UNCHANGED <<ring, lock, sems, shutdownx, hand, msgs, main, signals>>

\* cdp_lock_release is SETVAL 1: two posts in a row are one.
PutSignal(p) ==
    /\ pc[p] = "pSignal"
    /\ empty' = 1
    /\ GoTo(p, "pUnlock")
    /\ UNCHANGED <<ring, lock, full, shutdownx, hand, msgs, main, signals>>

PutUnlock(p) ==
    /\ pc[p] = "pUnlock"
    /\ lock' = None
    /\ GoTo(p, "loop")
    /\ UNCHANGED <<ring, sems, shutdownx, hand, msgs, main, signals>>

\* On a shutdown put_task returns 0 and Rcv_Process frees the message.
PutRefuse(p) ==
    /\ pc[p] = "pShut" /\ shutdownx
    /\ full' = 1
    /\ refused' = refused \cup {hand[p]}
    /\ Hold(p, None)
    /\ GoTo(p, "loop")
    /\ UNCHANGED <<ring, lock, empty, shutdownx, unread, handled, main, signals>>

PutWait(p) ==
    /\ pc[p] = "pShut" /\ ~shutdownx
    /\ GoTo(p, "pSleep")
    /\ UNCHANGED <<ring, lock, sems, shutdownx, hand, msgs, main, signals>>

PutWake(p) ==
    /\ pc[p] = "pSleep" /\ full > 0
    /\ full' = full - 1
    /\ GoTo(p, "pLock")
    /\ UNCHANGED <<ring, lock, empty, shutdownx, hand, msgs, main, signals>>

(***************************************************************************)
(* take_task, called by worker_process.                                    *)
(***************************************************************************)
WorkerCheck(w) ==
    /\ pc[w] = "check"
    /\ GoTo(w, IF shutdownx THEN "poison" ELSE "tLock")
    /\ UNCHANGED <<ring, lock, sems, shutdownx, hand, msgs, main, signals>>

TakeLock(w) ==
    /\ pc[w] = "tLock" /\ lock = None
    /\ lock' = w
    /\ GoTo(w, "tTest")
    /\ UNCHANGED <<ring, sems, shutdownx, hand, msgs, main, signals>>

TakeEmpty(w) ==
    /\ pc[w] = "tTest" /\ IsEmpty
    /\ lock' = None
    /\ GoTo(w, "tShut")
    /\ UNCHANGED <<ring, sems, shutdownx, hand, msgs, main, signals>>

\* Mutants: the slot keeps the task; the newest task is taken first.
TakeLoadKeep(w) ==
    /\ pc[w] = "tTest" /\ ~IsEmpty
    /\ Hold(w, queue[start])
    /\ start' = NextSlot(start)
    /\ GoTo(w, "tSignal")
    /\ UNCHANGED <<queue, end, lock, sems, shutdownx, msgs, main, signals>>

TakeLoadNewest(w) ==
    LET last == IF end = 0 THEN Max - 1 ELSE end - 1 IN
    /\ pc[w] = "tTest" /\ ~IsEmpty
    /\ Hold(w, queue[last])
    /\ queue' = [queue EXCEPT ![last] = None]
    /\ end' = last
    /\ GoTo(w, "tSignal")
    /\ UNCHANGED <<start, lock, sems, shutdownx, msgs, main, signals>>

TakeLoad(w) ==
    /\ pc[w] = "tTest" /\ ~IsEmpty
    /\ Hold(w, queue[start])
    /\ queue' = [queue EXCEPT ![start] = None]
    /\ start' = NextSlot(start)
    /\ GoTo(w, "tSignal")
    /\ UNCHANGED <<end, lock, sems, shutdownx, msgs, main, signals>>

\* Mutant: no post for the receivers.
TakeSignalNone(w) ==
    /\ pc[w] = "tSignal"
    /\ GoTo(w, "tUnlock")
    /\ UNCHANGED <<ring, lock, sems, shutdownx, hand, msgs, main, signals>>

TakeSignal(w) ==
    /\ pc[w] = "tSignal"
    /\ full' = 1
    /\ GoTo(w, "tUnlock")
    /\ UNCHANGED <<ring, lock, empty, shutdownx, hand, msgs, main, signals>>

TakeUnlock(w) ==
    /\ pc[w] = "tUnlock"
    /\ lock' = None
    /\ GoTo(w, "handle")
    /\ UNCHANGED <<ring, sems, shutdownx, hand, msgs, main, signals>>

\* An empty task is returned; worker_process sees the flag and leaves.
TakeGiveUp(w) ==
    /\ pc[w] = "tShut" /\ shutdownx
    /\ empty' = 1
    /\ GoTo(w, "poison")
    /\ UNCHANGED <<ring, lock, full, shutdownx, hand, msgs, main, signals>>

TakeWait(w) ==
    /\ pc[w] = "tShut" /\ ~shutdownx
    /\ GoTo(w, "tSleep")
    /\ UNCHANGED <<ring, lock, sems, shutdownx, hand, msgs, main, signals>>

TakeWake(w) ==
    /\ pc[w] = "tSleep" /\ empty > 0
    /\ empty' = empty - 1
    /\ GoTo(w, "tLock")
    /\ UNCHANGED <<ring, lock, full, shutdownx, hand, msgs, main, signals>>

Handle(w) ==
    /\ pc[w] = "handle"
    /\ handled' = handled \cup {hand[w]}
    /\ Hold(w, None)
    /\ GoTo(w, "check")
    /\ UNCHANGED <<ring, lock, sems, shutdownx, unread, refused, main, signals>>

\* Mutant: a worker leaves without waking the next one.
PoisonNone(w) ==
    /\ pc[w] = "poison"
    /\ GoTo(w, "exited")
    /\ UNCHANGED <<ring, lock, sems, shutdownx, hand, msgs, main, signals>>

Poison(w) ==
    /\ pc[w] = "poison"
    /\ empty' = 1
    /\ GoTo(w, "exited")
    /\ UNCHANGED <<ring, lock, full, shutdownx, hand, msgs, main, signals>>

\* A signal makes the semop of a sleeping process fail with EINTR:
\* cdp_lock_get returns without having taken the semaphore.
Interrupt(q) ==
    /\ pc[q] \in {"pSleep", "tSleep"}
    /\ signals < MaxSignals
    /\ signals' = signals + 1
    /\ GoTo(q, IF pc[q] = "pSleep" THEN "pLock" ELSE "tLock")
    /\ UNCHANGED <<ring, lock, sems, shutdownx, hand, msgs, main>>

(***************************************************************************)
(* diameter_peer_destroy, run by the main process.  It waits for the       *)
(* workers and for the receivers in Waited (those it forked itself); the   *)
(* receivers the acceptor forked are not its children.                     *)
(***************************************************************************)
BeginShutdown ==
    /\ main = "run"
    /\ shutdownx' = TRUE
    /\ main' = "poison"
    /\ UNCHANGED <<ring, lock, sems, pc, hand, msgs, signals>>

PoisonQueue ==
    /\ main = "poison"
    /\ empty' = 1
    /\ main' = "wait"
    /\ UNCHANGED <<ring, lock, full, shutdownx, pc, hand, msgs, signals>>

Destroy ==
    /\ main = "wait"
    /\ \A q \in Workers \cup Waited : pc[q] = "exited"
    /\ main' = "destroyed"
    /\ UNCHANGED <<ring, lock, sems, shutdownx, pc, hand, msgs, signals>>

Put(p) == \/ PutLock(p) \/ PutFull(p) \/ PutStore(p) \/ PutSignal(p)
          \/ PutUnlock(p) \/ PutRefuse(p) \/ PutWait(p) \/ PutWake(p)

Take(w) == \/ TakeLock(w) \/ TakeEmpty(w) \/ TakeLoad(w) \/ TakeSignal(w)
           \/ TakeUnlock(w) \/ TakeGiveUp(w) \/ TakeWait(w) \/ TakeWake(w)

\* Once the structures are freed nothing that follows is defined.
Running == main # "destroyed"

\* What a receiver does by itself, without waiting for its connection.
ReceiverStep(p) == Running /\ (ReceiveLoop(p) \/ SpinOnShutdown(p) \/ Put(p))
WorkerStep(w) == Running /\ (WorkerCheck(w) \/ Take(w) \/ Handle(w) \/ Poison(w))
MainStep == PoisonQueue \/ Destroy

\* What the connections, the users and the operating system may do.
Environment ==
    /\ Running
    /\ \/ \E p \in Receivers : Receive(p) \/ Disconnect(p)
       \/ \E q \in Procs : Interrupt(q)
       \/ BeginShutdown

Next ==
    \/ \E p \in Receivers : ReceiverStep(p)
    \/ \E w \in Workers : WorkerStep(w)
    \/ MainStep
    \/ Environment

Spec == Init /\ [][Next]_vars

\* The operating system schedules every process that can run.  Messages,
\* disconnections, signals and the request to shut down may never come.
Fairness ==
    /\ \A p \in Receivers : WF_vars(ReceiverStep(p))
    /\ \A w \in Workers : WF_vars(WorkerStep(w))
    /\ WF_vars(MainStep)

FairSpec == Spec /\ Fairness
-----------------------------------------------------------------------------
(***************************************************************************)
(* Properties.                                                             *)
(***************************************************************************)

\* The number of tasks in the ring, whether slot i is one of theirs, and the
\* tasks in the order in which take_task will return them.
Count(s, e) == IF s <= e THEN e - s ELSE e - s + Max
InRing(i) == IF start <= end THEN start <= i /\ i < end
                             ELSE start <= i \/ i < end
SlotAt(s, k) == IF s + k < Max THEN s + k ELSE s + k - Max
Contents(q, s, e) == [k \in 1 .. Count(s, e) |-> q[SlotAt(s, k - 1)]]
Queued == Contents(queue, start, end)

\* Type correctness of every variable of the queue and of its processes.
TypeOK ==
    /\ queue \in [Slots -> Msgs \cup {None}]
    /\ start \in Slots /\ end \in Slots
    /\ lock \in Procs \cup {None}
    /\ empty \in Nat /\ full \in Nat
    /\ shutdownx \in BOOLEAN
    /\ pc \in [Procs -> ReceiverPCs \cup WorkerPCs]
    /\ \A p \in Receivers : pc[p] \in ReceiverPCs
    /\ \A w \in Workers : pc[w] \in WorkerPCs
    /\ hand \in [Procs -> Msgs \cup {None}]
    /\ unread \subseteq Msgs /\ handled \subseteq Msgs /\ refused \subseteq Msgs
    /\ main \in {"run", "poison", "wait", "destroyed"}
    /\ signals \in 0 .. MaxSignals

\* Mutual exclusion on tasks->lock (worker.c put_task, take_task): a process
\* is between lock_get and lock_release exactly when it is the holder, on
\* every path through the waiting loops, interrupted ones included.
LockHeld ==
    \A q \in Procs : pc[q] \in Critical <=> lock = q

\* The slots that hold a message are exactly those between start and end:
\* worker_destroy frees every message it finds in the array, so a slot left
\* behind by take_task would be a double free, one never stored a leak.
RingHoldsTasks ==
    \A i \in Slots : queue[i] # None <=> InRing(i)

\* A message is in one place only: with a receiver or a worker, in one slot,
\* or done with.  Two workers never process (and free) the same message.
OnePlace ==
    /\ \A q, r \in Procs : hand[q] # None /\ hand[q] = hand[r] => q = r
    /\ \A i, j \in Slots : queue[i] # None /\ queue[i] = queue[j] => i = j
    /\ \A q \in Procs, i \in Slots : hand[q] # None => hand[q] # queue[i]
    /\ \A q \in Procs : hand[q] \notin unread \cup handled \cup refused
    /\ \A i \in Slots : queue[i] \notin unread \cup handled \cup refused
    /\ unread \cap (handled \cup refused) = {} /\ handled \cap refused = {}

\* No message is lost: put_task never overwrites a task nobody took, and
\* every message is unread, with a process, queued or done with.
NothingLost ==
    \A m \in Msgs :
        \/ m \in unread \cup handled \cup refused
        \/ \E q \in Procs : hand[q] = m
        \/ \E i \in Slots : queue[i] = m

\* Every message is in one place, always: with a receiver or a worker, in one slot of
\* the ring, or done with (put_task, take_task).
InOnePlace == OnePlace /\ NothingLost

\* No wake-up of the workers is lost, although posts of the semaphore
\* collapse into one: while a task is queued, some worker will look at the
\* queue again before it sleeps, a post is pending, or a receiver is about to
\* post.  (A worker in tShut or tSleep has found the queue empty.)
SomeWorkerWillLook ==
    ~IsEmpty /\ ~shutdownx
    => \/ empty > 0
       \/ \E w \in Workers : pc[w] \notin {"tShut", "tSleep"}
       \/ \E p \in Receivers : pc[p] = "pSignal"

\* No wake-up of the receivers is lost: while one has found the queue full
\* and is going to sleep or asleep, a task is still queued (a worker will
\* take it and post), a post is pending or about to come, or another receiver
\* is on its way to put.
SomeoneWillPost ==
    (\E p \in Receivers : pc[p] \in {"pShut", "pSleep"})
    => \/ full > 0
       \/ ~IsEmpty
       \/ \E w \in Workers : pc[w] = "tSignal"
       \/ \E p \in Receivers : pc[p] \in {"pLock", "pTest"}

\* The poison posted by diameter_peer_destroy is handed from worker to
\* worker: after it, a sleeping worker always has a pending post or a worker
\* that is awake and will post when it leaves.
PoisonIsPassedOn ==
    main \in {"wait", "destroyed"} /\ (\E w \in Workers : pc[w] = "tSleep")
    => \/ empty > 0
       \/ \E w \in Workers : pc[w] \notin {"tSleep", "exited"}

\* Semaphores that collapse posts lose no wake-up: neither of a worker, nor of a
\* receiver, nor the poison of the shutdown (worker.c cdp_lock_get, cdp_lock_release).
NoLostWakeup == SomeWorkerWillLook /\ SomeoneWillPost /\ PoisonIsPassedOn

\* A message put_task accepted is processed, unless the peer shuts down
\* (worker.c take_task, worker_process).
EveryTaskIsHandled ==
    \A m \in Msgs : (\E i \in Slots : queue[i] = m)
                      ~> (m \in handled \/ shutdownx)

\* put_task returns: a receiver that waits for space gets it, unless the
\* peer shuts down.
EveryPutReturns ==
    \A p \in Receivers : pc[p] = "pLock" ~> (pc[p] = "loop" \/ shutdownx)

\* On a shutdown every worker exits, however many of them sleep (worker.c
\* worker_poison_queue).
WorkersExit ==
    \A w \in Workers : shutdownx ~> pc[w] = "exited"

\* diameter_peer.c:349 says that diameter_peer_destroy waits for all
\* processes to exit: nothing is freed under a running process.
DestroyWaitsForAll ==
    main = "destroyed" => \A q \in Procs : pc[q] = "exited"

\* The ring with its lock and semaphores implements a bounded FIFO of
\* Max - 1 tasks: one slot always stays free to tell full from empty.
Fifo == INSTANCE TaskFifo WITH
            Capacity <- Max - 1, buf <- Queued,
            task <- [w \in Workers |-> hand[w]]
ImplementsFifo == Fifo!Spec
=============================================================================
