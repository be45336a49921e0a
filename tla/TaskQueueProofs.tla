-------------------------- MODULE TaskQueueProofs --------------------------
(***************************************************************************)
(* Proofs about TaskQueue, for every number of receivers, workers and      *)
(* messages and every queue length: the invariant of its locks, semaphores *)
(* and ring, and that it implements the bounded FIFO of TaskFifo.          *)
(***************************************************************************)
EXTENDS TaskQueue, SequenceTheorems, TLAPS

\* Which process has a message in hand: a receiver from reading it until
\* put_task returns, a worker from take_task until the callbacks are done.
HandOK ==
    /\ \A p \in Receivers :
          hand[p] # None <=> pc[p] \in {"pLock", "pTest", "pShut", "pSleep"}
    /\ \A w \in Workers :
          hand[w] # None <=> pc[w] \in {"tSignal", "tUnlock", "handle"}

\* The flag goes up when diameter_peer_destroy begins.
FlagOK == main = "run" <=> ~shutdownx

USE DEF Procs, Slots, ReceiverPCs, WorkerPCs, GoTo, Hold, IsFull, IsEmpty,
        ring, sems, msgs, vars

\* The index after i, written without the remainder.
LEMMA NextSlotIs ==
    ASSUME NEW i \in Slots
    PROVE  /\ NextSlot(i) \in Slots
           /\ NextSlot(i) = IF i = Max - 1 THEN 0 ELSE i + 1
  <1>1. CASE i = Max - 1
    <2>1. i + 1 = Max
      BY <1>1, MaxAssumption
    <2>2. Max % Max = 0
      BY MaxAssumption
    <2> QED
      BY <1>1, <2>1, <2>2, MaxAssumption DEF NextSlot
  <1>2. CASE i # Max - 1
    <2>1. i + 1 \in 0 .. Max - 1
      BY <1>2, MaxAssumption
    <2>2. (i + 1) % Max = i + 1
      BY <2>1, MaxAssumption
    <2> QED
      BY <1>2, <2>1, <2>2, MaxAssumption DEF NextSlot
  <1> QED
    BY <1>1, <1>2

\* Every step keeps the variables in their types.
LEMMA TypeStep == TypeOK /\ HandOK /\ [Next]_vars => TypeOK'
  <1> SUFFICES ASSUME TypeOK, HandOK, [Next]_vars PROVE TypeOK'
    OBVIOUS
  <1> USE ProcAssumption, MsgAssumption, SemAssumption, SignalAssumption DEF TypeOK
  <1>0. NextSlot(start) \in Slots /\ NextSlot(end) \in Slots
    BY NextSlotIs
  <1>1. ASSUME NEW p \in Receivers, ReceiverStep(p) PROVE TypeOK'
    <2>1. CASE ReceiveLoop(p) \/ SpinOnShutdown(p)
      BY <2>1 DEF ReceiveLoop, SpinOnShutdown
    <2>2. CASE PutLock(p) \/ PutFull(p) \/ PutSignal(p) \/ PutUnlock(p)
      BY <2>2 DEF PutLock, PutFull, PutSignal, PutUnlock
    <2>3. CASE PutStore(p)
      BY <1>0, <2>3 DEF PutStore
    <2>4. CASE PutRefuse(p)
      <3>1. hand[p] \in Msgs
        BY <2>4 DEF PutRefuse, HandOK
      <3> QED
        BY <2>4, <3>1 DEF PutRefuse
    <2>5. CASE PutWait(p) \/ PutWake(p)
      BY <2>5 DEF PutWait, PutWake
    <2> QED
      BY <1>1, <2>1, <2>2, <2>3, <2>4, <2>5 DEF ReceiverStep, Put
  <1>2. ASSUME NEW w \in Workers, WorkerStep(w) PROVE TypeOK'
    <2>1. CASE WorkerCheck(w) \/ Poison(w)
      BY <2>1 DEF WorkerCheck, Poison
    <2>2. CASE TakeLock(w) \/ TakeEmpty(w) \/ TakeSignal(w) \/ TakeUnlock(w)
      BY <2>2 DEF TakeLock, TakeEmpty, TakeSignal, TakeUnlock
    <2>3. CASE TakeLoad(w)
      BY <1>0, <2>3 DEF TakeLoad
    <2>4. CASE TakeGiveUp(w) \/ TakeWait(w) \/ TakeWake(w)
      BY <2>4 DEF TakeGiveUp, TakeWait, TakeWake
    <2>5. CASE Handle(w)
      <3>1. hand[w] \in Msgs
        BY <2>5 DEF Handle, HandOK
      <3> QED
        BY <2>5, <3>1 DEF Handle
    <2> QED
      BY <1>2, <2>1, <2>2, <2>3, <2>4, <2>5 DEF WorkerStep, Take
  <1>3. CASE MainStep
    BY <1>3 DEF MainStep, PoisonQueue, Destroy
  <1>4. CASE Environment
    <2>1. ASSUME NEW p \in Receivers, Receive(p) \/ Disconnect(p) PROVE TypeOK'
      BY <2>1 DEF Receive, Disconnect
    <2>2. ASSUME NEW q \in Procs, Interrupt(q) PROVE TypeOK'
      BY <2>2 DEF Interrupt
    <2>3. CASE BeginShutdown
      BY <2>3 DEF BeginShutdown
    <2> QED
      BY <1>4, <2>1, <2>2, <2>3 DEF Environment
  <1>5. CASE UNCHANGED vars
    BY <1>5
  <1> QED
    BY <1>1, <1>2, <1>3, <1>4, <1>5 DEF Next

\* A message comes into a hand and leaves it with the program counter.
LEMMA HandStep ==
    TypeOK /\ HandOK /\ RingHoldsTasks /\ [Next]_vars => HandOK'
  <1> SUFFICES ASSUME TypeOK, HandOK, RingHoldsTasks, [Next]_vars PROVE HandOK'
    OBVIOUS
  <1> USE ProcAssumption, MsgAssumption DEF TypeOK, HandOK
  <1>0. ~IsEmpty => queue[start] # None
    BY MaxAssumption DEF TypeOK, RingHoldsTasks, InRing
  <1>1. ASSUME NEW p \in Receivers, ReceiverStep(p) PROVE HandOK'
    <2>1. CASE ReceiveLoop(p) \/ SpinOnShutdown(p)
      BY <1>0, <2>1 DEF ReceiveLoop, SpinOnShutdown
    <2>2. CASE PutLock(p) \/ PutFull(p)
      BY <1>0, <2>2 DEF PutLock, PutFull
    <2>3. CASE PutSignal(p) \/ PutUnlock(p)
      BY <1>0, <2>3 DEF PutSignal, PutUnlock
    <2>4. CASE PutStore(p)
      BY <1>0, <2>4 DEF PutStore
    <2>5. CASE PutRefuse(p) \/ PutWait(p)
      BY <1>0, <2>5 DEF PutRefuse, PutWait
    <2>6. CASE PutWake(p)
      BY <1>0, <2>6 DEF PutWake
    <2> QED
      BY <1>1, <2>1, <2>2, <2>3, <2>4, <2>5, <2>6 DEF ReceiverStep, Put
  <1>2. ASSUME NEW w \in Workers, WorkerStep(w) PROVE HandOK'
    <2>1. CASE WorkerCheck(w) \/ Poison(w)
      BY <1>0, <2>1 DEF WorkerCheck, Poison
    <2>2. CASE TakeLock(w) \/ TakeEmpty(w)
      BY <1>0, <2>2 DEF TakeLock, TakeEmpty
    <2>3. CASE TakeSignal(w) \/ TakeUnlock(w)
      BY <1>0, <2>3 DEF TakeSignal, TakeUnlock
    <2>4. CASE TakeLoad(w)
      BY <1>0, <2>4 DEF TakeLoad
    <2>5. CASE TakeGiveUp(w) \/ TakeWait(w)
      BY <1>0, <2>5 DEF TakeGiveUp, TakeWait
    <2>6. CASE TakeWake(w) \/ Handle(w)
      BY <1>0, <2>6 DEF TakeWake, Handle
    <2> QED
      BY <1>2, <2>1, <2>2, <2>3, <2>4, <2>5, <2>6 DEF WorkerStep, Take
  <1>3. CASE MainStep
    BY <1>0, <1>3 DEF MainStep, PoisonQueue, Destroy
  <1>4. CASE Environment
    <2>1. ASSUME NEW p \in Receivers, Receive(p) \/ Disconnect(p) PROVE HandOK'
      BY <1>0, <2>1 DEF Receive, Disconnect
    <2>2. ASSUME NEW q \in Procs, Interrupt(q) PROVE HandOK'
      BY <1>0, <2>2 DEF Interrupt
    <2>3. CASE BeginShutdown
      BY <1>0, <2>3 DEF BeginShutdown
    <2> QED
      BY <1>4, <2>1, <2>2, <2>3 DEF Environment
  <1>5. CASE UNCHANGED vars
    BY <1>0, <1>5
  <1> QED
    BY <1>1, <1>2, <1>3, <1>4, <1>5 DEF Next

\* The flag is raised by BeginShutdown and never lowered.
LEMMA FlagStep ==
    FlagOK /\ [Next]_vars => FlagOK'
  <1> SUFFICES ASSUME FlagOK, [Next]_vars PROVE FlagOK'
    OBVIOUS
  <1> USE DEF FlagOK
  <1>1. ASSUME NEW p \in Receivers, ReceiverStep(p) PROVE FlagOK'
    <2>1. CASE ReceiveLoop(p) \/ SpinOnShutdown(p)
      BY <2>1 DEF ReceiveLoop, SpinOnShutdown
    <2>2. CASE PutLock(p) \/ PutFull(p)
      BY <2>2 DEF PutLock, PutFull
    <2>3. CASE PutSignal(p) \/ PutUnlock(p)
      BY <2>3 DEF PutSignal, PutUnlock
    <2>4. CASE PutStore(p)
      BY <2>4 DEF PutStore
    <2>5. CASE PutRefuse(p) \/ PutWait(p)
      BY <2>5 DEF PutRefuse, PutWait
    <2>6. CASE PutWake(p)
      BY <2>6 DEF PutWake
    <2> QED
      BY <1>1, <2>1, <2>2, <2>3, <2>4, <2>5, <2>6 DEF ReceiverStep, Put
  <1>2. ASSUME NEW w \in Workers, WorkerStep(w) PROVE FlagOK'
    <2>1. CASE WorkerCheck(w) \/ Poison(w)
      BY <2>1 DEF WorkerCheck, Poison
    <2>2. CASE TakeLock(w) \/ TakeEmpty(w)
      BY <2>2 DEF TakeLock, TakeEmpty
    <2>3. CASE TakeSignal(w) \/ TakeUnlock(w)
      BY <2>3 DEF TakeSignal, TakeUnlock
    <2>4. CASE TakeLoad(w)
      BY <2>4 DEF TakeLoad
    <2>5. CASE TakeGiveUp(w) \/ TakeWait(w)
      BY <2>5 DEF TakeGiveUp, TakeWait
    <2>6. CASE TakeWake(w) \/ Handle(w)
      BY <2>6 DEF TakeWake, Handle
    <2> QED
      BY <1>2, <2>1, <2>2, <2>3, <2>4, <2>5, <2>6 DEF WorkerStep, Take
  <1>3. CASE MainStep
    BY <1>3 DEF MainStep, PoisonQueue, Destroy
  <1>4. CASE Environment
    <2>1. ASSUME NEW p \in Receivers, Receive(p) \/ Disconnect(p) PROVE FlagOK'
      BY <2>1 DEF Receive, Disconnect
    <2>2. ASSUME NEW q \in Procs, Interrupt(q) PROVE FlagOK'
      BY <2>2 DEF Interrupt
    <2>3. CASE BeginShutdown
      BY <2>3 DEF BeginShutdown
    <2> QED
      BY <1>4, <2>1, <2>2, <2>3 DEF Environment
  <1>5. CASE UNCHANGED vars
    BY <1>5
  <1> QED
    BY <1>1, <1>2, <1>3, <1>4, <1>5 DEF Next

\* The lock is taken and released by its holder only.
LEMMA LockStep ==
    TypeOK /\ LockHeld /\ [Next]_vars => LockHeld'
  <1> SUFFICES ASSUME TypeOK, LockHeld, [Next]_vars PROVE LockHeld'
    OBVIOUS
  <1> USE ProcAssumption DEF TypeOK, LockHeld, Critical
  <1>1. ASSUME NEW p \in Receivers, ReceiverStep(p) PROVE LockHeld'
    <2>1. CASE ReceiveLoop(p) \/ SpinOnShutdown(p)
      BY <2>1 DEF ReceiveLoop, SpinOnShutdown
    <2>2. CASE PutLock(p) \/ PutFull(p)
      BY <2>2 DEF PutLock, PutFull
    <2>3. CASE PutSignal(p) \/ PutUnlock(p)
      BY <2>3 DEF PutSignal, PutUnlock
    <2>4. CASE PutStore(p)
      BY <2>4 DEF PutStore
    <2>5. CASE PutRefuse(p) \/ PutWait(p)
      BY <2>5 DEF PutRefuse, PutWait
    <2>6. CASE PutWake(p)
      BY <2>6 DEF PutWake
    <2> QED
      BY <1>1, <2>1, <2>2, <2>3, <2>4, <2>5, <2>6 DEF ReceiverStep, Put
  <1>2. ASSUME NEW w \in Workers, WorkerStep(w) PROVE LockHeld'
    <2>1. CASE WorkerCheck(w) \/ Poison(w)
      BY <2>1 DEF WorkerCheck, Poison
    <2>2. CASE TakeLock(w) \/ TakeEmpty(w)
      BY <2>2 DEF TakeLock, TakeEmpty
    <2>3. CASE TakeSignal(w) \/ TakeUnlock(w)
      BY <2>3 DEF TakeSignal, TakeUnlock
    <2>4. CASE TakeLoad(w)
      BY <2>4 DEF TakeLoad
    <2>5. CASE TakeGiveUp(w) \/ TakeWait(w)
      BY <2>5 DEF TakeGiveUp, TakeWait
    <2>6. CASE TakeWake(w) \/ Handle(w)
      BY <2>6 DEF TakeWake, Handle
    <2> QED
      BY <1>2, <2>1, <2>2, <2>3, <2>4, <2>5, <2>6 DEF WorkerStep, Take
  <1>3. CASE MainStep
    BY <1>3 DEF MainStep, PoisonQueue, Destroy
  <1>4. CASE Environment
    <2>1. ASSUME NEW p \in Receivers, Receive(p) \/ Disconnect(p) PROVE LockHeld'
      BY <2>1 DEF Receive, Disconnect
    <2>2. ASSUME NEW q \in Procs, Interrupt(q) PROVE LockHeld'
      BY <2>2 DEF Interrupt
    <2>3. CASE BeginShutdown
      BY <2>3 DEF BeginShutdown
    <2> QED
      BY <1>4, <2>1, <2>2, <2>3 DEF Environment
  <1>5. CASE UNCHANGED vars
    BY <1>5
  <1> QED
    BY <1>1, <1>2, <1>3, <1>4, <1>5 DEF Next

\* Storing adds the slot at end to the ring, loading removes the slot at start.
LEMMA RingStep ==
    TypeOK /\ HandOK /\ RingHoldsTasks /\ [Next]_vars => RingHoldsTasks'
  <1> SUFFICES ASSUME TypeOK, HandOK, RingHoldsTasks, [Next]_vars PROVE RingHoldsTasks'
    OBVIOUS
  <1> USE ProcAssumption, MsgAssumption, MaxAssumption DEF TypeOK, HandOK, RingHoldsTasks, InRing
  <1>0. /\ NextSlot(start) = IF start = Max - 1 THEN 0 ELSE start + 1
        /\ NextSlot(end) = IF end = Max - 1 THEN 0 ELSE end + 1
    BY NextSlotIs
  <1>1. ASSUME NEW p \in Receivers, ReceiverStep(p) PROVE RingHoldsTasks'
    <2>1. CASE ReceiveLoop(p) \/ SpinOnShutdown(p)
      BY <1>0, <2>1 DEF ReceiveLoop, SpinOnShutdown
    <2>2. CASE PutLock(p) \/ PutFull(p)
      BY <1>0, <2>2 DEF PutLock, PutFull
    <2>3. CASE PutSignal(p) \/ PutUnlock(p)
      BY <1>0, <2>3 DEF PutSignal, PutUnlock
    <2>4. CASE PutStore(p)
      BY <1>0, <2>4 DEF PutStore
    <2>5. CASE PutRefuse(p) \/ PutWait(p)
      BY <1>0, <2>5 DEF PutRefuse, PutWait
    <2>6. CASE PutWake(p)
      BY <1>0, <2>6 DEF PutWake
    <2> QED
      BY <1>1, <2>1, <2>2, <2>3, <2>4, <2>5, <2>6 DEF ReceiverStep, Put
  <1>2. ASSUME NEW w \in Workers, WorkerStep(w) PROVE RingHoldsTasks'
    <2>1. CASE WorkerCheck(w) \/ Poison(w)
      BY <1>0, <2>1 DEF WorkerCheck, Poison
    <2>2. CASE TakeLock(w) \/ TakeEmpty(w)
      BY <1>0, <2>2 DEF TakeLock, TakeEmpty
    <2>3. CASE TakeSignal(w) \/ TakeUnlock(w)
      BY <1>0, <2>3 DEF TakeSignal, TakeUnlock
    <2>4. CASE TakeLoad(w)
      BY <1>0, <2>4 DEF TakeLoad
    <2>5. CASE TakeGiveUp(w) \/ TakeWait(w)
      BY <1>0, <2>5 DEF TakeGiveUp, TakeWait
    <2>6. CASE TakeWake(w) \/ Handle(w)
      BY <1>0, <2>6 DEF TakeWake, Handle
    <2> QED
      BY <1>2, <2>1, <2>2, <2>3, <2>4, <2>5, <2>6 DEF WorkerStep, Take
  <1>3. CASE MainStep
    BY <1>0, <1>3 DEF MainStep, PoisonQueue, Destroy
  <1>4. CASE Environment
    <2>1. ASSUME NEW p \in Receivers, Receive(p) \/ Disconnect(p) PROVE RingHoldsTasks'
      BY <1>0, <2>1 DEF Receive, Disconnect
    <2>2. ASSUME NEW q \in Procs, Interrupt(q) PROVE RingHoldsTasks'
      BY <1>0, <2>2 DEF Interrupt
    <2>3. CASE BeginShutdown
      BY <1>0, <2>3 DEF BeginShutdown
    <2> QED
      BY <1>4, <2>1, <2>2, <2>3 DEF Environment
  <1>5. CASE UNCHANGED vars
    BY <1>0, <1>5
  <1> QED
    BY <1>1, <1>2, <1>3, <1>4, <1>5 DEF Next

\* Where the messages are.
places == <<queue, hand, unread, handled, refused>>

LEMMA PlacesUnchanged ==
    ASSUME OnePlace, NothingLost, UNCHANGED places
    PROVE  OnePlace' /\ NothingLost'
  <1>1. /\ queue' = queue /\ hand' = hand
        /\ unread' = unread /\ handled' = handled /\ refused' = refused
    BY DEF places
  <1>2. OnePlace'
    BY <1>1, Zenon DEF OnePlace
  <1>3. NothingLost'
    BY <1>1, Zenon DEF NothingLost
  <1> QED
    BY <1>2, <1>3

\* A message moves from one place to the next, and is stored in a slot that
\* is free.
LEMMA PlacesStep ==
    TypeOK /\ HandOK /\ RingHoldsTasks /\ OnePlace /\ NothingLost /\ [Next]_vars
    => OnePlace' /\ NothingLost'
  <1> SUFFICES ASSUME TypeOK, HandOK, RingHoldsTasks, OnePlace, NothingLost, [Next]_vars
               PROVE  OnePlace' /\ NothingLost'
    OBVIOUS
  <1>0. queue[end] = None /\ (~IsEmpty => queue[start] # None)
    BY MaxAssumption DEF TypeOK, RingHoldsTasks, InRing
  <1>1. ASSUME NEW p \in Receivers, ReceiverStep(p)
        PROVE  UNCHANGED places \/ PutStore(p) \/ PutRefuse(p)
    BY <1>1 DEF places, ReceiverStep, ReceiveLoop, SpinOnShutdown, Put, PutLock,
         PutFull, PutSignal, PutUnlock, PutWait, PutWake
  <1>2. ASSUME NEW w \in Workers, WorkerStep(w)
        PROVE  UNCHANGED places \/ TakeLoad(w) \/ Handle(w)
    BY <1>2 DEF places, WorkerStep, WorkerCheck, Take, TakeLock, TakeEmpty,
         TakeSignal, TakeUnlock, TakeGiveUp, TakeWait, TakeWake, Poison
  <1>3. MainStep => UNCHANGED places
    BY DEF places, MainStep, PoisonQueue, Destroy
  <1>4. Environment => UNCHANGED places \/ \E p \in Receivers : Receive(p)
    BY DEF places, Environment, Disconnect, Interrupt, BeginShutdown
  <1>5. ASSUME NEW p \in Receivers, PutStore(p) PROVE OnePlace' /\ NothingLost'
    <2>1. hand[p] # None /\ hand[p] \in Msgs /\ p \in Procs /\ end \in Slots
      BY <1>5 DEF PutStore, HandOK, TypeOK
    <2>2. OnePlace'
      BY <1>0, <1>5, <2>1, ProcAssumption, MsgAssumption DEF PutStore, OnePlace, TypeOK
    <2>3. NothingLost'
      BY <1>0, <1>5, <2>1, ProcAssumption, MsgAssumption DEF PutStore, NothingLost, TypeOK
    <2> QED
      BY <2>2, <2>3
  <1>6. ASSUME NEW p \in Receivers, PutRefuse(p) PROVE OnePlace' /\ NothingLost'
    <2>1. hand[p] # None /\ hand[p] \in Msgs /\ p \in Procs
      BY <1>6 DEF PutRefuse, HandOK, TypeOK
    <2>2. OnePlace'
      BY <1>6, <2>1, ProcAssumption, MsgAssumption DEF PutRefuse, OnePlace, TypeOK
    <2>3. NothingLost'
      BY <1>6, <2>1, ProcAssumption, MsgAssumption DEF PutRefuse, NothingLost, TypeOK
    <2> QED
      BY <2>2, <2>3
  <1>7. ASSUME NEW w \in Workers, TakeLoad(w) PROVE OnePlace' /\ NothingLost'
    <2>1. hand[w] = None /\ queue[start] # None /\ queue[start] \in Msgs /\ w \in Procs
          /\ start \in Slots
      BY <1>0, <1>7 DEF TakeLoad, HandOK, TypeOK
    <2>2. OnePlace'
      BY <1>7, <2>1, ProcAssumption, MsgAssumption DEF TakeLoad, OnePlace, TypeOK
    <2>3. NothingLost'
      BY <1>7, <2>1, ProcAssumption, MsgAssumption DEF TakeLoad, NothingLost, TypeOK
    <2> QED
      BY <2>2, <2>3
  <1>8. ASSUME NEW w \in Workers, Handle(w) PROVE OnePlace' /\ NothingLost'
    <2>1. hand[w] # None /\ hand[w] \in Msgs /\ w \in Procs
      BY <1>8 DEF Handle, HandOK, TypeOK
    <2>2. OnePlace'
      BY <1>8, <2>1, ProcAssumption, MsgAssumption DEF Handle, OnePlace, TypeOK
    <2>3. NothingLost'
      BY <1>8, <2>1, ProcAssumption, MsgAssumption DEF Handle, NothingLost, TypeOK
    <2> QED
      BY <2>2, <2>3
  <1>9. ASSUME NEW p \in Receivers, Receive(p) PROVE OnePlace' /\ NothingLost'
    <2>1. hand[p] = None /\ p \in Procs
      BY <1>9 DEF Receive, HandOK, TypeOK
    <2>2. PICK m \in unread : Hold(p, m) /\ unread' = unread \ {m}
      BY <1>9 DEF Receive
    <2>3. m \in Msgs /\ queue' = queue /\ handled' = handled /\ refused' = refused
      BY <1>9 DEF Receive, TypeOK
    <2>4. OnePlace'
      BY <2>1, <2>2, <2>3, ProcAssumption, MsgAssumption DEF OnePlace, TypeOK
    <2>5. NothingLost'
      BY <2>1, <2>2, <2>3, ProcAssumption, MsgAssumption DEF NothingLost, TypeOK
    <2> QED
      BY <2>4, <2>5
  <1> QED
    BY <1>1, <1>2, <1>3, <1>4, <1>5, <1>6, <1>7, <1>8, <1>9, PlacesUnchanged
       DEF Next, places

\* A worker that goes to sleep found the queue empty.
LEMMA WorkerWillLookStep ==
    TypeOK /\ FlagOK /\ SomeWorkerWillLook /\ [Next]_vars => SomeWorkerWillLook'
  <1> SUFFICES ASSUME TypeOK, FlagOK, SomeWorkerWillLook, [Next]_vars PROVE SomeWorkerWillLook'
    OBVIOUS
  <1> USE ProcAssumption DEF TypeOK, SomeWorkerWillLook
  <1>1. ASSUME NEW p \in Receivers, ReceiverStep(p) PROVE SomeWorkerWillLook'
    <2>1. CASE ReceiveLoop(p) \/ SpinOnShutdown(p)
      BY <2>1 DEF ReceiveLoop, SpinOnShutdown
    <2>2. CASE PutLock(p) \/ PutFull(p)
      BY <2>2 DEF PutLock, PutFull
    <2>3. CASE PutSignal(p) \/ PutUnlock(p)
      BY <2>3 DEF PutSignal, PutUnlock
    <2>4. CASE PutStore(p)
      BY <2>4 DEF PutStore
    <2>5. CASE PutRefuse(p) \/ PutWait(p)
      BY <2>5 DEF PutRefuse, PutWait
    <2>6. CASE PutWake(p)
      BY <2>6 DEF PutWake
    <2> QED
      BY <1>1, <2>1, <2>2, <2>3, <2>4, <2>5, <2>6 DEF ReceiverStep, Put
  <1>2. ASSUME NEW w \in Workers, WorkerStep(w) PROVE SomeWorkerWillLook'
    <2>1. CASE WorkerCheck(w) \/ Poison(w)
      BY <2>1 DEF WorkerCheck, Poison
    <2>2. CASE TakeLock(w) \/ TakeEmpty(w)
      BY <2>2 DEF TakeLock, TakeEmpty
    <2>3. CASE TakeSignal(w) \/ TakeUnlock(w)
      BY <2>3 DEF TakeSignal, TakeUnlock
    <2>4. CASE TakeLoad(w)
      BY <2>4 DEF TakeLoad
    <2>5. CASE TakeGiveUp(w) \/ TakeWait(w)
      BY <2>5 DEF TakeGiveUp, TakeWait
    <2>6. CASE TakeWake(w) \/ Handle(w)
      BY <2>6 DEF TakeWake, Handle
    <2> QED
      BY <1>2, <2>1, <2>2, <2>3, <2>4, <2>5, <2>6 DEF WorkerStep, Take
  <1>3. CASE MainStep
    BY <1>3 DEF MainStep, PoisonQueue, Destroy
  <1>4. CASE Environment
    <2>1. ASSUME NEW p \in Receivers, Receive(p) \/ Disconnect(p) PROVE SomeWorkerWillLook'
      BY <2>1 DEF Receive, Disconnect
    <2>2. ASSUME NEW q \in Procs, Interrupt(q) PROVE SomeWorkerWillLook'
      BY <2>2 DEF Interrupt
    <2>3. CASE BeginShutdown
      BY <2>3 DEF BeginShutdown
    <2> QED
      BY <1>4, <2>1, <2>2, <2>3 DEF Environment
  <1>5. CASE UNCHANGED vars
    BY <1>5
  <1> QED
    BY <1>1, <1>2, <1>3, <1>4, <1>5 DEF Next

\* A receiver that goes to sleep found the queue full, so not empty.
LEMMA WillPostStep ==
    TypeOK /\ SomeoneWillPost /\ [Next]_vars => SomeoneWillPost'
  <1> SUFFICES ASSUME TypeOK, SomeoneWillPost, [Next]_vars PROVE SomeoneWillPost'
    OBVIOUS
  <1> USE ProcAssumption, MaxAssumption DEF TypeOK, SomeoneWillPost
  <1>0. NextSlot(end) # end
    BY NextSlotIs, MaxAssumption
  <1>1. ASSUME NEW p \in Receivers, ReceiverStep(p) PROVE SomeoneWillPost'
    <2>1. CASE ReceiveLoop(p) \/ SpinOnShutdown(p)
      BY <1>0, <2>1 DEF ReceiveLoop, SpinOnShutdown
    <2>2. CASE PutLock(p) \/ PutFull(p)
      BY <1>0, <2>2 DEF PutLock, PutFull
    <2>3. CASE PutSignal(p) \/ PutUnlock(p)
      BY <1>0, <2>3 DEF PutSignal, PutUnlock
    <2>4. CASE PutStore(p)
      BY <1>0, <2>4 DEF PutStore
    <2>5. CASE PutRefuse(p) \/ PutWait(p)
      BY <1>0, <2>5 DEF PutRefuse, PutWait
    <2>6. CASE PutWake(p)
      BY <1>0, <2>6 DEF PutWake
    <2> QED
      BY <1>1, <2>1, <2>2, <2>3, <2>4, <2>5, <2>6 DEF ReceiverStep, Put
  <1>2. ASSUME NEW w \in Workers, WorkerStep(w) PROVE SomeoneWillPost'
    <2>1. CASE WorkerCheck(w) \/ Poison(w)
      BY <1>0, <2>1 DEF WorkerCheck, Poison
    <2>2. CASE TakeLock(w) \/ TakeEmpty(w)
      BY <1>0, <2>2 DEF TakeLock, TakeEmpty
    <2>3. CASE TakeSignal(w) \/ TakeUnlock(w)
      BY <1>0, <2>3 DEF TakeSignal, TakeUnlock
    <2>4. CASE TakeLoad(w)
      BY <1>0, <2>4 DEF TakeLoad
    <2>5. CASE TakeGiveUp(w) \/ TakeWait(w)
      BY <1>0, <2>5 DEF TakeGiveUp, TakeWait
    <2>6. CASE TakeWake(w) \/ Handle(w)
      BY <1>0, <2>6 DEF TakeWake, Handle
    <2> QED
      BY <1>2, <2>1, <2>2, <2>3, <2>4, <2>5, <2>6 DEF WorkerStep, Take
  <1>3. CASE MainStep
    BY <1>0, <1>3 DEF MainStep, PoisonQueue, Destroy
  <1>4. CASE Environment
    <2>1. ASSUME NEW p \in Receivers, Receive(p) \/ Disconnect(p) PROVE SomeoneWillPost'
      BY <1>0, <2>1 DEF Receive, Disconnect
    <2>2. ASSUME NEW q \in Procs, Interrupt(q) PROVE SomeoneWillPost'
      BY <1>0, <2>2 DEF Interrupt
    <2>3. CASE BeginShutdown
      BY <1>0, <2>3 DEF BeginShutdown
    <2> QED
      BY <1>4, <2>1, <2>2, <2>3 DEF Environment
  <1>5. CASE UNCHANGED vars
    BY <1>0, <1>5
  <1> QED
    BY <1>1, <1>2, <1>3, <1>4, <1>5 DEF Next

\* A worker that leaves posts for the next one.
LEMMA PoisonStep ==
    TypeOK /\ FlagOK /\ PoisonIsPassedOn /\ [Next]_vars => PoisonIsPassedOn'
  <1> SUFFICES ASSUME TypeOK, FlagOK, PoisonIsPassedOn, [Next]_vars PROVE PoisonIsPassedOn'
    OBVIOUS
  <1> USE ProcAssumption DEF TypeOK, FlagOK, PoisonIsPassedOn
  <1>1. ASSUME NEW p \in Receivers, ReceiverStep(p) PROVE PoisonIsPassedOn'
    <2>1. CASE ReceiveLoop(p) \/ SpinOnShutdown(p)
      BY <2>1 DEF ReceiveLoop, SpinOnShutdown
    <2>2. CASE PutLock(p) \/ PutFull(p)
      BY <2>2 DEF PutLock, PutFull
    <2>3. CASE PutSignal(p) \/ PutUnlock(p)
      BY <2>3 DEF PutSignal, PutUnlock
    <2>4. CASE PutStore(p)
      BY <2>4 DEF PutStore
    <2>5. CASE PutRefuse(p) \/ PutWait(p)
      BY <2>5 DEF PutRefuse, PutWait
    <2>6. CASE PutWake(p)
      BY <2>6 DEF PutWake
    <2> QED
      BY <1>1, <2>1, <2>2, <2>3, <2>4, <2>5, <2>6 DEF ReceiverStep, Put
  <1>2. ASSUME NEW w \in Workers, WorkerStep(w) PROVE PoisonIsPassedOn'
    <2>1. CASE WorkerCheck(w) \/ Poison(w)
      BY <2>1 DEF WorkerCheck, Poison
    <2>2. CASE TakeLock(w) \/ TakeEmpty(w)
      BY <2>2 DEF TakeLock, TakeEmpty
    <2>3. CASE TakeSignal(w) \/ TakeUnlock(w)
      BY <2>3 DEF TakeSignal, TakeUnlock
    <2>4. CASE TakeLoad(w)
      BY <2>4 DEF TakeLoad
    <2>5. CASE TakeGiveUp(w) \/ TakeWait(w)
      BY <2>5 DEF TakeGiveUp, TakeWait
    <2>6. CASE TakeWake(w) \/ Handle(w)
      BY <2>6 DEF TakeWake, Handle
    <2> QED
      BY <1>2, <2>1, <2>2, <2>3, <2>4, <2>5, <2>6 DEF WorkerStep, Take
  <1>3. CASE MainStep
    BY <1>3 DEF MainStep, PoisonQueue, Destroy
  <1>4. CASE Environment
    <2>1. ASSUME NEW p \in Receivers, Receive(p) \/ Disconnect(p) PROVE PoisonIsPassedOn'
      BY <2>1 DEF Receive, Disconnect
    <2>2. ASSUME NEW q \in Procs, Interrupt(q) PROVE PoisonIsPassedOn'
      BY <2>2 DEF Interrupt
    <2>3. CASE BeginShutdown
      BY <2>3 DEF BeginShutdown
    <2> QED
      BY <1>4, <2>1, <2>2, <2>3 DEF Environment
  <1>5. CASE UNCHANGED vars
    BY <1>5
  <1> QED
    BY <1>1, <1>2, <1>3, <1>4, <1>5 DEF Next

-----------------------------------------------------------------------------
(***************************************************************************)
(* The inductive invariant, and the properties of the specification.       *)
(***************************************************************************)
IInv == /\ TypeOK /\ HandOK /\ FlagOK /\ LockHeld
        /\ RingHoldsTasks /\ OnePlace /\ NothingLost
        /\ SomeWorkerWillLook /\ SomeoneWillPost /\ PoisonIsPassedOn

LEMMA InitInv == Init => IInv
  <1> SUFFICES ASSUME Init PROVE IInv
    OBVIOUS
  <1> USE ProcAssumption, MsgAssumption, MaxAssumption, SemAssumption,
          SignalAssumption DEF Init
  <1>1. TypeOK
    <2>1. /\ pc \in [Procs -> ReceiverPCs \cup WorkerPCs]
          /\ \A p \in Receivers : pc[p] \in ReceiverPCs
          /\ \A w \in Workers : pc[w] \in WorkerPCs
      OBVIOUS
    <2>2. /\ queue \in [Slots -> Msgs \cup {None}] /\ start \in Slots /\ end \in Slots
          /\ hand \in [Procs -> Msgs \cup {None}]
      OBVIOUS
    <2>3. empty \in Nat /\ full \in Nat /\ signals \in 0 .. MaxSignals
      OBVIOUS
    <2> QED
      BY <2>1, <2>2, <2>3 DEF TypeOK
  <1>2. HandOK /\ FlagOK /\ LockHeld
    BY DEF HandOK, FlagOK, LockHeld, Critical
  <1>3. RingHoldsTasks
    BY DEF RingHoldsTasks, InRing
  <1>4. OnePlace /\ NothingLost
    BY DEF OnePlace, NothingLost
  <1>5. SomeWorkerWillLook /\ SomeoneWillPost /\ PoisonIsPassedOn
    BY DEF SomeWorkerWillLook, SomeoneWillPost, PoisonIsPassedOn
  <1> QED
    BY <1>1, <1>2, <1>3, <1>4, <1>5 DEF IInv

LEMMA StepInv == IInv /\ [Next]_vars => IInv'
  BY TypeStep, HandStep, FlagStep, LockStep, RingStep, PlacesStep,
     WorkerWillLookStep, WillPostStep, PoisonStep DEF IInv

THEOREM Inductive == Spec => []IInv
  BY InitInv, StepInv, PTL DEF Spec

\* Every variable keeps its type, whatever the processes do.
THEOREM TypeCorrect == Spec => []TypeOK
  <1>1. IInv => TypeOK
    BY DEF IInv
  <1> QED
    BY <1>1, Inductive, PTL

\* tasks->lock gives mutual exclusion: the process between lock_get and
\* lock_release in put_task or take_task is the holder of the lock.
THEOREM MutualExclusion == Spec => []LockHeld
  <1>1. IInv => LockHeld
    BY DEF IInv
  <1> QED
    BY <1>1, Inductive, PTL

\* The ring holds the queued messages and nothing else.
THEOREM RingKept == Spec => []RingHoldsTasks
  <1>1. IInv => RingHoldsTasks
    BY DEF IInv
  <1> QED
    BY <1>1, Inductive, PTL

\* Every message is in one place: no two workers process and free it, and none is lost.
THEOREM MessagesKept == Spec => []InOnePlace
  <1>1. IInv => InOnePlace
    BY DEF IInv, InOnePlace
  <1> QED
    BY <1>1, Inductive, PTL

\* No wake-up is lost although posts collapse, for any number of receivers and workers
\* and every size of the ring.
THEOREM NoWakeupLost == Spec => []NoLostWakeup
  <1>1. IInv => NoLostWakeup
    BY DEF IInv, NoLostWakeup
  <1> QED
    BY <1>1, Inductive, PTL

(***************************************************************************)
(* The refinement: every step of TaskQueue is a step of the FIFO or leaves *)
(* it alone.                                                               *)
(***************************************************************************)

Item == Msgs \cup {None}

USE DEF Slots

\* What Count and SlotAt give.
LEMMA CountFacts ==
    ASSUME NEW s \in Slots, NEW e \in Slots
    PROVE  /\ Count(s, e) \in 0 .. Max - 1
           /\ Count(s, e) = 0 <=> s = e
           /\ Count(s, e) = Max - 1 <=> NextSlot(e) = s
           /\ \A k \in 0 .. Max - 1 : SlotAt(s, k) \in Slots
  <1>1. NextSlot(e) = IF e = Max - 1 THEN 0 ELSE e + 1
    BY NextSlotIs
  <1>2. Count(s, e) \in 0 .. Max - 1
    BY MaxAssumption DEF Count
  <1>3. Count(s, e) = 0 <=> s = e
    BY MaxAssumption DEF Count
  <1>4. Count(s, e) = Max - 1 <=> NextSlot(e) = s
    BY <1>1, MaxAssumption DEF Count
  <1>5. \A k \in 0 .. Max - 1 : SlotAt(s, k) \in Slots
    BY MaxAssumption DEF SlotAt
  <1> QED
    BY <1>2, <1>3, <1>4, <1>5

LEMMA ContentsIsSeq ==
    ASSUME NEW q \in [Slots -> Item], NEW s \in Slots, NEW e \in Slots
    PROVE  /\ Contents(q, s, e) \in Seq(Item)
           /\ Len(Contents(q, s, e)) = Count(s, e)
           /\ \A k \in 1 .. Count(s, e) : Contents(q, s, e)[k] = q[SlotAt(s, k - 1)]
  <1>1. Count(s, e) \in Nat
    BY CountFacts, MaxAssumption
  <1>2. \A k \in 1 .. Count(s, e) : q[SlotAt(s, k - 1)] \in Item
    <2> SUFFICES ASSUME NEW k \in 1 .. Count(s, e) PROVE q[SlotAt(s, k - 1)] \in Item
      OBVIOUS
    <2>1. k - 1 \in 0 .. Max - 1
      BY CountFacts, MaxAssumption
    <2> QED
      BY <2>1, CountFacts
  <1>3. Contents(q, s, e) \in [1 .. Count(s, e) -> Item]
    BY <1>2 DEF Contents
  <1>4. Contents(q, s, e) \in Seq(Item)
    BY <1>1, <1>3, SeqDef
  <1>5. DOMAIN Contents(q, s, e) = 1 .. Count(s, e)
    BY <1>3
  <1>6. Len(Contents(q, s, e)) = Count(s, e)
    BY <1>1, <1>4, <1>5, LenProperties
  <1>7. \A k \in 1 .. Count(s, e) : Contents(q, s, e)[k] = q[SlotAt(s, k - 1)]
    BY DEF Contents
  <1> QED
    BY <1>4, <1>6, <1>7

\* What put_task does to the queue: the message is appended.
LEMMA ContentsPut ==
    ASSUME NEW q \in [Slots -> Item], NEW s \in Slots, NEW e \in Slots, NEW m \in Item,
           NextSlot(e) # s
    PROVE  /\ Count(s, e) < Max - 1
           /\ Contents([q EXCEPT ![e] = m], s, NextSlot(e)) = Append(Contents(q, s, e), m)
  <1> DEFINE r == [q EXCEPT ![e] = m]
             new == Contents(r, s, NextSlot(e))
             old == Contents(q, s, e)
             n == Count(s, e)
  <1>1. NextSlot(e) \in Slots /\ NextSlot(e) = IF e = Max - 1 THEN 0 ELSE e + 1
    BY NextSlotIs
  <1>2. n \in 0 .. Max - 1 /\ n < Max - 1 /\ Count(s, NextSlot(e)) = n + 1
    <2>1. n \in 0 .. Max - 1 /\ n # Max - 1
      BY CountFacts
    <2>2. n < Max - 1
      BY <2>1, MaxAssumption
    <2>3. Count(s, NextSlot(e)) = n + 1
      BY <1>1, MaxAssumption DEF Count
    <2> QED
      BY <2>1, <2>2, <2>3
  <1>3. r \in [Slots -> Item]
    OBVIOUS
  <1>4. /\ new \in Seq(Item) /\ Len(new) = n + 1
        /\ \A k \in 1 .. n + 1 : new[k] = r[SlotAt(s, k - 1)]
    <2> HIDE DEF r
    <2>1. /\ new \in Seq(Item) /\ Len(new) = Count(s, NextSlot(e))
          /\ \A k \in 1 .. Count(s, NextSlot(e)) : new[k] = r[SlotAt(s, k - 1)]
      BY <1>1, <1>3, ContentsIsSeq
    <2> QED
      BY <1>2, <2>1
  <1>5. /\ old \in Seq(Item) /\ Len(old) = n
        /\ \A k \in 1 .. n : old[k] = q[SlotAt(s, k - 1)]
    BY ContentsIsSeq
  <1>6. SlotAt(s, n) = e
    BY MaxAssumption DEF Count, SlotAt
  <1>7. \A k \in 0 .. n - 1 : SlotAt(s, k) \in Slots /\ SlotAt(s, k) # e
    BY MaxAssumption DEF Count, SlotAt
  <1>8. \A k \in 1 .. n : new[k] = old[k]
    <2> SUFFICES ASSUME NEW k \in 1 .. n PROVE new[k] = old[k]
      OBVIOUS
    <2>1. k - 1 \in 0 .. n - 1 /\ k \in 1 .. n + 1
      BY <1>2, MaxAssumption
    <2>2. r[SlotAt(s, k - 1)] = q[SlotAt(s, k - 1)]
      BY <1>7, <2>1
    <2> QED
      BY <1>4, <1>5, <2>1, <2>2
  <1>9. new[n + 1] = m
    <2>1. n + 1 \in 1 .. n + 1 /\ (n + 1) - 1 = n
      BY <1>2, MaxAssumption
    <2> QED
      BY <1>4, <1>6, <2>1
  <1> HIDE DEF r, new, old, n
  <1>10. /\ Append(old, m) \in Seq(Item) /\ Len(Append(old, m)) = n + 1
         /\ \A k \in 1 .. n : Append(old, m)[k] = old[k]
         /\ Append(old, m)[n + 1] = m
    BY <1>5, AppendProperties
  <1>11. \A k \in 1 .. n + 1 : new[k] = Append(old, m)[k]
    <2> SUFFICES ASSUME NEW k \in 1 .. n + 1 PROVE new[k] = Append(old, m)[k]
      OBVIOUS
    <2>1. k \in 1 .. n \/ k = n + 1
      BY <1>2, MaxAssumption
    <2> QED
      BY <1>8, <1>9, <1>10, <2>1
  <1>12. new = Append(old, m)
    BY <1>4, <1>10, <1>11, SeqEqual
  <1> QED
    BY <1>2, <1>12 DEF r, new, old, n

\* What take_task does to the queue: the oldest message is removed.
LEMMA ContentsTake ==
    ASSUME NEW q \in [Slots -> Item], NEW s \in Slots, NEW e \in Slots, NEW m \in Item,
           s # e
    PROVE  /\ Contents(q, s, e) # << >>
           /\ Head(Contents(q, s, e)) = q[s]
           /\ Contents([q EXCEPT ![s] = m], NextSlot(s), e) = Tail(Contents(q, s, e))
  <1> DEFINE r == [q EXCEPT ![s] = m]
             new == Contents(r, NextSlot(s), e)
             old == Contents(q, s, e)
             n == Count(s, e)
  <1>1. NextSlot(s) \in Slots /\ NextSlot(s) = IF s = Max - 1 THEN 0 ELSE s + 1
    BY NextSlotIs
  <1>2. n \in 1 .. Max - 1 /\ Count(NextSlot(s), e) = n - 1
    BY <1>1, MaxAssumption DEF Count
  <1>3. r \in [Slots -> Item]
    OBVIOUS
  <1>4. /\ new \in Seq(Item) /\ Len(new) = n - 1
        /\ \A k \in 1 .. n - 1 : new[k] = r[SlotAt(NextSlot(s), k - 1)]
    <2> HIDE DEF r
    <2>1. /\ new \in Seq(Item) /\ Len(new) = Count(NextSlot(s), e)
          /\ \A k \in 1 .. Count(NextSlot(s), e) : new[k] = r[SlotAt(NextSlot(s), k - 1)]
      BY <1>1, <1>3, ContentsIsSeq
    <2> QED
      BY <1>2, <2>1
  <1>5. /\ old \in Seq(Item) /\ Len(old) = n
        /\ \A k \in 1 .. n : old[k] = q[SlotAt(s, k - 1)]
    BY ContentsIsSeq
  <1>6. \A k \in 1 .. n - 1 : /\ SlotAt(NextSlot(s), k - 1) = SlotAt(s, k)
                              /\ SlotAt(s, k) \in Slots /\ SlotAt(s, k) # s
    BY <1>1, <1>2, MaxAssumption DEF SlotAt
  <1>7. \A k \in 1 .. n - 1 : new[k] = old[k + 1]
    <2> SUFFICES ASSUME NEW k \in 1 .. n - 1 PROVE new[k] = old[k + 1]
      OBVIOUS
    <2>1. k + 1 \in 1 .. n /\ (k + 1) - 1 = k
      BY <1>2, MaxAssumption
    <2>2. new[k] = r[SlotAt(s, k)] /\ r[SlotAt(s, k)] = q[SlotAt(s, k)]
      BY <1>4, <1>6
    <2> QED
      BY <1>5, <2>1, <2>2
  <1>8. old # << >> /\ old[1] = q[s]
    <2>1. 1 \in 1 .. n /\ SlotAt(s, 1 - 1) = s
      BY <1>2, MaxAssumption DEF SlotAt
    <2>2. old[1] = q[s]
      BY <1>5, <2>1
    <2>3. Len(old) # 0
      BY <1>2, <1>5, MaxAssumption
    <2> QED
      BY <2>2, <2>3, EmptySeq
  <1> HIDE DEF r, new, old, n
  <1>9. /\ Tail(old) \in Seq(Item) /\ Len(Tail(old)) = n - 1
        /\ \A k \in 1 .. n - 1 : Tail(old)[k] = old[k + 1]
    BY <1>5, <1>8, HeadTailProperties
  <1>10. new = Tail(old)
    BY <1>4, <1>7, <1>9, SeqEqual
  <1>11. Head(old) = q[s]
    BY <1>5, <1>8
  <1> QED
    BY <1>8, <1>10, <1>11 DEF r, new, old, n

\* A step that touches neither the ring nor a hand of a worker stutters.
fifoVars == <<Queued, [w \in Workers |-> hand[w]]>>

LEMMA InitFifo == Init => Fifo!Init
  <1> SUFFICES ASSUME Init PROVE Fifo!Init
    OBVIOUS
  <1>1. [w \in Workers |-> hand[w]] = [w \in Workers |-> None]
    BY DEF Init, Procs
  <1>2. Queued = << >>
    <2>1. TypeOK
      BY InitInv DEF IInv
    <2>2. queue \in [Slots -> Item] /\ start \in Slots /\ start = end
      BY <2>1 DEF Init, TypeOK, Item
    <2>3. Contents(queue, start, start) \in Seq(Item)
      BY <2>2, ContentsIsSeq
    <2>4. Len(Contents(queue, start, start)) = 0
      <3>1. Count(start, start) = 0
        BY <2>2, CountFacts
      <3> QED
        BY <2>2, <3>1, ContentsIsSeq
    <2>5. Queued \in Seq(Item) /\ Len(Queued) = 0
      BY <2>2, <2>3, <2>4 DEF Queued
    <2> QED
      BY <2>5, EmptySeq
  <1> QED
    BY <1>1, <1>2 DEF Fifo!Init

\* Every step of the code is a step of the FIFO or a stutter.
LEMMA StepFifo == IInv /\ IInv' /\ [Next]_vars => [Fifo!Next]_fifoVars
  <1> SUFFICES ASSUME IInv, [Next]_vars PROVE [Fifo!Next]_fifoVars
    OBVIOUS
  <1> USE DEF GoTo, Hold, Procs, ring, sems, msgs, vars
  <1>t. /\ queue \in [Slots -> Item] /\ start \in Slots /\ end \in Slots
        /\ hand \in [Procs -> Item]
    BY DEF IInv, TypeOK, Item
  <1>1. ASSUME NEW p \in Receivers, ReceiverStep(p) PROVE [Fifo!Next]_fifoVars
    <2>1. CASE PutStore(p)
      <3>1. hand[p] \in Msgs /\ NextSlot(end) # start
        BY <2>1 DEF PutStore, IsFull, IInv, HandOK, TypeOK
      <3>2. Len(Queued) < Max - 1 /\ Queued' = Append(Queued, hand[p])
        <4>1. Queued' = Contents([queue EXCEPT ![end] = hand[p]], start, NextSlot(end))
          BY <2>1 DEF PutStore, Queued
        <4>2. hand[p] \in Item
          BY <3>1 DEF Item
        <4>3. /\ Count(start, end) < Max - 1
              /\ Contents([queue EXCEPT ![end] = hand[p]], start, NextSlot(end))
                   = Append(Contents(queue, start, end), hand[p])
          BY <1>t, <3>1, <4>2, ContentsPut
        <4>4. Len(Contents(queue, start, end)) = Count(start, end)
          BY <1>t, ContentsIsSeq
        <4> QED
          BY <4>1, <4>3, <4>4 DEF Queued
      <3>3. [w \in Workers |-> hand'[w]] = [w \in Workers |-> hand[w]]
        BY <1>t, <2>1, ProcAssumption DEF PutStore
      <3> QED
        BY <3>1, <3>2, <3>3 DEF Fifo!Next, Fifo!Put
    <2>2. CASE ~PutStore(p)
      <3>1. queue' = queue /\ start' = start /\ end' = end
        BY <1>1, <2>2 DEF ReceiverStep, ReceiveLoop, SpinOnShutdown, Put, PutLock, PutFull,
             PutSignal, PutUnlock, PutRefuse, PutWait, PutWake
      <3>2. hand' = hand \/ hand' = [hand EXCEPT ![p] = None]
        BY <1>1, <2>2 DEF ReceiverStep, ReceiveLoop, SpinOnShutdown, Put, PutLock, PutFull,
             PutSignal, PutUnlock, PutRefuse, PutWait, PutWake
      <3>3. [w \in Workers |-> hand'[w]] = [w \in Workers |-> hand[w]]
        BY <1>t, <3>2, ProcAssumption
      <3> QED
        BY <3>1, <3>3 DEF fifoVars, Queued
    <2> QED
      BY <2>1, <2>2
  <1>2. ASSUME NEW w \in Workers, WorkerStep(w) PROVE [Fifo!Next]_fifoVars
    <2>1. CASE TakeLoad(w)
      <3>1. start # end /\ hand[w] = None
        BY <2>1 DEF TakeLoad, IsEmpty, IInv, HandOK
      <3>2. /\ Queued # << >> /\ Head(Queued) = queue[start]
            /\ Queued' = Tail(Queued)
        <4>1. Queued' = Contents([queue EXCEPT ![start] = None], NextSlot(start), end)
          BY <2>1 DEF TakeLoad, Queued
        <4>2. None \in Item
          BY DEF Item
        <4> QED
          BY <1>t, <3>1, <4>1, <4>2, ContentsTake DEF Queued
      <3>3. [v \in Workers |-> hand'[v]]
              = [[v \in Workers |-> hand[v]] EXCEPT ![w] = Head(Queued)]
        BY <1>t, <2>1, <3>2 DEF TakeLoad
      <3>4. Fifo!Take(w)
        BY <3>1, <3>2, <3>3 DEF Fifo!Take
      <3> QED
        BY <3>4 DEF Fifo!Next
    <2>2. CASE Handle(w)
      <3>1. hand[w] # None
        BY <2>2 DEF Handle, IInv, HandOK
      <3>2. [v \in Workers |-> hand'[v]]
              = [[v \in Workers |-> hand[v]] EXCEPT ![w] = None]
        BY <1>t, <2>2 DEF Handle
      <3>3. Queued' = Queued
        BY <2>2 DEF Handle, Queued
      <3>4. Fifo!Finish(w)
        BY <3>1, <3>2, <3>3 DEF Fifo!Finish
      <3> QED
        BY <3>4 DEF Fifo!Next
    <2>3. CASE ~TakeLoad(w) /\ ~Handle(w)
      BY <1>2, <2>3 DEF fifoVars, Queued, WorkerStep, WorkerCheck, Take, TakeLock, TakeEmpty,
           TakeSignal, TakeUnlock, TakeGiveUp, TakeWait, TakeWake, Poison
    <2> QED
      BY <2>1, <2>2, <2>3
  <1>3. CASE MainStep
    BY <1>3 DEF fifoVars, Queued, MainStep, PoisonQueue, Destroy
  <1>4. CASE Environment
    <2>1. ASSUME NEW p \in Receivers, Receive(p) PROVE [Fifo!Next]_fifoVars
      <3>1. PICK m : hand' = [hand EXCEPT ![p] = m]
        BY <2>1 DEF Receive
      <3>2. [w \in Workers |-> hand'[w]] = [w \in Workers |-> hand[w]]
        BY <1>t, <3>1, ProcAssumption
      <3>3. Queued' = Queued
        BY <2>1 DEF Receive, Queued
      <3> QED
        BY <3>2, <3>3 DEF fifoVars
    <2>2. CASE BeginShutdown \/ (\E p \in Receivers : Disconnect(p))
               \/ \E q \in Procs : Interrupt(q)
      BY <2>2 DEF fifoVars, Queued, BeginShutdown, Disconnect, Interrupt
    <2> QED
      BY <1>4, <2>1, <2>2 DEF Environment
  <1>5. CASE UNCHANGED vars
    BY <1>5 DEF fifoVars, Queued
  <1> QED
    BY <1>1, <1>2, <1>3, <1>4, <1>5 DEF Next

\* put_task and take_task implement a bounded FIFO that hands every task to
\* one worker, in the order in which put_task stored them.
THEOREM Refinement == Spec => ImplementsFifo
  <1>1. Init => Fifo!Init
    BY InitFifo
  <1>2. IInv /\ IInv' /\ [Next]_vars => [Fifo!Next]_fifoVars
    BY StepFifo
  <1> QED
    BY <1>1, <1>2, Inductive, PTL DEF Spec, ImplementsFifo, Fifo!Spec, fifoVars
=============================================================================
