----------------------------- MODULE TaskFifo -----------------------------
(***************************************************************************)
(* What put_task and take_task (cdp/worker.c) promise their callers: a     *)
(* bounded first-in first-out buffer from which each task is handed to one *)
(* worker.  No lock, no semaphore, no ring.                                *)
(***************************************************************************)
EXTENDS Naturals, Sequences

CONSTANTS Workers, Msgs, Capacity, None

VARIABLES buf,   \* the tasks put and not taken, oldest first
          task   \* the message each worker processes, None between two

Init == buf = << >> /\ task = [w \in Workers |-> None]

Put(m) ==
    /\ Len(buf) < Capacity
    /\ buf' = Append(buf, m)
    /\ UNCHANGED task

Take(w) ==
    /\ task[w] = None
    /\ buf # << >>
    /\ task' = [task EXCEPT ![w] = Head(buf)]
    /\ buf' = Tail(buf)

Finish(w) ==
    /\ task[w] # None
    /\ task' = [task EXCEPT ![w] = None]
    /\ UNCHANGED buf

Next ==
    \/ \E m \in Msgs : Put(m)
    \/ \E w \in Workers : Take(w) \/ Finish(w)

Spec == Init /\ [][Next]_<<buf, task>>
===========================================================================
