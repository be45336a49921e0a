------------------------ MODULE TransactionsProofs -------------------------
(***************************************************************************)
(* Proofs about Transactions, for any number of callers, workers, blocks   *)
(* and requests: the list stays a list, a caller gets its own answer or a  *)
(* time-out, and every call ends once (DiameterCalls).  They assume that   *)
(* memory is not handed out again while somebody points to it (Reuse).     *)
(* And about SharedMemory, for any size of memory, requests and buckets:   *)
(* the fragments and the lists of the free ones fit together.              *)
(***************************************************************************)
EXTENDS Transactions, SharedMemory, TLAPS, FiniteSetTheorems, SequenceTheorems,
        WellFoundedInduction

(***************************************************************************)
(* The inductive invariant.                                                *)
(***************************************************************************)

\* The pointers lead from head to tail and back.
ListOK ==
  /\ head = Nil <=> tail = Nil
  /\ head # Nil => head \in Listed /\ tail \in Listed
  /\ \A b \in Listed :
       /\ mem[b].next = Nil <=> b = tail
       /\ mem[b].prev = Nil <=> b = head
       /\ mem[b].next # Nil => mem[b].next \in Listed /\ mem[mem[b].next].prev = b
       /\ mem[b].prev # Nil => mem[b].prev \in Listed /\ mem[mem[b].prev].next = b

\* The transaction that the timer has called back for and not unlinked yet.
Leaving == {b \in Blocks : pc[timer] \in {"next", "unlink"} /\ cur[timer] = b}

\* Somebody will still call back for it: the timer, or the worker with its answer.
Fireable == Listed \ Leaving
Handled == {b \in Blocks : \E w \in Workers : pc[w] = "answer" /\ cur[w] = b}

\* Who is in AAASendRecvMessage frees its transaction itself; so far it sleeps or not.
Sync == {c \in Callers : waits(c) \/ pc[c] = "collect"}
Asleep == {c \in Callers : waits(c) /\ lk[c] \in heldL}

\* Who has its transaction in hand.
Owners == {c \in Callers : c \in Sync \/ pc[c] = "link"}

TimerOK ==
  /\ pc[timer] \in {"idle", "scan", "next", "unlink"}
  /\ tlock = IF pc[timer] = "idle" THEN Nil ELSE timer
  /\ pc[timer] = "idle" => cur[timer] = Nil
  /\ pc[timer] # "idle" => cur[timer] \in Listed \cup {Nil}
  /\ pc[timer] \in {"next", "unlink"} => cur[timer] # Nil
  /\ pc[timer] = "unlink" => nxt = mem[cur[timer]].next

WorkerOK(w) ==
  /\ pc[w] \in {"idle", "take", "answer"}
  /\ pc[w] # "answer" => cur[w] = Nil
  /\ pc[w] # "idle" => req[w] \in 1 .. reqs /\ req[w] \notin sent
  /\ pc[w] = "answer" =>
       /\ cur[w] \in used /\ cur[w] \notin Listed /\ cur[w] \notin orphans
       /\ mem[cur[w]].id = req[w]
       /\ mem[cur[w]].lock # Nil =>
            \E c \in Asleep : pc[c] = "wait" /\ cur[c] = cur[w]

CallerOK(c) ==
  /\ pc[c] \in {"idle", "link", "send", "wait", "collect"}
  /\ pc[c] = "idle" => cur[c] = Nil
  /\ pc[c] \in {"idle", "collect"} => ~waits(c)
  /\ pc[c] = "wait" => waits(c)
  /\ pc[c] # "idle" => req[c] \in 1 .. reqs
  /\ c \in Owners => /\ cur[c] \in used /\ cur[c] \notin orphans
                     /\ mem[cur[c]].id = req[c]
  /\ pc[c] = "link" => /\ cur[c] \notin Listed /\ cur[c] \notin Handled
                       /\ mem[cur[c]].next = Nil /\ mem[cur[c]].lock = lk[c]
  /\ c \in Sync => mem[cur[c]].lock # Nil
  /\ waits(c) => mem[cur[c]].lock = lk[c] /\ lk[c] \in usedL

\* Who sleeps will be called back once, and who is awake has been.
HookOK(c) ==
  /\ c \in Asleep => pc[c] = "link" \/ cur[c] \in Fireable \/ cur[c] \in Handled
  /\ c \in Sync /\ c \notin Asleep =>
       /\ pc[c] # "link" /\ cur[c] \notin Fireable /\ cur[c] \notin Handled
       /\ \/ mem[cur[c]].ans = req[c]
          \/ mem[cur[c]].ans = TimedOut /\ mem[cur[c]].expired

\* Identifiers and locks are not shared.
Apart ==
  /\ \A b, d \in used : mem[b].id = mem[d].id => b = d
  /\ \A c, d \in Callers : pc[c] # "idle" /\ pc[d] # "idle" /\ req[c] = req[d] => c = d
  /\ \A v, w \in Workers : pc[v] # "idle" /\ pc[w] # "idle" /\ req[v] = req[w] => v = w
  /\ \A c, d \in Callers : waits(c) /\ waits(d) /\ lk[c] = lk[d] => c = d
  /\ \A b \in orphans, c \in Callers :
       /\ waits(c) => lk[c] # mem[b].lock
       /\ pc[c] # "idle" => req[c] # mem[b].id

\* Where an allocated transaction is.
UsedOK ==
  /\ Listed \subseteq used \cup Leaving
  /\ orphans \subseteq used /\ \A b \in orphans : mem[b].lock # Nil
  /\ \A b \in used :
       /\ mem[b].id \in 1 .. reqs
       /\ mem[b].lock # Nil => b \in orphans \/ \E c \in Sync : cur[c] = b
       /\ b \in Listed \cup orphans \cup Handled \/ \E c \in Owners : cur[c] = b

\* A request that may be answered was sent.
Answerable == sent \cup {req[w] : w \in {v \in Workers : pc[v] # "idle"}}
SentOK ==
  \A i \in Answerable :
    /\ i \in 1 .. reqs
    /\ \A c \in Callers : pc[c] \in {"link", "send"} => req[c] # i
    /\ \A b \in orphans : mem[b].id # i

IInv ==
  /\ TypeOK /\ ListOK /\ TimerOK
  /\ \A w \in Workers : WorkerOK(w)
  /\ \A c \in Callers : CallerOK(c) /\ HookOK(c)
  /\ Apart /\ UsedOK /\ SentOK

(***************************************************************************)
(* The list.                                                               *)
(***************************************************************************)

\* What the pointers reach is closed under them, and within every closed set.
LEMMA ListedClosed ==
  ASSUME TransactionsAssumption, TypeOK
  PROVE  /\ Closed(Listed) /\ Listed \subseteq Blocks
         /\ \A S \in SUBSET Blocks : Closed(S) => Listed \subseteq S
BY DEF Closed, Listed, TypeOK, Transaction, TransactionsAssumption

\* A list does not lead back to where it has been.
LEMMA NoLoop ==
  ASSUME TransactionsAssumption, TypeOK, ListOK, NEW x \in Listed
  PROVE  mem[x].next # x /\ mem[x].prev # x /\ head # Nil /\ tail # Nil
<1>0. head # Nil /\ tail # Nil
  <2>1. ASSUME head = Nil PROVE FALSE
    <3>1. Closed({})
      BY <2>1 DEF Closed
    <3> QED
      BY <3>1, ListedClosed
  <2> QED
    BY <2>1 DEF ListOK
<1>1. SUFFICES ASSUME mem[x].prev = x PROVE FALSE
  BY <1>0, ListedClosed DEF ListOK, TransactionsAssumption
<1>2. x # Nil /\ x # head
  BY <1>1, ListedClosed DEF ListOK, TransactionsAssumption
<1>3. Closed(Listed \ {x})
  BY <1>1, <1>2, ListedClosed DEF ListOK, Closed, TransactionsAssumption
<1> QED
  BY <1>3, ListedClosed

\* The same of the next state.
LEMMA ListedClosedNext ==
  ASSUME TransactionsAssumption, TypeOK'
  PROVE  /\ Closed(Listed)' /\ Listed' \subseteq Blocks
         /\ \A S \in SUBSET Blocks : Closed(S)' => Listed' \subseteq S
BY DEF Closed, Listed, TypeOK, Transaction, TransactionsAssumption

\* A step that leaves the pointers of the list alone leaves the list alone.
LEMMA SameList ==
  ASSUME TransactionsAssumption, TypeOK, TypeOK', ListOK, head' = head, tail' = tail,
         \A b \in Listed : mem'[b].next = mem[b].next /\ mem'[b].prev = mem[b].prev
  PROVE  Listed' = Listed /\ ListOK'
<1>1. PICK L \in SUBSET Blocks : L = Listed
  BY ListedClosed
<1>2. PICK M \in SUBSET Blocks : M = Listed'
  BY ListedClosedNext
<1>3. Closed(L)'
  BY <1>1, ListedClosed DEF Closed
<1>4. Closed(L \cap M)
  BY <1>1, <1>2, ListedClosed, ListedClosedNext DEF Closed
<1>5. L = M
  BY <1>1, <1>2, <1>3, <1>4, ListedClosed, ListedClosedNext
<1>6. Listed' = Listed
  BY <1>1, <1>2, <1>5
<1> QED
  BY <1>6, ListedClosed DEF ListOK

\* take_trans and trans_timer take one transaction out and keep the others.
LEMMA UnlinkList ==
  ASSUME TransactionsAssumption, TypeOK, TypeOK', ListOK, NEW x \in Listed, Unlink(x)
  PROVE  Listed' = Listed \ {x} /\ ListOK'
<1> USE TransactionsAssumption
<1>1. PICK p, n \in Blocks \cup {Nil} : p = mem[x].prev /\ n = mem[x].next
  BY ListedClosed DEF TypeOK, Transaction
<1>2. /\ \A b \in Blocks : mem'[b].next = IF p = b THEN n ELSE mem[b].next
      /\ \A b \in Blocks : mem'[b].prev = IF n = b THEN p ELSE mem[b].prev
  <2>1. \A b \in Blocks : mem'[b] = [mem[b] EXCEPT !.next = IF p = b THEN n ELSE @,
                                                   !.prev = IF n = b THEN p ELSE @]
    BY <1>1 DEF Unlink, UnlinkMem
  <2>2. \A b \in Blocks : mem[b] \in Transaction
    BY DEF TypeOK
  <2>3. ASSUME NEW b \in Blocks
        PROVE  /\ mem'[b].next = IF p = b THEN n ELSE mem[b].next
               /\ mem'[b].prev = IF n = b THEN p ELSE mem[b].prev
    <3>1. mem[b] \in Transaction
      BY <2>2
    <3>2. mem'[b] = [mem[b] EXCEPT !.next = IF p = b THEN n ELSE @,
                                   !.prev = IF n = b THEN p ELSE @]
      BY <2>1
    <3> QED
      BY <3>1, <3>2 DEF Transaction
  <2> QED
    BY <2>3
<1>3. /\ head' = IF p = Nil THEN n ELSE head
      /\ tail' = IF n = Nil THEN p ELSE tail
  BY <1>1 DEF Unlink
<1>4. /\ p # x /\ n # x /\ x \in Blocks /\ Nil \notin Blocks
      /\ p # Nil => p \in Listed /\ mem[p].next = x
      /\ n # Nil => n \in Listed /\ mem[n].prev = x
      /\ p = Nil <=> x = head
      /\ n = Nil <=> x = tail
  BY <1>1, NoLoop, ListedClosed DEF ListOK, TransactionsAssumption
<1>5. PICK L \in SUBSET Blocks : L = Listed
  BY ListedClosed
<1>6. PICK M \in SUBSET Blocks : M = Listed'
  BY ListedClosedNext
<1>7. head' \in (L \ {x}) \cup {Nil}
  BY <1>3, <1>4, <1>5 DEF ListOK
<1>8. ASSUME NEW b \in L \ {x}
      PROVE  mem'[b].next \in (L \ {x}) \cup {Nil}
  <2>1. mem[b].next \in L \cup {Nil} /\ (mem[b].next = x => b = p)
    BY <1>1, <1>5 DEF ListOK
  <2> QED
    BY <1>2, <1>4, <1>5, <2>1
<1>9. M \subseteq L \ {x}
  <2>1. Closed(L \ {x})'
    BY <1>7, <1>8 DEF Closed
  <2> QED
    BY <1>6, <2>1, ListedClosedNext
<1>10. /\ head' \in M \cup {Nil}
       /\ \A b \in M : mem'[b].next \in M \cup {Nil}
  BY <1>6, ListedClosedNext DEF Closed
<1>11. ASSUME p = Nil \/ p \in M PROVE M = L \ {x}
  <2>1. Closed(M \cup {x})
    BY <1>1, <1>2, <1>3, <1>4, <1>10, <1>11 DEF Closed
  <2>2. L \subseteq M \cup {x}
    BY <1>4, <1>5, <2>1, ListedClosed
  <2> QED
    BY <1>9, <2>2
<1>12. ASSUME p # Nil /\ p \notin M PROVE M = L \ {x}
  <2>1. Closed(M)
    BY <1>1, <1>2, <1>3, <1>4, <1>10, <1>12 DEF Closed
  <2>2. L \subseteq M
    BY <1>5, <2>1, ListedClosed
  <2> QED
    BY <1>9, <2>2
<1>13. Listed' = L \ {x}
  BY <1>6, <1>11, <1>12
<1>14. /\ head' = Nil <=> tail' = Nil
       /\ head' # Nil => head' \in L \ {x} /\ tail' \in L \ {x}
  BY <1>3, <1>4, <1>5 DEF ListOK
<1>15. ASSUME NEW b \in L \ {x}
       PROVE  /\ mem'[b].next = Nil <=> b = tail'
              /\ mem'[b].prev = Nil <=> b = head'
              /\ mem'[b].next # Nil => /\ mem'[b].next \in L \ {x}
                                       /\ mem'[mem'[b].next].prev = b
              /\ mem'[b].prev # Nil => /\ mem'[b].prev \in L \ {x}
                                       /\ mem'[mem'[b].prev].next = b
  <2>1. /\ b \in Blocks
        /\ mem[b].next = Nil <=> b = tail
        /\ mem[b].prev = Nil <=> b = head
        /\ mem[b].next # Nil => mem[b].next \in L /\ mem[mem[b].next].prev = b
        /\ mem[b].prev # Nil => mem[b].prev \in L /\ mem[mem[b].prev].next = b
        /\ head # Nil /\ tail # Nil
    BY <1>4, <1>5, NoLoop DEF ListOK
  <2>2. CASE p # b /\ n # b
    BY <1>1, <1>2, <1>3, <1>4, <1>5, <2>1, <2>2
  <2>3. CASE p = b
    BY <1>1, <1>2, <1>3, <1>4, <1>5, <2>1, <2>3
  <2>4. CASE n = b
    BY <1>1, <1>2, <1>3, <1>4, <1>5, <2>1, <2>4
  <2> QED
    BY <2>2, <2>3, <2>4
<1> QED
  BY <1>5, <1>13, <1>14, <1>15 DEF ListOK

\* add_trans puts a transaction at the end of the list.
LEMMA LinkList ==
  ASSUME TransactionsAssumption, TypeOK, TypeOK', ListOK, NEW b \in Blocks \ Listed,
         mem[b].next = Nil, tail' = b, head' = IF head = Nil THEN b ELSE head,
         \A x \in Blocks : /\ mem'[x].prev = IF x = b THEN tail ELSE mem[x].prev
                           /\ mem'[x].next = IF x = tail THEN b ELSE mem[x].next
  PROVE  Listed' = Listed \cup {b} /\ ListOK'
<1> USE TransactionsAssumption
<1>1. PICK L \in SUBSET Blocks : L = Listed
  BY ListedClosed
<1>2. PICK M \in SUBSET Blocks : M = Listed'
  BY ListedClosedNext
<1>3. /\ head = Nil <=> tail = Nil
      /\ head # Nil => head \in L /\ tail \in L /\ mem[tail].next = Nil
      /\ \A x \in L : mem[x].next \in L \cup {Nil} /\ mem[x].prev \in L \cup {Nil}
      /\ b \notin L /\ b # tail /\ Nil \notin Blocks
  BY <1>1 DEF ListOK, TransactionsAssumption
<1>4. M \subseteq L \cup {b}
  <2>1. Closed(L \cup {b})'
    BY <1>3 DEF Closed
  <2> QED
    BY <1>2, <2>1, ListedClosedNext
<1>5. /\ head' \in M \cup {Nil}
      /\ \A x \in M : mem'[x].next \in M \cup {Nil}
  BY <1>2, ListedClosedNext DEF Closed
<1>6. L \subseteq M
  <2>1. Closed(M)
    BY <1>1, <1>3, <1>5 DEF Closed, ListOK
  <2> QED
    BY <1>1, <2>1, ListedClosed
<1>7. b \in M
  BY <1>3, <1>5, <1>6
<1>8. Listed' = L \cup {b}
  BY <1>2, <1>4, <1>6, <1>7
<1>9. ASSUME NEW x \in L
      PROVE  /\ mem'[x].next = Nil <=> x = tail'
             /\ mem'[x].prev = Nil <=> x = head'
             /\ mem'[x].next # Nil => /\ mem'[x].next \in L \cup {b}
                                      /\ mem'[mem'[x].next].prev = x
             /\ mem'[x].prev # Nil => /\ mem'[x].prev \in L
                                      /\ mem'[mem'[x].prev].next = x
  <2>1. /\ x \in Blocks /\ x # b
        /\ mem[x].next = Nil <=> x = tail
        /\ mem[x].prev = Nil <=> x = head
        /\ mem[x].next # Nil => mem[x].next \in L /\ mem[mem[x].next].prev = x
        /\ mem[x].prev # Nil => mem[x].prev \in L /\ mem[mem[x].prev].next = x
        /\ head # Nil /\ tail # Nil
    BY <1>1, <1>3, NoLoop DEF ListOK
  <2> QED
    BY <1>3, <2>1
<1>10. /\ mem'[b].next = Nil
       /\ mem'[b].prev = Nil <=> b = head'
       /\ mem'[b].prev # Nil => /\ mem'[b].prev \in L
                                /\ mem'[mem'[b].prev].next = b
  BY <1>3
<1> QED
  BY <1>1, <1>3, <1>8, <1>9, <1>10 DEF ListOK

(***************************************************************************)
(* Every action keeps the invariant.                                       *)
(***************************************************************************)

\* Most steps leave the list as it is.
LEMMA KeepsList ==
  ASSUME ListOK, UNCHANGED <<head, tail, mem>>
  PROVE  Listed' = Listed /\ ListOK'
<1>1. Listed' = Listed
  BY DEF Listed, Closed
<1> QED
  BY <1>1 DEF ListOK

\* The request of c may be answered from now on.
LEMMA SendOkInv ==
  ASSUME TransactionsAssumption, IInv, NEW c \in Callers, SendOk(c)
  PROVE  IInv'
<1> USE TransactionsAssumption DEF TransactionsAssumption, SendOk, memory
<1>0. req[c] \in Ids
  BY DEF IInv, TypeOK, CallerOK, Ids
<1>1. TypeOK'
  BY <1>0 DEF IInv, TypeOK
<1>2. Listed' = Listed /\ ListOK'
  BY KeepsList DEF IInv
<1>3. Leaving' = Leaving /\ Fireable' = Fireable /\ Handled' = Handled
  BY <1>2 DEF Leaving, Fireable, Handled, IInv, TypeOK, Procs
<1>4. Sync' = Sync /\ Asleep' = Asleep /\ Owners' = Owners
  BY DEF Sync, Asleep, Owners, waits, IInv, TypeOK, Procs
<1>5. Answerable' = Answerable \cup {req[c]}
  BY DEF Answerable, IInv, TypeOK, Procs
<1>6. TimerOK'
  BY <1>2 DEF IInv, TimerOK, TypeOK, Procs
<1>7. ASSUME NEW w \in Workers PROVE WorkerOK(w)'
  <2>1. pc[w] # "idle" => req[w] # req[c]
    BY DEF IInv, SentOK, Answerable
  <2> QED
    BY <1>2, <1>4, <2>1 DEF IInv, WorkerOK, TypeOK, Procs, Asleep
<1>8. ASSUME NEW d \in Callers PROVE CallerOK(d)'
  BY <1>2, <1>3, <1>4 DEF IInv, CallerOK, TypeOK, Procs, waits, Sync, Owners
<1>9. ASSUME NEW d \in Callers PROVE HookOK(d)'
  BY <1>2, <1>3, <1>4 DEF IInv, HookOK, TypeOK, Procs, waits, Sync, Asleep
<1>10. Apart'
  BY DEF IInv, Apart, TypeOK, Procs, waits
<1>11. UsedOK'
  BY <1>2, <1>3, <1>4 DEF IInv, UsedOK, TypeOK, Procs, waits, Sync, Owners
<1>12. SentOK'
  BY <1>5 DEF IInv, SentOK, TypeOK, Procs, waits, Apart, CallerOK
<1> QED
  BY <1>1, <1>2, <1>6, <1>7, <1>8, <1>9, <1>10, <1>11, <1>12 DEF IInv

\* A transaction that c frees itself is given up.
LEMMA SendFailInv ==
  ASSUME TransactionsAssumption, IInv, NEW c \in Callers, SendFail(c)
  PROVE  IInv'
<1> USE TransactionsAssumption DEF TransactionsAssumption, SendFail, memory
<1>0. waits(c) => /\ cur[c] \in used /\ mem[cur[c]].id = req[c] /\ mem[cur[c]].lock = lk[c]
                  /\ cur[c] \notin orphans /\ c \in Sync /\ mem[cur[c]].lock # Nil
  BY DEF IInv, CallerOK, Sync, Owners
<1>01. orphans' \subseteq Blocks
  BY <1>0 DEF IInv, TypeOK
<1>1. TypeOK'
  BY <1>01 DEF IInv, TypeOK
<1>2. Listed' = Listed /\ ListOK'
  BY KeepsList DEF IInv
<1>3. Leaving' = Leaving /\ Fireable' = Fireable /\ Handled' = Handled
  BY <1>2 DEF Leaving, Fireable, Handled, IInv, TypeOK, Procs
<1>4. Sync' = Sync \ {c} /\ Asleep' = Asleep \ {c} /\ Owners' = Owners \ {c}
  BY DEF Sync, Asleep, Owners, waits, IInv, TypeOK, Procs
<1>5. Answerable' = Answerable
  BY DEF Answerable, IInv, TypeOK, Procs
<1>6. TimerOK'
  BY <1>2 DEF IInv, TimerOK, TypeOK, Procs
<1>7. ASSUME NEW w \in Workers PROVE WorkerOK(w)'
  <2>1. pc[w] # "idle" => req[w] # req[c]
    BY DEF IInv, SentOK, Answerable
  <2> QED
    BY <1>0, <1>2, <1>4, <2>1 DEF IInv, WorkerOK, TypeOK, Procs, Asleep
<1>8. ASSUME NEW d \in Callers PROVE CallerOK(d)'
  <2>1. CASE d = c
    BY <2>1, <1>2, <1>3, <1>4 DEF IInv, CallerOK, TypeOK, Procs, waits
  <2>2. CASE d # c
    BY <2>2, <1>0, <1>2, <1>3, <1>4
       DEF IInv, CallerOK, TypeOK, Procs, waits, Apart, Sync, Owners
  <2> QED
    BY <2>1, <2>2
<1>9. ASSUME NEW d \in Callers PROVE HookOK(d)'
  BY <1>2, <1>3, <1>4 DEF IInv, HookOK, TypeOK, Procs, waits, Sync, Asleep
<1>10. Apart'
  BY <1>0 DEF IInv, Apart, TypeOK, Procs, waits, CallerOK
<1>11. UsedOK'
  BY <1>0, <1>2, <1>3, <1>4 DEF IInv, UsedOK, TypeOK, Procs, Sync, Owners
<1>12. SentOK'
  BY <1>0, <1>5 DEF IInv, SentOK, TypeOK, Procs
<1> QED
  BY <1>1, <1>2, <1>6, <1>7, <1>8, <1>9, <1>10, <1>11, <1>12 DEF IInv

\* Who has been called back looks at its transaction.
LEMMA WakeInv ==
  ASSUME TransactionsAssumption, IInv, NEW c \in Callers, Wake(c)
  PROVE  IInv'
<1> USE TransactionsAssumption DEF TransactionsAssumption, Wake, memory
<1>1. TypeOK'
  BY DEF IInv, TypeOK
<1>2. Listed' = Listed /\ ListOK'
  BY KeepsList DEF IInv
<1>3. Leaving' = Leaving /\ Fireable' = Fireable /\ Handled' = Handled
  BY <1>2 DEF Leaving, Fireable, Handled, IInv, TypeOK, Procs
<1>4. Sync' = Sync /\ Asleep' = Asleep /\ Owners' = Owners
  BY DEF Sync, Asleep, Owners, waits, IInv, TypeOK, CallerOK, Procs
<1>5. Answerable' = Answerable
  BY DEF Answerable, IInv, TypeOK, Procs
<1>6. TimerOK'
  BY <1>2 DEF IInv, TimerOK, TypeOK, Procs
<1>7. ASSUME NEW w \in Workers PROVE WorkerOK(w)'
  BY <1>2, <1>4 DEF IInv, WorkerOK, TypeOK, Procs, Asleep
<1>8. ASSUME NEW d \in Callers PROVE CallerOK(d)'
  BY <1>2, <1>3, <1>4 DEF IInv, CallerOK, TypeOK, Procs, waits, Apart, Sync, Owners
<1>9. ASSUME NEW d \in Callers PROVE HookOK(d)'
  BY <1>2, <1>3, <1>4 DEF IInv, HookOK, TypeOK, Procs, waits, Sync, Asleep
<1>10. Apart'
  BY DEF IInv, Apart, TypeOK, Procs, waits
<1>11. UsedOK'
  BY <1>2, <1>3, <1>4 DEF IInv, UsedOK, TypeOK, Procs, waits, Sync, Owners
<1>12. SentOK'
  BY <1>5 DEF IInv, SentOK, TypeOK, Procs
<1> QED
  BY <1>1, <1>2, <1>6, <1>7, <1>8, <1>9, <1>10, <1>11, <1>12 DEF IInv

\* Nobody else has the transaction that c frees.
LEMMA CollectInv ==
  ASSUME TransactionsAssumption, IInv, NEW c \in Callers, Collect(c)
  PROVE  IInv'
<1> USE TransactionsAssumption DEF TransactionsAssumption, Collect
<1>0. /\ cur[c] \in used /\ mem[cur[c]].id = req[c] /\ cur[c] \notin orphans
      /\ cur[c] \notin Fireable /\ cur[c] \notin Handled /\ ~waits(c)
  BY DEF IInv, CallerOK, HookOK, Sync, Owners, Asleep
<1>1. TypeOK'
  BY DEF IInv, TypeOK
<1>2. Listed' = Listed /\ ListOK'
  BY KeepsList DEF IInv
<1>3. Leaving' = Leaving /\ Fireable' = Fireable /\ Handled' = Handled
  BY <1>2 DEF Leaving, Fireable, Handled, IInv, TypeOK, Procs
<1>4. Sync' = Sync \ {c} /\ Asleep' = Asleep /\ Owners' = Owners \ {c}
  BY <1>0 DEF Sync, Asleep, Owners, waits, IInv, TypeOK, Procs
<1>5. Answerable' = Answerable
  BY DEF Answerable, IInv, TypeOK, Procs
<1>6. TimerOK'
  BY <1>2 DEF IInv, TimerOK, TypeOK, Procs
<1>7. ASSUME NEW w \in Workers PROVE WorkerOK(w)'
  <2>1. pc[w] = "answer" => cur[w] # cur[c]
    BY <1>0 DEF Handled, IInv, TypeOK
  <2> QED
    BY <2>1, <1>2, <1>4 DEF IInv, WorkerOK, TypeOK, Procs, Asleep
<1>8. ASSUME NEW d \in Callers PROVE CallerOK(d)'
  <2>1. CASE d = c
    BY <2>1, <1>0, <1>2, <1>3, <1>4 DEF IInv, CallerOK, TypeOK, Procs, waits
  <2>2. CASE d # c
    BY <2>2, <1>0, <1>2, <1>3, <1>4
       DEF IInv, CallerOK, TypeOK, Procs, waits, Apart, Sync, Owners
  <2> QED
    BY <2>1, <2>2
<1>9. ASSUME NEW d \in Callers PROVE HookOK(d)'
  BY <1>2, <1>3, <1>4 DEF IInv, HookOK, TypeOK, Procs, waits, Sync, Asleep
<1>10. Apart'
  BY DEF IInv, Apart, TypeOK, Procs, waits
<1>11. UsedOK'
  <2>1. Listed \subseteq used' \cup Leaving
    BY <1>0 DEF IInv, UsedOK, Fireable
  <2> QED
    BY <2>1, <1>0, <1>2, <1>3, <1>4 DEF IInv, UsedOK, TypeOK, Procs, Sync, Owners
<1>12. SentOK'
  BY <1>5 DEF IInv, SentOK, TypeOK, Procs
<1> QED
  BY <1>1, <1>2, <1>6, <1>7, <1>8, <1>9, <1>10, <1>11, <1>12 DEF IInv

\* One worker gets the answer to a request.
LEMMA DeliverInv ==
  ASSUME TransactionsAssumption, IInv, NEW v \in Workers, Deliver(v)
  PROVE  IInv'
<1> USE TransactionsAssumption DEF TransactionsAssumption, Deliver, memory
<1>0. PICK i \in sent : req' = [req EXCEPT ![v] = i] /\ sent' = sent \ {i}
  OBVIOUS
<1>01. i \in Ids /\ i \in 1 .. reqs
  BY DEF IInv, SentOK, Answerable, TypeOK
<1>1. TypeOK'
  BY <1>0, <1>01 DEF IInv, TypeOK
<1>2. Listed' = Listed /\ ListOK'
  BY KeepsList DEF IInv
<1>3. Leaving' = Leaving /\ Fireable' = Fireable /\ Handled' = Handled
  BY <1>2 DEF Leaving, Fireable, Handled, IInv, TypeOK, Procs
<1>4. Sync' = Sync /\ Asleep' = Asleep /\ Owners' = Owners
  BY DEF Sync, Asleep, Owners, waits, IInv, TypeOK, Procs
<1>5. Answerable' = Answerable
  BY <1>0 DEF Answerable, IInv, TypeOK, Procs
<1>6. TimerOK'
  BY <1>2 DEF IInv, TimerOK, TypeOK, Procs
<1>7. ASSUME NEW w \in Workers PROVE WorkerOK(w)'
  BY <1>0, <1>01, <1>2, <1>4 DEF IInv, WorkerOK, TypeOK, Procs, Asleep
<1>8. ASSUME NEW d \in Callers PROVE CallerOK(d)'
  BY <1>0, <1>2, <1>3, <1>4 DEF IInv, CallerOK, TypeOK, Procs, waits, Sync, Owners
<1>9. ASSUME NEW d \in Callers PROVE HookOK(d)'
  BY <1>0, <1>2, <1>3, <1>4 DEF IInv, HookOK, TypeOK, Procs, waits, Sync, Asleep
<1>10. Apart'
  BY <1>0 DEF IInv, Apart, TypeOK, Procs, waits, WorkerOK
<1>11. UsedOK'
  BY <1>2, <1>3, <1>4 DEF IInv, UsedOK, TypeOK, Procs, waits, Sync, Owners
<1>12. SentOK'
  BY <1>0, <1>5 DEF IInv, SentOK, TypeOK, Procs
<1> QED
  BY <1>1, <1>2, <1>6, <1>7, <1>8, <1>9, <1>10, <1>11, <1>12 DEF IInv

\* The search ends and leaves everything as it was.
LEMMA TakeNoneInv ==
  ASSUME TransactionsAssumption, IInv, NEW v \in Workers, TakeNone(v)
  PROVE  IInv'
<1> USE TransactionsAssumption DEF TransactionsAssumption, TakeNone
<1>0. ~Circular
  BY DEF IInv, ListOK, Circular
<1>01. tlock' = tlock /\ pc' = [pc EXCEPT ![v] = "idle"]
  BY <1>0
<1>1. TypeOK'
  BY <1>0 DEF IInv, TypeOK
<1>2. Listed' = Listed /\ ListOK'
  BY KeepsList DEF IInv
<1>3. Leaving' = Leaving /\ Fireable' = Fireable /\ Handled' = Handled
  BY <1>01, <1>2 DEF Leaving, Fireable, Handled, IInv, TypeOK, Procs
<1>4. Sync' = Sync /\ Asleep' = Asleep /\ Owners' = Owners
  BY <1>01 DEF Sync, Asleep, Owners, waits, IInv, TypeOK, Procs
<1>5. Answerable' \subseteq Answerable
  BY <1>01 DEF Answerable, IInv, TypeOK, Procs
<1>6. TimerOK'
  BY <1>01, <1>2 DEF IInv, TimerOK, TypeOK, Procs
<1>7. ASSUME NEW w \in Workers PROVE WorkerOK(w)'
  BY <1>01, <1>2, <1>4 DEF IInv, WorkerOK, TypeOK, Procs, Asleep
<1>8. ASSUME NEW d \in Callers PROVE CallerOK(d)'
  BY <1>01, <1>2, <1>3, <1>4 DEF IInv, CallerOK, TypeOK, Procs, waits, Sync, Owners
<1>9. ASSUME NEW d \in Callers PROVE HookOK(d)'
  BY <1>01, <1>2, <1>3, <1>4 DEF IInv, HookOK, TypeOK, Procs, waits, Sync, Asleep
<1>10. Apart'
  BY <1>01 DEF IInv, Apart, TypeOK, Procs, waits
<1>11. UsedOK'
  BY <1>01, <1>2, <1>3, <1>4 DEF IInv, UsedOK, TypeOK, Procs, waits, Sync, Owners
<1>12. SentOK'
  BY <1>01, <1>5 DEF IInv, SentOK, TypeOK, Procs
<1> QED
  BY <1>1, <1>2, <1>6, <1>7, <1>8, <1>9, <1>10, <1>11, <1>12 DEF IInv

\* A pass of the timer starts with the lock, at the head.
LEMMA TimerStartInv ==
  ASSUME TransactionsAssumption, IInv, TimerStart
  PROVE  IInv'
<1> USE TransactionsAssumption DEF TransactionsAssumption, TimerStart, TimerBusy
<1>1. TypeOK'
  BY DEF IInv, TypeOK, Procs
<1>2. Listed' = Listed /\ ListOK'
  BY KeepsList DEF IInv
<1>3. Leaving' = Leaving /\ Fireable' = Fireable /\ Handled' = Handled
  BY <1>2 DEF Leaving, Fireable, Handled, IInv, TypeOK, Procs
<1>4. Sync' = Sync /\ Asleep' = Asleep /\ Owners' = Owners
  BY DEF Sync, Asleep, Owners, waits, IInv, TypeOK, Procs
<1>5. Answerable' = Answerable
  BY DEF Answerable, IInv, TypeOK, Procs
<1>6. TimerOK'
  BY <1>2 DEF IInv, TimerOK, TypeOK, Procs, ListOK
<1>7. ASSUME NEW w \in Workers PROVE WorkerOK(w)'
  BY <1>2, <1>4 DEF IInv, WorkerOK, TypeOK, Procs, Asleep
<1>8. ASSUME NEW d \in Callers PROVE CallerOK(d)'
  BY <1>2, <1>3, <1>4 DEF IInv, CallerOK, TypeOK, Procs, waits, Sync, Owners
<1>9. ASSUME NEW d \in Callers PROVE HookOK(d)'
  BY <1>2, <1>3, <1>4 DEF IInv, HookOK, TypeOK, Procs, waits, Sync, Asleep
<1>10. Apart'
  BY DEF IInv, Apart, TypeOK, Procs, waits
<1>11. UsedOK'
  BY <1>2, <1>3, <1>4 DEF IInv, UsedOK, TypeOK, Procs, waits, Sync, Owners
<1>12. SentOK'
  BY <1>5 DEF IInv, SentOK, TypeOK, Procs
<1> QED
  BY <1>1, <1>2, <1>6, <1>7, <1>8, <1>9, <1>10, <1>11, <1>12 DEF IInv

\* The timer goes along the list.
LEMMA TimerSkipInv ==
  ASSUME TransactionsAssumption, IInv, TimerSkip
  PROVE  IInv'
<1> USE TransactionsAssumption DEF TransactionsAssumption, TimerSkip, memory
<1>0. cur[timer] \in Listed /\ cur[timer] \in Blocks /\ mem[cur[timer]].next \in Listed \cup {Nil}
  BY ListedClosed DEF IInv, TimerOK, ListOK
<1>1. TypeOK'
  BY <1>0, ListedClosed DEF IInv, TypeOK, Procs
<1>2. Listed' = Listed /\ ListOK'
  BY KeepsList DEF IInv
<1>3. Leaving' = Leaving /\ Fireable' = Fireable /\ Handled' = Handled
  BY <1>2 DEF Leaving, Fireable, Handled, IInv, TypeOK, Procs
<1>4. Sync' = Sync /\ Asleep' = Asleep /\ Owners' = Owners
  BY DEF Sync, Asleep, Owners, waits, IInv, TypeOK, Procs
<1>5. Answerable' = Answerable
  BY DEF Answerable, IInv, TypeOK, Procs
<1>6. TimerOK'
  BY <1>0, <1>2 DEF IInv, TimerOK, TypeOK, Procs
<1>7. ASSUME NEW w \in Workers PROVE WorkerOK(w)'
  BY <1>2, <1>4 DEF IInv, WorkerOK, TypeOK, Procs, Asleep
<1>8. ASSUME NEW d \in Callers PROVE CallerOK(d)'
  BY <1>2, <1>3, <1>4 DEF IInv, CallerOK, TypeOK, Procs, waits, Sync, Owners
<1>9. ASSUME NEW d \in Callers PROVE HookOK(d)'
  BY <1>2, <1>3, <1>4 DEF IInv, HookOK, TypeOK, Procs, waits, Sync, Asleep
<1>10. Apart'
  BY DEF IInv, Apart, TypeOK, Procs, waits
<1>11. UsedOK'
  BY <1>2, <1>3, <1>4 DEF IInv, UsedOK, TypeOK, Procs, waits, Sync, Owners
<1>12. SentOK'
  BY <1>5 DEF IInv, SentOK, TypeOK, Procs
<1> QED
  BY <1>1, <1>2, <1>6, <1>7, <1>8, <1>9, <1>10, <1>11, <1>12 DEF IInv

\* The lock keeps the pointer that the timer has read as it is.
LEMMA TimerNextInv ==
  ASSUME TransactionsAssumption, IInv, TimerNext
  PROVE  IInv'
<1> USE TransactionsAssumption DEF TransactionsAssumption, TimerNext, memory
<1>0. cur[timer] \in Listed /\ cur[timer] \in Blocks /\ mem[cur[timer]].next \in Blocks \cup {Nil}
  BY ListedClosed DEF IInv, TimerOK, ListOK
<1>1. TypeOK'
  BY <1>0 DEF IInv, TypeOK, Procs
<1>2. Listed' = Listed /\ ListOK'
  BY KeepsList DEF IInv
<1>3. Leaving' = Leaving /\ Fireable' = Fireable /\ Handled' = Handled
  BY <1>2 DEF Leaving, Fireable, Handled, IInv, TypeOK, Procs
<1>4. Sync' = Sync /\ Asleep' = Asleep /\ Owners' = Owners
  BY DEF Sync, Asleep, Owners, waits, IInv, TypeOK, Procs
<1>5. Answerable' = Answerable
  BY DEF Answerable, IInv, TypeOK, Procs
<1>6. TimerOK'
  BY <1>2 DEF IInv, TimerOK, TypeOK, Procs
<1>7. ASSUME NEW w \in Workers PROVE WorkerOK(w)'
  BY <1>2, <1>4 DEF IInv, WorkerOK, TypeOK, Procs, Asleep
<1>8. ASSUME NEW d \in Callers PROVE CallerOK(d)'
  BY <1>2, <1>3, <1>4 DEF IInv, CallerOK, TypeOK, Procs, waits, Sync, Owners
<1>9. ASSUME NEW d \in Callers PROVE HookOK(d)'
  BY <1>2, <1>3, <1>4 DEF IInv, HookOK, TypeOK, Procs, waits, Sync, Asleep
<1>10. Apart'
  BY DEF IInv, Apart, TypeOK, Procs, waits
<1>11. UsedOK'
  BY <1>2, <1>3, <1>4 DEF IInv, UsedOK, TypeOK, Procs, waits, Sync, Owners
<1>12. SentOK'
  BY <1>5 DEF IInv, SentOK, TypeOK, Procs
<1> QED
  BY <1>1, <1>2, <1>6, <1>7, <1>8, <1>9, <1>10, <1>11, <1>12 DEF IInv

\* A pass of the timer gives the lock back.
LEMMA TimerEndInv ==
  ASSUME TransactionsAssumption, IInv, TimerEnd
  PROVE  IInv'
<1> USE TransactionsAssumption DEF TransactionsAssumption, TimerEnd
<1>1. TypeOK'
  BY DEF IInv, TypeOK, Procs
<1>2. Listed' = Listed /\ ListOK'
  BY KeepsList DEF IInv
<1>3. Leaving' = Leaving /\ Fireable' = Fireable /\ Handled' = Handled
  BY <1>2 DEF Leaving, Fireable, Handled, IInv, TypeOK, Procs
<1>4. Sync' = Sync /\ Asleep' = Asleep /\ Owners' = Owners
  BY DEF Sync, Asleep, Owners, waits, IInv, TypeOK, Procs
<1>5. Answerable' = Answerable
  BY DEF Answerable, IInv, TypeOK, Procs
<1>6. TimerOK'
  BY <1>2 DEF IInv, TimerOK, TypeOK, Procs
<1>7. ASSUME NEW w \in Workers PROVE WorkerOK(w)'
  BY <1>2, <1>4 DEF IInv, WorkerOK, TypeOK, Procs, Asleep
<1>8. ASSUME NEW d \in Callers PROVE CallerOK(d)'
  BY <1>2, <1>3, <1>4 DEF IInv, CallerOK, TypeOK, Procs, waits, Sync, Owners
<1>9. ASSUME NEW d \in Callers PROVE HookOK(d)'
  BY <1>2, <1>3, <1>4 DEF IInv, HookOK, TypeOK, Procs, waits, Sync, Asleep
<1>10. Apart'
  BY DEF IInv, Apart, TypeOK, Procs, waits
<1>11. UsedOK'
  BY <1>2, <1>3, <1>4 DEF IInv, UsedOK, TypeOK, Procs, waits, Sync, Owners
<1>12. SentOK'
  BY <1>5 DEF IInv, SentOK, TypeOK, Procs
<1> QED
  BY <1>1, <1>2, <1>6, <1>7, <1>8, <1>9, <1>10, <1>11, <1>12 DEF IInv

\* What a transaction holds besides its pointers stays what it is.
LEMMA UnlinkFields ==
  ASSUME TransactionsAssumption, TypeOK, ListOK, NEW x \in Listed, Unlink(x)
  PROVE  /\ mem' \in [Blocks -> Transaction] /\ head' \in Blocks \cup {Nil}
         /\ tail' \in Blocks \cup {Nil}
         /\ \A b \in Blocks : /\ mem'[b].id = mem[b].id /\ mem'[b].expired = mem[b].expired
                              /\ mem'[b].ans = mem[b].ans /\ mem'[b].lock = mem[b].lock
         /\ \A b \in Blocks \ Listed : mem'[b].next = mem[b].next
<1> USE TransactionsAssumption DEF TransactionsAssumption
<1>1. PICK p, n \in Blocks \cup {Nil} : p = mem[x].prev /\ n = mem[x].next
  BY ListedClosed DEF TypeOK, Transaction
<1>2. p \in Listed \cup {Nil}
  BY <1>1 DEF ListOK
<1>3. ASSUME NEW b \in Blocks
      PROVE  /\ mem'[b] \in Transaction
             /\ mem'[b].id = mem[b].id /\ mem'[b].expired = mem[b].expired
             /\ mem'[b].ans = mem[b].ans /\ mem'[b].lock = mem[b].lock
             /\ b \notin Listed => mem'[b].next = mem[b].next
  <2>1. mem[b] \in Transaction
    BY DEF TypeOK
  <2>2. mem'[b] = [mem[b] EXCEPT !.next = IF p = b THEN n ELSE @,
                                 !.prev = IF n = b THEN p ELSE @]
    BY <1>1 DEF Unlink, UnlinkMem
  <2>3. mem'[b] \in Transaction
    BY <2>1, <2>2 DEF Transaction
  <2>4. /\ mem'[b].id = mem[b].id /\ mem'[b].expired = mem[b].expired
        /\ mem'[b].ans = mem[b].ans /\ mem'[b].lock = mem[b].lock
    BY <2>1, <2>2 DEF Transaction
  <2>5. mem'[b].next = IF p = b THEN n ELSE mem[b].next
    BY <2>1, <2>2 DEF Transaction
  <2> QED
    BY <1>2, <2>3, <2>4, <2>5
<1>4. mem' = [b \in Blocks |-> mem'[b]]
  BY DEF Unlink, UnlinkMem
<1>5. mem' \in [Blocks -> Transaction]
  BY <1>3, <1>4
<1> QED
  BY <1>1, <1>3, <1>5 DEF Unlink, TypeOK

\* What a new transaction holds.
LEMMA NewFields ==
  ASSUME TransactionsAssumption, TypeOK, NEW b \in Blocks, NEW l \in Locks \cup {Nil},
         reqs < MaxReqs, NewTransaction(b, l)
  PROVE  /\ mem' \in [Blocks -> Transaction] /\ used' = used \cup {b}
         /\ \A x \in Blocks \ {b} : mem'[x] = mem[x]
         /\ mem'[b].next = Nil /\ mem'[b].id = reqs + 1 /\ mem'[b].lock = l
<1>1. [next |-> Nil, prev |-> mem[b].prev, id |-> reqs + 1, expired |-> FALSE,
       ans |-> mem[b].ans, lock |-> l] \in Transaction
  BY DEF TypeOK, Transaction, Ids, TransactionsAssumption
<1> QED
  BY <1>1 DEF NewTransaction, TypeOK

\* A transaction with a lock starts in the hands of its caller.
LEMMA SendRecvInv ==
  ASSUME TransactionsAssumption, Reuse = FALSE, IInv, NEW c \in Callers, SendRecv(c)
  PROVE  IInv'
<1> USE TransactionsAssumption DEF TransactionsAssumption, memory
<1>0. PICK b \in Blocks, l \in Locks :
        /\ b \notin used /\ b # cur[timer]
        /\ l \notin usedL /\ \A x \in orphans : mem[x].lock # l
        /\ NewTransaction(b, l)
        /\ usedL' = usedL \cup {l} /\ heldL' = heldL \cup {l}
        /\ cur' = [cur EXCEPT ![c] = b] /\ lk' = [lk EXCEPT ![c] = l]
        /\ pc[c] = "idle" /\ reqs < MaxReqs
        /\ reqs' = reqs + 1 /\ req' = [req EXCEPT ![c] = reqs + 1]
        /\ pc' = [pc EXCEPT ![c] = "link"]
        /\ UNCHANGED <<head, tail, tlock, nxt, sent, orphans>>
  BY DEF SendRecv, FreshBlock, FreshLock
<1>01. b \notin Listed
  BY <1>0 DEF IInv, UsedOK, Leaving
<1>02. /\ mem' \in [Blocks -> Transaction] /\ used' = used \cup {b}
       /\ \A x \in Blocks \ {b} : mem'[x] = mem[x]
       /\ mem'[b].next = Nil /\ mem'[b].id = reqs + 1 /\ mem'[b].lock = l
       /\ b \notin used
  BY <1>0, NewFields DEF IInv
<1>03. reqs + 1 \in Ids /\ reqs \in Nat /\ reqs' \in 0 .. MaxReqs
  BY <1>0 DEF IInv, TypeOK, Ids
<1>1. TypeOK'
  BY <1>0, <1>02, <1>03 DEF IInv, TypeOK, Procs
<1>2. Listed' = Listed /\ ListOK'
  BY <1>0, <1>01, <1>02, <1>1, ListedClosed, SameList DEF IInv
<1>3. Leaving' = Leaving /\ Fireable' = Fireable /\ Handled' = Handled
  BY <1>0, <1>2 DEF Leaving, Fireable, Handled, IInv, TypeOK, Procs
<1>4. /\ Sync' = Sync \cup {c} /\ Asleep' = Asleep \cup {c} /\ Owners' = Owners \cup {c}
      /\ c \notin Owners
  BY <1>0 DEF Sync, Asleep, Owners, waits, IInv, TypeOK, Procs, CallerOK
<1>5. Answerable' = Answerable
  BY <1>0 DEF Answerable, IInv, TypeOK, Procs
<1>6. TimerOK'
  BY <1>0, <1>01, <1>02, <1>2, ListedClosed DEF IInv, TimerOK, TypeOK, Procs
<1>7. ASSUME NEW w \in Workers PROVE WorkerOK(w)'
  <2>1. pc[w] = "answer" => cur[w] # b /\ cur[w] \in Blocks
    BY <1>0, <1>01, <1>02 DEF IInv, WorkerOK, TypeOK
  <2> QED
    BY <1>0, <1>02, <1>03, <2>1, <1>2, <1>4 DEF IInv, WorkerOK, TypeOK, Procs, Asleep
<1>8. ASSUME NEW d \in Callers PROVE CallerOK(d)'
  <2>1. CASE d = c
    <3>1. b \notin Handled /\ b \notin orphans /\ reqs + 1 \in 1 .. reqs + 1 /\ b # Nil
      BY <1>0, <1>02, <1>03 DEF Handled, IInv, WorkerOK, UsedOK
    <3>2. /\ pc'[c] = "link" /\ req'[c] = reqs + 1 /\ cur'[c] = b /\ reqs' = reqs + 1
          /\ orphans' = orphans
      BY <1>0 DEF IInv, TypeOK, Procs
    <3>3. lk'[c] = l /\ l \in usedL'
      BY <1>0, <1>02 DEF IInv, TypeOK
    <3>4. c \in Sync' => mem'[b].lock # Nil
      BY <1>0, <1>02, <1>4 DEF Owners
    <3> QED
      BY <1>0, <2>1, <3>1, <3>2, <3>3, <3>4, <1>01, <1>02, <1>2, <1>3 DEF CallerOK, waits
  <2>2. CASE d # c
    <3>1. d \in Owners => cur[d] # b /\ cur[d] \in Blocks
      BY <1>0, <1>02 DEF IInv, CallerOK, TypeOK
    <3> QED
      BY <2>2, <3>1, <1>0, <1>02, <1>2, <1>3, <1>4
         DEF IInv, CallerOK, TypeOK, Procs, waits, Sync, Owners
  <2> QED
    BY <1>0, <2>1, <2>2
<1>9. ASSUME NEW d \in Callers PROVE HookOK(d)'
  <2>1. CASE d = c
    BY <2>1, <1>0, <1>4 DEF HookOK, IInv, TypeOK, Procs, Sync, Asleep, waits
  <2>2. CASE d # c
    <3>1. d \in Sync => cur[d] # b /\ cur[d] \in Blocks
      BY <1>0, <1>02 DEF IInv, CallerOK, TypeOK, Owners
    <3> QED
      BY <2>2, <3>1, <1>0, <1>02, <1>2, <1>3, <1>4 DEF IInv, HookOK, TypeOK, Procs
  <2> QED
    BY <1>0, <2>1, <2>2
<1>10. Apart'
  <2>1. ASSUME NEW x \in orphans PROVE x # b /\ mem'[x] = mem[x] /\ mem[x].id \in 1 .. reqs
    BY <1>0, <1>02 DEF IInv, UsedOK, TypeOK
  <2>2. \A x \in used : x # b /\ mem'[x] = mem[x] /\ mem[x].id \in 1 .. reqs
    BY <1>0, <1>02 DEF IInv, UsedOK, TypeOK
  <2>3. \A d \in Callers : waits(d) => lk[d] \in usedL
    BY <1>0 DEF IInv, CallerOK
  <2>4. \A d \in Callers : pc[d] # "idle" => req[d] \in 1 .. reqs
    BY <1>0 DEF IInv, CallerOK
  <2>5. \A d, e \in used' : mem'[d].id = mem'[e].id => d = e
    BY <1>0, <1>02, <1>03, <2>2 DEF IInv, Apart
  <2>6. \A d, e \in Callers : pc'[d] # "idle" /\ pc'[e] # "idle" /\ req'[d] = req'[e] => d = e
    BY <1>0, <1>03, <2>4 DEF IInv, Apart, TypeOK, Procs
  <2>7. \A d, w \in Workers : pc'[d] # "idle" /\ pc'[w] # "idle" /\ req'[d] = req'[w] => d = w
    BY <1>0 DEF IInv, Apart, TypeOK, Procs
  <2>8. \A d, e \in Callers : waits(d)' /\ waits(e)' /\ lk'[d] = lk'[e] => d = e
    BY <1>0, <2>3 DEF IInv, Apart, TypeOK, waits
  <2>9. \A x \in orphans, d \in Callers : waits(d)' => lk'[d] # mem'[x].lock
    BY <1>0, <2>1 DEF IInv, Apart, TypeOK, waits
  <2>10. \A x \in orphans, d \in Callers : pc'[d] # "idle" => req'[d] # mem'[x].id
    BY <1>0, <1>03, <2>1 DEF IInv, Apart, TypeOK, Procs
  <2> QED
    BY <1>0, <2>5, <2>6, <2>7, <2>8, <2>9, <2>10 DEF Apart
<1>11. UsedOK'
  <2>1. ASSUME NEW x \in used
        PROVE  /\ x # b /\ mem'[x] = mem[x] /\ mem[x].id \in 1 .. reqs /\ mem[x].id \in 1 .. reqs + 1
               /\ mem[x].lock # Nil => x \in orphans \/ \E d \in Sync : cur'[d] = x
               /\ x \in Listed \cup orphans \cup Handled \/ \E d \in Owners : cur'[d] = x
    BY <1>0, <1>02, <1>03, <1>4 DEF IInv, UsedOK, TypeOK, Procs, Sync, Owners, waits, CallerOK
  <2>2. reqs' = reqs + 1 /\ cur'[c] = b /\ reqs + 1 \in 1 .. reqs + 1 /\ orphans' = orphans
    BY <1>0, <1>03 DEF IInv, TypeOK, Procs
  <2>3. Listed \subseteq used \cup Leaving /\ orphans \subseteq used /\ \A x \in orphans : mem[x].lock # Nil
    BY <1>0 DEF IInv, UsedOK
  <2> QED
    BY <1>0, <1>02, <1>2, <1>3, <1>4, <2>1, <2>2, <2>3 DEF UsedOK
<1>12. SentOK'
  <2>1. ASSUME NEW x \in orphans PROVE mem'[x] = mem[x]
    BY <1>0, <1>02 DEF IInv, UsedOK, TypeOK
  <2>2. reqs' = reqs + 1 /\ req'[c] = reqs + 1 /\ orphans' = orphans
    BY <1>0 DEF IInv, TypeOK
  <2>3. \A d \in Callers \ {c} : pc'[d] = pc[d] /\ req'[d] = req[d]
    BY <1>0 DEF IInv, TypeOK
  <2> QED
    BY <1>0, <1>03, <1>5, <2>1, <2>2, <2>3 DEF IInv, SentOK
<1> QED
  BY <1>1, <1>2, <1>6, <1>7, <1>8, <1>9, <1>10, <1>11, <1>12 DEF IInv

\* A transaction without a lock starts in the hands of its caller.
LEMMA SendAsyncInv ==
  ASSUME TransactionsAssumption, Reuse = FALSE, IInv, NEW c \in Callers, SendAsync(c)
  PROVE  IInv'
<1> USE TransactionsAssumption DEF TransactionsAssumption, memory
<1>0. PICK b \in Blocks :
        /\ b \notin used /\ b # cur[timer] /\ NewTransaction(b, Nil)
        /\ cur' = [cur EXCEPT ![c] = b] /\ lk' = [lk EXCEPT ![c] = Nil]
        /\ pc[c] = "idle" /\ reqs < MaxReqs
        /\ reqs' = reqs + 1 /\ req' = [req EXCEPT ![c] = reqs + 1]
        /\ pc' = [pc EXCEPT ![c] = "link"]
        /\ UNCHANGED <<head, tail, tlock, heldL, usedL, nxt, sent, orphans>>
  BY DEF SendAsync, FreshBlock
<1>01. b \notin Listed
  BY <1>0 DEF IInv, UsedOK, Leaving
<1>02. /\ mem' \in [Blocks -> Transaction] /\ used' = used \cup {b}
       /\ \A x \in Blocks \ {b} : mem'[x] = mem[x]
       /\ mem'[b].next = Nil /\ mem'[b].id = reqs + 1 /\ mem'[b].lock = Nil
       /\ b \notin used
  BY <1>0, NewFields DEF IInv
<1>03. reqs + 1 \in Ids /\ reqs \in Nat /\ reqs' \in 0 .. MaxReqs
  BY <1>0 DEF IInv, TypeOK, Ids
<1>1. TypeOK'
  BY <1>0, <1>02, <1>03 DEF IInv, TypeOK, Procs
<1>2. Listed' = Listed /\ ListOK'
  BY <1>0, <1>01, <1>02, <1>1, ListedClosed, SameList DEF IInv
<1>3. Leaving' = Leaving /\ Fireable' = Fireable /\ Handled' = Handled
  BY <1>0, <1>2 DEF Leaving, Fireable, Handled, IInv, TypeOK, Procs
<1>4. /\ Sync' = Sync /\ Asleep' = Asleep /\ Owners' = Owners \cup {c}
      /\ c \notin Owners
  BY <1>0 DEF Sync, Asleep, Owners, waits, IInv, TypeOK, Procs, CallerOK
<1>5. Answerable' = Answerable
  BY <1>0 DEF Answerable, IInv, TypeOK, Procs
<1>6. TimerOK'
  BY <1>0, <1>01, <1>02, <1>2, ListedClosed DEF IInv, TimerOK, TypeOK, Procs
<1>7. ASSUME NEW w \in Workers PROVE WorkerOK(w)'
  <2>1. pc[w] = "answer" => cur[w] # b /\ cur[w] \in Blocks
    BY <1>0, <1>01, <1>02 DEF IInv, WorkerOK, TypeOK
  <2> QED
    BY <1>0, <1>02, <1>03, <2>1, <1>2, <1>4 DEF IInv, WorkerOK, TypeOK, Procs, Asleep
<1>8. ASSUME NEW d \in Callers PROVE CallerOK(d)'
  <2>1. CASE d = c
    <3>1. b \notin Handled /\ b \notin orphans /\ reqs + 1 \in 1 .. reqs + 1 /\ b # Nil
      BY <1>0, <1>02, <1>03 DEF Handled, IInv, WorkerOK, UsedOK
    <3>2. /\ pc'[c] = "link" /\ req'[c] = reqs + 1 /\ cur'[c] = b /\ reqs' = reqs + 1
          /\ orphans' = orphans
      BY <1>0 DEF IInv, TypeOK, Procs
    <3>3. lk'[c] = Nil
      BY <1>0, <1>02 DEF IInv, TypeOK
    <3>4. c \in Sync' => mem'[b].lock # Nil
      BY <1>0, <1>02, <1>4 DEF Owners
    <3> QED
      BY <1>0, <2>1, <3>1, <3>2, <3>3, <3>4, <1>01, <1>02, <1>2, <1>3 DEF CallerOK, waits
  <2>2. CASE d # c
    <3>1. d \in Owners => cur[d] # b /\ cur[d] \in Blocks
      BY <1>0, <1>02 DEF IInv, CallerOK, TypeOK
    <3> QED
      BY <2>2, <3>1, <1>0, <1>02, <1>2, <1>3, <1>4
         DEF IInv, CallerOK, TypeOK, Procs, waits, Sync, Owners
  <2> QED
    BY <1>0, <2>1, <2>2
<1>9. ASSUME NEW d \in Callers PROVE HookOK(d)'
  <2>1. CASE d = c
    BY <2>1, <1>0, <1>4 DEF HookOK, IInv, TypeOK, Procs, Sync, Asleep, waits
  <2>2. CASE d # c
    <3>1. d \in Sync => cur[d] # b /\ cur[d] \in Blocks
      BY <1>0, <1>02 DEF IInv, CallerOK, TypeOK, Owners
    <3> QED
      BY <2>2, <3>1, <1>0, <1>02, <1>2, <1>3, <1>4 DEF IInv, HookOK, TypeOK, Procs
  <2> QED
    BY <1>0, <2>1, <2>2
<1>10. Apart'
  <2>1. ASSUME NEW x \in orphans PROVE x # b /\ mem'[x] = mem[x] /\ mem[x].id \in 1 .. reqs
    BY <1>0, <1>02 DEF IInv, UsedOK, TypeOK
  <2>2. \A x \in used : x # b /\ mem'[x] = mem[x] /\ mem[x].id \in 1 .. reqs
    BY <1>0, <1>02 DEF IInv, UsedOK, TypeOK
  <2>3. \A d \in Callers : waits(d) => lk[d] \in usedL
    BY <1>0 DEF IInv, CallerOK
  <2>4. \A d \in Callers : pc[d] # "idle" => req[d] \in 1 .. reqs
    BY <1>0 DEF IInv, CallerOK
  <2>5. \A d, e \in used' : mem'[d].id = mem'[e].id => d = e
    BY <1>0, <1>02, <1>03, <2>2 DEF IInv, Apart
  <2>6. \A d, e \in Callers : pc'[d] # "idle" /\ pc'[e] # "idle" /\ req'[d] = req'[e] => d = e
    BY <1>0, <1>03, <2>4 DEF IInv, Apart, TypeOK, Procs
  <2>7. \A d, w \in Workers : pc'[d] # "idle" /\ pc'[w] # "idle" /\ req'[d] = req'[w] => d = w
    BY <1>0 DEF IInv, Apart, TypeOK, Procs
  <2>8. \A d, e \in Callers : waits(d)' /\ waits(e)' /\ lk'[d] = lk'[e] => d = e
    BY <1>0, <2>3 DEF IInv, Apart, TypeOK, waits
  <2>9. \A x \in orphans, d \in Callers : waits(d)' => lk'[d] # mem'[x].lock
    BY <1>0, <2>1 DEF IInv, Apart, TypeOK, waits
  <2>10. \A x \in orphans, d \in Callers : pc'[d] # "idle" => req'[d] # mem'[x].id
    BY <1>0, <1>03, <2>1 DEF IInv, Apart, TypeOK, Procs
  <2> QED
    BY <1>0, <2>5, <2>6, <2>7, <2>8, <2>9, <2>10 DEF Apart
<1>11. UsedOK'
  <2>1. ASSUME NEW x \in used
        PROVE  /\ x # b /\ mem'[x] = mem[x] /\ mem[x].id \in 1 .. reqs /\ mem[x].id \in 1 .. reqs + 1
               /\ mem[x].lock # Nil => x \in orphans \/ \E d \in Sync : cur'[d] = x
               /\ x \in Listed \cup orphans \cup Handled \/ \E d \in Owners : cur'[d] = x
    BY <1>0, <1>02, <1>03, <1>4 DEF IInv, UsedOK, TypeOK, Procs, Sync, Owners, waits, CallerOK
  <2>2. reqs' = reqs + 1 /\ cur'[c] = b /\ reqs + 1 \in 1 .. reqs + 1 /\ orphans' = orphans
    BY <1>0, <1>03 DEF IInv, TypeOK, Procs
  <2>3. Listed \subseteq used \cup Leaving /\ orphans \subseteq used /\ \A x \in orphans : mem[x].lock # Nil
    BY <1>0 DEF IInv, UsedOK
  <2> QED
    BY <1>0, <1>02, <1>2, <1>3, <1>4, <2>1, <2>2, <2>3 DEF UsedOK
<1>12. SentOK'
  <2>1. ASSUME NEW x \in orphans PROVE mem'[x] = mem[x]
    BY <1>0, <1>02 DEF IInv, UsedOK, TypeOK
  <2>2. reqs' = reqs + 1 /\ req'[c] = reqs + 1 /\ orphans' = orphans
    BY <1>0 DEF IInv, TypeOK
  <2>3. \A d \in Callers \ {c} : pc'[d] = pc[d] /\ req'[d] = req[d]
    BY <1>0 DEF IInv, TypeOK
  <2> QED
    BY <1>0, <1>03, <1>5, <2>1, <2>2, <2>3 DEF IInv, SentOK
<1> QED
  BY <1>1, <1>2, <1>6, <1>7, <1>8, <1>9, <1>10, <1>11, <1>12 DEF IInv

\* What a caller has added is in the list, and nobody has called back for it yet.
LEMMA LinkInv ==
  ASSUME TransactionsAssumption, IInv, NEW c \in Callers, Link(c)
  PROVE  IInv'
<1> USE TransactionsAssumption DEF TransactionsAssumption
<1> PICK b : b = cur[c]
  OBVIOUS
<1>00. mem' = [x \in Blocks |->
                 [mem[x] EXCEPT !.prev = IF x = b THEN tail ELSE @,
                                !.next = IF x = tail THEN b ELSE @]]
  BY DEF Link
<1>0. /\ pc[c] = "link" /\ tlock = Nil
      /\ tail' = b /\ head' = IF head = Nil THEN b ELSE head
      /\ pc' = [pc EXCEPT ![c] = "send"]
      /\ UNCHANGED <<used, tlock, heldL, usedL, cur, nxt, lk, req, sent, reqs, orphans>>
  BY DEF Link
<1>01. pc[timer] = "idle" /\ Leaving = {} /\ Fireable = Listed
  BY <1>0 DEF IInv, TimerOK, Leaving, Fireable
<1>02. /\ c \in Owners /\ b \in used /\ b \in Blocks /\ b \notin Listed /\ b \notin Handled
       /\ b \notin orphans /\ mem[b].next = Nil /\ mem[b].id = req[c]
  BY <1>0 DEF IInv, CallerOK, Owners, TypeOK
<1>03. ASSUME NEW x \in Blocks
       PROVE  /\ mem'[x] \in Transaction
              /\ mem'[x].id = mem[x].id /\ mem'[x].expired = mem[x].expired
              /\ mem'[x].ans = mem[x].ans /\ mem'[x].lock = mem[x].lock
              /\ mem'[x].prev = IF x = b THEN tail ELSE mem[x].prev
              /\ mem'[x].next = IF x = tail THEN b ELSE mem[x].next
  <2>1. mem[x] \in Transaction /\ tail \in Blocks \cup {Nil}
    BY DEF IInv, TypeOK
  <2>2. mem'[x] = [mem[x] EXCEPT !.prev = IF x = b THEN tail ELSE @,
                                 !.next = IF x = tail THEN b ELSE @]
    BY <1>00
  <2> QED
    BY <1>02, <2>1, <2>2 DEF Transaction
<1>04. mem' \in [Blocks -> Transaction]
  BY <1>00, <1>03
<1>05. tail \in Listed \cup {Nil}
  BY DEF IInv, ListOK
<1>1. TypeOK'
  BY <1>0, <1>02, <1>04 DEF IInv, TypeOK, Procs
<1>2. Listed' = Listed \cup {b} /\ ListOK'
  BY <1>0, <1>02, <1>03, <1>1, LinkList DEF IInv
<1>3. Leaving' = {} /\ Fireable' = Fireable \cup {b} /\ Handled' = Handled
  BY <1>0, <1>01, <1>2 DEF Leaving, Fireable, Handled, IInv, TypeOK, Procs
<1>4. Sync' = Sync /\ Asleep' = Asleep /\ Owners' \subseteq Owners /\ Owners \subseteq Owners' \cup {c}
  BY <1>0 DEF Sync, Asleep, Owners, waits, IInv, TypeOK, CallerOK, Procs
<1>5. Answerable' = Answerable
  BY <1>0 DEF Answerable, IInv, TypeOK, Procs
<1>6. TimerOK'
  BY <1>0, <1>01, <1>2 DEF IInv, TimerOK, TypeOK, Procs
<1>7. ASSUME NEW w \in Workers PROVE WorkerOK(w)'
  <2>1. pc[w] = "answer" => cur[w] # b /\ cur[w] \in Blocks
    BY <1>02 DEF IInv, WorkerOK, TypeOK, Handled
  <2> QED
    BY <2>1, <1>0, <1>03, <1>2, <1>4 DEF IInv, WorkerOK, TypeOK, Procs, Asleep
<1>8. ASSUME NEW d \in Callers PROVE CallerOK(d)'
  <2>1. d \in Owners => cur[d] \in Blocks /\ (d # c => cur[d] # b)
    BY <1>02 DEF IInv, CallerOK, TypeOK, Apart, Owners, Sync, waits
  <2>2. CASE d = c
    BY <2>2, <1>0, <1>02, <1>03, <1>2, <1>3, <1>4 DEF IInv, CallerOK, TypeOK, Procs, waits
  <2>3. CASE d # c
    BY <2>1, <2>3, <1>0, <1>03, <1>05, <1>2, <1>3, <1>4
       DEF IInv, CallerOK, TypeOK, Procs, waits, Owners, Sync
  <2> QED
    BY <2>2, <2>3
<1>9. ASSUME NEW d \in Callers PROVE HookOK(d)'
  <2>1. d \in Sync => cur[d] \in Blocks /\ (d # c => cur[d] # b)
    BY <1>02 DEF IInv, CallerOK, TypeOK, Apart, Owners, Sync, waits
  <2>2. CASE d = c
    BY <2>2, <1>0, <1>02, <1>3, <1>4 DEF IInv, HookOK, TypeOK, Procs, Sync, Asleep
  <2>3. CASE d # c
    BY <2>1, <2>3, <1>0, <1>03, <1>3, <1>4 DEF IInv, HookOK, TypeOK, Procs, Asleep, Sync
  <2> QED
    BY <2>2, <2>3
<1>10. Apart'
  BY <1>0, <1>03 DEF IInv, Apart, TypeOK, Procs, waits
<1>11. UsedOK'
  BY <1>0, <1>01, <1>02, <1>03, <1>2, <1>3, <1>4 DEF IInv, UsedOK, TypeOK
<1>12. SentOK'
  BY <1>0, <1>03, <1>5 DEF IInv, SentOK, TypeOK, Procs
<1> QED
  BY <1>1, <1>2, <1>6, <1>7, <1>8, <1>9, <1>10, <1>11, <1>12 DEF IInv

\* Who waits for the answer is asleep, and nobody else is about to call back.
LEMMA TakeInv ==
  ASSUME TransactionsAssumption, IInv, NEW v \in Workers, Take(v)
  PROVE  IInv'
<1> USE TransactionsAssumption DEF TransactionsAssumption
<1>0. PICK x \in Found(req[v]) :
        /\ pc[v] = "take" /\ tlock = Nil /\ Unlink(x)
        /\ cur' = [cur EXCEPT ![v] = x] /\ pc' = [pc EXCEPT ![v] = "answer"]
        /\ UNCHANGED <<used, tlock, heldL, usedL, nxt, lk, req, sent, reqs, orphans>>
  BY DEF Take
<1>01. pc[timer] = "idle" /\ Leaving = {} /\ Fireable = Listed
  BY <1>0 DEF IInv, TimerOK, Leaving, Fireable
<1>02. /\ x \in Listed /\ x \in Blocks /\ mem[x].id = req[v] /\ x \in used
       /\ req[v] \in Answerable /\ x \notin orphans
  BY <1>0, <1>01, ListedClosed DEF Found, IInv, UsedOK, SentOK, Answerable
<1>03. /\ mem' \in [Blocks -> Transaction]
       /\ head' \in Blocks \cup {Nil} /\ tail' \in Blocks \cup {Nil}
       /\ \A b \in Blocks : /\ mem'[b].id = mem[b].id /\ mem'[b].expired = mem[b].expired
                            /\ mem'[b].ans = mem[b].ans /\ mem'[b].lock = mem[b].lock
       /\ \A b \in Blocks \ Listed : mem'[b].next = mem[b].next
  BY <1>0, <1>02, UnlinkFields DEF IInv
<1>04. mem[x].lock # Nil => \E c \in Asleep : pc[c] = "wait" /\ cur[c] = x
  <2>1. SUFFICES ASSUME NEW c \in Sync, cur[c] = x PROVE c \in Asleep /\ pc[c] = "wait"
    BY <1>02 DEF IInv, UsedOK
  <2>2. c \in Callers /\ c \in Owners /\ req[c] = req[v]
    BY <1>02, <2>1 DEF Sync, Owners, IInv, CallerOK
  <2>3. c \in Asleep
    BY <1>01, <1>02, <2>1, <2>2 DEF IInv, HookOK
  <2>4. pc[c] # "link" /\ pc[c] # "send"
    BY <1>02, <2>1, <2>2 DEF IInv, CallerOK, SentOK
  <2> QED
    BY <2>2, <2>3, <2>4 DEF IInv, CallerOK, Asleep
<1>1. TypeOK'
  BY <1>0, <1>02, <1>03 DEF IInv, TypeOK, Procs
<1>2. Listed' = Listed \ {x} /\ ListOK'
  BY <1>0, <1>02, <1>1, UnlinkList DEF IInv
<1>3. Leaving' = {} /\ Fireable' = Fireable \ {x} /\ Handled' = Handled \cup {x}
  BY <1>0, <1>01, <1>02, <1>2 DEF Leaving, Fireable, Handled, IInv, TypeOK, Procs, WorkerOK
<1>4. Sync' = Sync /\ Asleep' = Asleep /\ Owners' = Owners
  BY <1>0 DEF Sync, Asleep, Owners, waits, IInv, TypeOK, Procs
<1>5. Answerable' = Answerable
  BY <1>0 DEF Answerable, IInv, TypeOK, Procs
<1>6. TimerOK'
  BY <1>0, <1>01, <1>2 DEF IInv, TimerOK, TypeOK, Procs
<1>7. ASSUME NEW w \in Workers PROVE WorkerOK(w)'
  <2>1. \A c \in Asleep : cur'[c] = cur[c] /\ pc'[c] = pc[c]
    BY <1>0 DEF Asleep, IInv, TypeOK, Procs
  <2>2. CASE w = v
    BY <2>1, <2>2, <1>0, <1>02, <1>03, <1>04, <1>2, <1>4 DEF IInv, WorkerOK, TypeOK, Procs
  <2>3. CASE w # v
    BY <2>1, <2>3, <1>0, <1>03, <1>2, <1>4 DEF IInv, WorkerOK, TypeOK, Procs
  <2> QED
    BY <2>2, <2>3
<1>8. ASSUME NEW d \in Callers PROVE CallerOK(d)'
  BY <1>0, <1>02, <1>03, <1>2, <1>3, <1>4 DEF IInv, CallerOK, TypeOK, Procs, waits, Sync, Owners
<1>9. ASSUME NEW d \in Callers PROVE HookOK(d)'
  <2>1. d \in Sync => cur[d] \in Blocks /\ (cur[d] = x => d \in Asleep)
    BY <1>01, <1>02 DEF IInv, HookOK, CallerOK, TypeOK, Owners
  <2> QED
    BY <2>1, <1>0, <1>03, <1>3, <1>4 DEF IInv, HookOK, TypeOK, Procs, Sync, Asleep
<1>10. Apart'
  BY <1>0, <1>03 DEF IInv, Apart, TypeOK, Procs, waits
<1>11. UsedOK'
  BY <1>0, <1>01, <1>02, <1>03, <1>2, <1>3, <1>4 DEF IInv, UsedOK, TypeOK, Sync, Owners, Procs
<1>12. SentOK'
  BY <1>0, <1>03, <1>5 DEF IInv, SentOK, TypeOK, Procs
<1> QED
  BY <1>1, <1>2, <1>6, <1>7, <1>8, <1>9, <1>10, <1>11, <1>12 DEF IInv

\* The worker calls back for its transaction, once.
LEMMA CallBackInv ==
  ASSUME TransactionsAssumption, IInv, NEW v \in Workers, CallBack(v)
  PROVE  /\ IInv'
         /\ Sync' = Sync /\ Asleep' = {c \in Asleep : cur[c] # cur[v]}
         /\ \A c \in Sync : cur[c] = cur[v] => c \in Asleep /\ req[c] = req[v]
<1> USE TransactionsAssumption DEF TransactionsAssumption
<1> PICK x : x = cur[v]
  OBVIOUS
<1>0. /\ pc[v] = "answer" /\ mem' = [mem EXCEPT ![x].ans = req[v]]
      /\ heldL' = heldL \ {mem[x].lock} /\ used' = used \ Dropped(x)
      /\ cur' = [cur EXCEPT ![v] = Nil] /\ req' = [req EXCEPT ![v] = 0]
      /\ pc' = [pc EXCEPT ![v] = "idle"]
      /\ UNCHANGED <<head, tail, tlock, usedL, nxt, lk, sent, reqs, orphans>>
  BY DEF CallBack
<1>02. /\ x \in Blocks /\ x \in used /\ x \in Handled /\ x \notin Listed /\ x \notin orphans
       /\ mem[x].id = req[v] /\ req[v] \in Ids
       /\ mem[x].lock # Nil => \E c \in Asleep : pc[c] = "wait" /\ cur[c] = x
  BY <1>0 DEF IInv, WorkerOK, TypeOK, Handled, Ids
<1>03. /\ mem' \in [Blocks -> Transaction] /\ mem'[x].ans = req[v]
       /\ \A b \in Blocks : /\ mem'[b].id = mem[b].id /\ mem'[b].expired = mem[b].expired
                            /\ mem'[b].lock = mem[b].lock
                            /\ mem'[b].next = mem[b].next /\ mem'[b].prev = mem[b].prev
       /\ \A b \in Blocks \ {x} : mem'[b] = mem[b]
  <2>1. mem \in [Blocks -> Transaction] /\ mem[x] \in Transaction
    BY <1>02 DEF IInv, TypeOK
  <2>2. mem' = [mem EXCEPT ![x] = [mem[x] EXCEPT !.ans = req[v]]]
    BY <1>0
  <2>3. [mem[x] EXCEPT !.ans = req[v]] \in Transaction
    BY <1>02, <2>1 DEF Transaction
  <2> QED
    BY <1>02, <2>1, <2>2, <2>3 DEF Transaction
<1>04. /\ \A c \in Sync : cur[c] = x => c \in Asleep
       /\ \A c \in Asleep : lk[c] = mem[x].lock <=> cur[c] = x
       /\ \A c \in Owners : cur[c] = x => c \in Sync /\ mem[x].lock # Nil
  <2>1. ASSUME NEW c \in Sync, cur[c] = x PROVE c \in Asleep
    BY <1>02, <2>1 DEF IInv, HookOK, Sync
  <2>2. ASSUME NEW c \in Asleep, cur[c] = x PROVE lk[c] = mem[x].lock
    BY <2>2 DEF IInv, CallerOK, Asleep
  <2>3. ASSUME NEW c \in Asleep, lk[c] = mem[x].lock PROVE cur[c] = x
    <3>1. lk[c] # Nil /\ c \in Callers /\ waits(c)
      BY DEF Asleep, waits
    <3>2. PICK d \in Asleep : cur[d] = x
      BY <1>02, <2>3, <3>1
    <3>3. d \in Callers /\ waits(d) /\ lk[d] = mem[x].lock
      BY <3>2 DEF IInv, CallerOK, Asleep
    <3> QED
      BY <2>3, <3>1, <3>2, <3>3 DEF IInv, Apart
  <2>4. ASSUME NEW c \in Owners, cur[c] = x PROVE c \in Sync /\ mem[x].lock # Nil
    BY <1>02, <2>4 DEF IInv, CallerOK, Owners
  <2> QED
    BY <2>1, <2>2, <2>3, <2>4
<1>05. x \notin used' <=> mem[x].lock = Nil
  BY <1>0, <1>02 DEF Dropped, autoDrop
<1>06. used' \cup {x} = used
  BY <1>0, <1>02 DEF Dropped, autoDrop
<1>1. TypeOK'
  BY <1>0, <1>02, <1>03 DEF IInv, TypeOK, Procs
<1>2. Listed' = Listed /\ ListOK'
  BY <1>0, <1>03, <1>1, ListedClosed, SameList DEF IInv
<1>3. Leaving' = Leaving /\ Fireable' = Fireable /\ Handled' = Handled \ {x}
  BY <1>0, <1>02, <1>2 DEF Leaving, Fireable, Handled, IInv, TypeOK, Procs, WorkerOK, Apart
<1>4. Sync' = Sync /\ Asleep' = {c \in Asleep : cur[c] # x} /\ Owners' = Owners
  BY <1>0, <1>04 DEF Sync, Asleep, Owners, waits, IInv, TypeOK, Procs
<1>5. Answerable' \subseteq Answerable
  BY <1>0 DEF Answerable, IInv, TypeOK, Procs
<1>6. TimerOK'
  BY <1>0, <1>03, <1>2, ListedClosed DEF IInv, TimerOK, TypeOK, Procs
<1>7. ASSUME NEW w \in Workers PROVE WorkerOK(w)'
  <2>1. \A c \in Asleep : cur'[c] = cur[c] /\ pc'[c] = pc[c]
    BY <1>0 DEF Asleep, IInv, TypeOK, Procs
  <2>2. CASE w = v
    BY <2>1, <2>2, <1>0 DEF IInv, WorkerOK, TypeOK, Procs
  <2>3. CASE w # v
    <3>1. pc[w] = "answer" => cur[w] # x /\ cur[w] \in Blocks
      BY <2>3, <1>0, <1>02 DEF IInv, WorkerOK, TypeOK, Apart
    <3> QED
      BY <2>1, <2>3, <3>1, <1>0, <1>03, <1>06, <1>2, <1>4 DEF IInv, WorkerOK, TypeOK, Procs
  <2> QED
    BY <2>2, <2>3
<1>8. ASSUME NEW d \in Callers PROVE CallerOK(d)'
  BY <1>0, <1>02, <1>03, <1>04, <1>05, <1>06, <1>2, <1>3, <1>4
     DEF IInv, CallerOK, TypeOK, Procs, waits, Sync, Owners
<1>9. ASSUME NEW d \in Callers PROVE HookOK(d)'
  <2>0. cur'[d] = cur[d] /\ pc'[d] = pc[d] /\ req'[d] = req[d]
    BY <1>0 DEF IInv, TypeOK, Procs
  <2>1. CASE cur[d] = x
    <3>1. d \in Owners => pc[d] # "link" /\ req[d] = req[v]
      BY <1>02, <2>1 DEF IInv, CallerOK
    <3>2. d \notin Asleep' /\ x \notin Fireable' /\ x \notin Handled'
      BY <1>02, <1>3, <1>4, <2>1 DEF Fireable
    <3> QED
      BY <2>0, <2>1, <3>1, <3>2, <1>03, <1>4 DEF HookOK, Owners
  <2>2. CASE cur[d] # x
    <3>1. d \in Sync => cur[d] \in Blocks
      BY DEF IInv, CallerOK, TypeOK, Owners
    <3> QED
      BY <2>0, <2>2, <3>1, <1>03, <1>3, <1>4 DEF IInv, HookOK, TypeOK, Procs
  <2> QED
    BY <2>1, <2>2
<1>10. Apart'
  BY <1>0, <1>03, <1>06 DEF IInv, Apart, TypeOK, Procs, waits
<1>11. UsedOK'
  <2>1. ASSUME NEW b \in used'
        PROVE  /\ mem'[b].id \in 1 .. reqs'
               /\ mem'[b].lock # Nil => b \in orphans' \/ \E d \in Sync' : cur'[d] = b
    BY <1>0, <1>03, <1>06, <1>4 DEF IInv, UsedOK, TypeOK, Sync, Procs
  <2>2. ASSUME NEW b \in used'
        PROVE  b \in Listed' \cup orphans' \cup Handled' \/ \E d \in Owners' : cur'[d] = b
    <3>1. CASE b = x
      BY <2>1, <2>2, <3>1, <1>02, <1>03, <1>05, <1>0, <1>4 DEF Owners, Sync
    <3>2. CASE b # x
      BY <3>2, <1>0, <1>06, <1>2, <1>3, <1>4 DEF IInv, UsedOK, TypeOK, Procs, Owners
    <3> QED
      BY <3>1, <3>2
  <2>3. Listed' \subseteq used' \cup Leaving' /\ orphans' \subseteq used'
    BY <1>0, <1>02, <1>06, <1>2, <1>3 DEF IInv, UsedOK
  <2>4. \A b \in orphans' : mem'[b].lock # Nil
    BY <1>0, <1>03 DEF IInv, UsedOK, TypeOK
  <2> QED
    BY <2>1, <2>2, <2>3, <2>4 DEF UsedOK
<1>12. SentOK'
  BY <1>0, <1>03, <1>5 DEF IInv, SentOK, TypeOK, Procs
<1>13. /\ Sync' = Sync /\ Asleep' = {c \in Asleep : cur[c] # cur[v]}
       /\ \A c \in Sync : cur[c] = cur[v] => c \in Asleep /\ req[c] = req[v]
  BY <1>02, <1>04, <1>4 DEF IInv, CallerOK, Sync, Owners
<1> QED
  BY <1>1, <1>2, <1>6, <1>7, <1>8, <1>9, <1>10, <1>11, <1>12, <1>13 DEF IInv

\* Time passes between the passes of the timer.
LEMMA ExpireInv ==
  ASSUME TransactionsAssumption, IInv, NEW e \in Blocks, Expire(e)
  PROVE  IInv'
<1> USE TransactionsAssumption DEF TransactionsAssumption
<1>0. /\ e \in used /\ mem' = [mem EXCEPT ![e].expired = TRUE]
      /\ UNCHANGED <<head, tail, used, tlock, heldL, usedL, pc, cur, nxt, lk, req,
                     sent, reqs, orphans>>
  BY DEF Expire
<1>03. /\ mem' \in [Blocks -> Transaction]
       /\ \A b \in Blocks : /\ mem'[b].id = mem[b].id /\ mem'[b].ans = mem[b].ans
                            /\ mem'[b].lock = mem[b].lock
                            /\ mem'[b].next = mem[b].next /\ mem'[b].prev = mem[b].prev
                            /\ mem[b].expired => mem'[b].expired
  <2>1. mem \in [Blocks -> Transaction] /\ mem[e] \in Transaction
    BY DEF IInv, TypeOK
  <2>2. mem' = [mem EXCEPT ![e] = [mem[e] EXCEPT !.expired = TRUE]]
    BY <1>0
  <2>3. [mem[e] EXCEPT !.expired = TRUE] \in Transaction
    BY <2>1 DEF Transaction
  <2> QED
    BY <2>1, <2>2, <2>3 DEF Transaction
<1>1. TypeOK'
  BY <1>0, <1>03 DEF IInv, TypeOK
<1>2. Listed' = Listed /\ ListOK'
  BY <1>0, <1>03, <1>1, ListedClosed, SameList DEF IInv
<1>3. Leaving' = Leaving /\ Fireable' = Fireable /\ Handled' = Handled
  BY <1>0, <1>2 DEF Leaving, Fireable, Handled
<1>4. Sync' = Sync /\ Asleep' = Asleep /\ Owners' = Owners
  BY <1>0 DEF Sync, Asleep, Owners, waits
<1>5. Answerable' = Answerable
  BY <1>0 DEF Answerable
<1>6. TimerOK'
  BY <1>0, <1>03, <1>2, ListedClosed DEF IInv, TimerOK, TypeOK, Procs
<1>7. ASSUME NEW w \in Workers PROVE WorkerOK(w)'
  BY <1>0, <1>03, <1>2, <1>4 DEF IInv, WorkerOK, TypeOK, Procs, Asleep
<1>8. ASSUME NEW d \in Callers PROVE CallerOK(d)'
  <2>1. cur[d] \in Blocks \cup {Nil}
    BY DEF IInv, TypeOK, Procs
  <2>2. d \in Owners => cur[d] \in Blocks
    BY DEF IInv, TypeOK, CallerOK
  <2> QED
    BY <2>2, <1>0, <1>03, <1>2, <1>3, <1>4 DEF IInv, CallerOK, waits, Sync, Owners
<1>9. ASSUME NEW d \in Callers PROVE HookOK(d)'
  <2>2. d \in Sync => cur[d] \in Blocks
    BY DEF IInv, TypeOK, CallerOK, Owners
  <2> QED
    BY <2>2, <1>0, <1>03, <1>2, <1>3, <1>4 DEF IInv, HookOK, waits, Sync
<1>10. Apart'
  BY <1>0, <1>03 DEF IInv, Apart, TypeOK, waits
<1>11. UsedOK'
  BY <1>0, <1>03, <1>2, <1>3, <1>4 DEF IInv, UsedOK, TypeOK, Sync, Owners
<1>12. SentOK'
  BY <1>0, <1>03, <1>5 DEF IInv, SentOK, TypeOK
<1> QED
  BY <1>1, <1>2, <1>6, <1>7, <1>8, <1>9, <1>10, <1>11, <1>12 DEF IInv

\* The timer calls back for a transaction of the list whose time is over.
LEMMA TimerFireInv ==
  ASSUME TransactionsAssumption, IInv, TimerFire
  PROVE  /\ IInv'
         /\ Sync' = Sync /\ Asleep' = {c \in Asleep : cur[c] # cur[timer]}
         /\ \A c \in Sync : cur[c] = cur[timer] => c \in Asleep
<1> USE TransactionsAssumption DEF TransactionsAssumption
<1> PICK x : x = cur[timer]
  OBVIOUS
<1>0. /\ pc[timer] = "scan" /\ x # Nil /\ mem[x].expired
      /\ heldL' = heldL \ {mem[x].lock} /\ pc' = [pc EXCEPT ![timer] = "next"]
      /\ UNCHANGED <<head, tail, used, tlock, usedL, cur, nxt, lk, req, sent, reqs, orphans>>
  BY DEF TimerFire
<1>00. mem' = [mem EXCEPT ![x].ans = TimedOut]
  BY DEF TimerFire
<1>01. Leaving = {} /\ Fireable = Listed
  BY <1>0 DEF Leaving, Fireable
<1>02. x \in Listed /\ x \in Blocks /\ x \in used /\ x \notin Handled
  BY <1>0, <1>01, ListedClosed DEF IInv, TimerOK, WorkerOK, UsedOK, Handled
<1>03. /\ mem' \in [Blocks -> Transaction] /\ mem'[x].ans = TimedOut /\ mem'[x].expired
       /\ \A b \in Blocks : /\ mem'[b].id = mem[b].id /\ mem'[b].expired = mem[b].expired
                            /\ mem'[b].lock = mem[b].lock
                            /\ mem'[b].next = mem[b].next /\ mem'[b].prev = mem[b].prev
       /\ \A b \in Blocks \ {x} : mem'[b] = mem[b]
  <2>1. mem \in [Blocks -> Transaction] /\ mem[x] \in Transaction
    BY <1>02 DEF IInv, TypeOK
  <2>2. mem' = [mem EXCEPT ![x] = [mem[x] EXCEPT !.ans = TimedOut]]
    BY <1>00
  <2>3. [mem[x] EXCEPT !.ans = TimedOut] \in Transaction
    BY <1>02, <2>1 DEF Transaction
  <2> QED
    BY <1>0, <1>02, <2>1, <2>2, <2>3 DEF Transaction
<1>04. /\ \A c \in Sync : cur[c] = x => c \in Asleep
       /\ \A c \in Asleep : lk[c] = mem[x].lock <=> cur[c] = x
       /\ \A c \in Owners : cur[c] = x => c \in Sync
  <2>1. ASSUME NEW c \in Sync, cur[c] = x PROVE c \in Asleep
    BY <1>01, <1>02, <2>1 DEF IInv, HookOK, Sync
  <2>2. ASSUME NEW c \in Asleep, cur[c] = x PROVE lk[c] = mem[x].lock
    BY <2>2 DEF IInv, CallerOK, Asleep
  <2>3. ASSUME NEW c \in Asleep, lk[c] = mem[x].lock PROVE cur[c] = x
    <3>1. lk[c] # Nil /\ c \in Callers /\ waits(c)
      BY DEF Asleep, waits
    <3>2. x \notin orphans
      BY <2>3, <3>1 DEF IInv, Apart
    <3>3. PICK d \in Sync : cur[d] = x
      BY <1>02, <2>3, <3>1, <3>2 DEF IInv, UsedOK
    <3>4. d \in Callers /\ waits(d) /\ lk[d] = mem[x].lock
      BY <2>1, <3>3 DEF IInv, CallerOK, Asleep
    <3> QED
      BY <2>3, <3>1, <3>3, <3>4 DEF IInv, Apart
  <2>4. ASSUME NEW c \in Owners, cur[c] = x PROVE c \in Sync
    BY <1>02, <2>4 DEF IInv, CallerOK, Owners
  <2> QED
    BY <2>1, <2>2, <2>3, <2>4
<1>1. TypeOK'
  BY <1>0, <1>02, <1>03 DEF IInv, TypeOK, Procs
<1>2. Listed' = Listed /\ ListOK'
  BY <1>0, <1>03, <1>1, ListedClosed, SameList DEF IInv
<1>3. Leaving' = {x} /\ Fireable' = Fireable \ {x} /\ Handled' = Handled
  BY <1>0, <1>01, <1>02, <1>2 DEF Leaving, Fireable, Handled, IInv, TypeOK, Procs
<1>4. Sync' = Sync /\ Asleep' = {c \in Asleep : cur[c] # x} /\ Owners' = Owners
  BY <1>0, <1>04 DEF Sync, Asleep, Owners, waits, IInv, TypeOK, Procs
<1>5. Answerable' = Answerable
  BY <1>0 DEF Answerable, IInv, TypeOK, Procs
<1>6. TimerOK'
  BY <1>0, <1>02, <1>03, <1>2, ListedClosed DEF IInv, TimerOK, TypeOK, Procs
<1>7. ASSUME NEW w \in Workers PROVE WorkerOK(w)'
  <2>1. \A c \in Asleep : cur'[c] = cur[c] /\ pc'[c] = pc[c]
    BY <1>0 DEF Asleep, IInv, TypeOK, Procs
  <2>2. pc[w] = "answer" => cur[w] # x /\ cur[w] \in Blocks
    BY <1>02 DEF IInv, WorkerOK, TypeOK
  <2> QED
    BY <2>1, <2>2, <1>0, <1>03, <1>2, <1>4 DEF IInv, WorkerOK, TypeOK, Procs
<1>8. ASSUME NEW d \in Callers PROVE CallerOK(d)'
  BY <1>0, <1>02, <1>03, <1>04, <1>2, <1>3, <1>4
     DEF IInv, CallerOK, TypeOK, Procs, waits, Sync, Owners
<1>9. ASSUME NEW d \in Callers PROVE HookOK(d)'
  <2>0. cur'[d] = cur[d] /\ pc'[d] = pc[d] /\ req'[d] = req[d]
    BY <1>0 DEF IInv, TypeOK, Procs
  <2>1. CASE cur[d] = x
    <3>1. d \in Sync => pc[d] # "link"
      BY <1>02, <2>1 DEF IInv, CallerOK
    <3>2. d \notin Asleep' /\ x \notin Fireable' /\ x \notin Handled'
      BY <1>02, <1>3, <1>4, <2>1 DEF Fireable
    <3> QED
      BY <2>0, <2>1, <3>1, <3>2, <1>03, <1>4 DEF HookOK
  <2>2. CASE cur[d] # x
    <3>1. d \in Sync => cur[d] \in Blocks
      BY DEF IInv, CallerOK, TypeOK, Owners
    <3> QED
      BY <2>0, <2>2, <3>1, <1>03, <1>3, <1>4 DEF IInv, HookOK, TypeOK, Procs
  <2> QED
    BY <2>1, <2>2
<1>10. Apart'
  BY <1>0, <1>03 DEF IInv, Apart, TypeOK, Procs, waits
<1>11. UsedOK'
  BY <1>0, <1>01, <1>03, <1>2, <1>3, <1>4 DEF IInv, UsedOK, TypeOK, Sync, Owners, Procs
<1>12. SentOK'
  BY <1>0, <1>03, <1>5 DEF IInv, SentOK, TypeOK, Procs
<1> QED
  BY <1>1, <1>2, <1>6, <1>7, <1>8, <1>9, <1>10, <1>11, <1>12, <1>0, <1>4, <1>04 DEF IInv

\* What the timer unlinks it frees itself, or somebody who is awake does.
LEMMA TimerUnlinkInv ==
  ASSUME TransactionsAssumption, IInv, TimerUnlink
  PROVE  IInv'
<1> USE TransactionsAssumption DEF TransactionsAssumption
<1> PICK x : x = cur[timer]
  OBVIOUS
<1>0. /\ pc[timer] = "unlink" /\ used' = used \ Dropped(x)
      /\ cur' = [cur EXCEPT ![timer] = nxt] /\ nxt' = Nil
      /\ pc' = [pc EXCEPT ![timer] = "scan"]
      /\ UNCHANGED <<tlock, heldL, usedL, lk, req, sent, reqs, orphans>>
  BY DEF TimerUnlink
<1>00. Unlink(x)
  BY DEF TimerUnlink
<1>01. x \in Listed /\ x \in Blocks
  BY <1>0, ListedClosed DEF IInv, TimerOK
<1>02. Leaving = {x} /\ Fireable = Listed \ {x}
  BY <1>0, <1>01 DEF Leaving, Fireable
<1>03. /\ mem' \in [Blocks -> Transaction]
       /\ head' \in Blocks \cup {Nil} /\ tail' \in Blocks \cup {Nil}
       /\ \A b \in Blocks : /\ mem'[b].id = mem[b].id /\ mem'[b].expired = mem[b].expired
                            /\ mem'[b].ans = mem[b].ans /\ mem'[b].lock = mem[b].lock
       /\ \A b \in Blocks \ Listed : mem'[b].next = mem[b].next
  BY <1>00, <1>01, UnlinkFields DEF IInv
<1>04. nxt \in (Listed \ {x}) \cup {Nil} /\ nxt \in Blocks \cup {Nil}
  BY <1>0, <1>01, NoLoop DEF IInv, TimerOK, ListOK, TypeOK
<1>05. /\ x \notin used' <=> x \notin used \/ mem[x].lock = Nil
       /\ used' \subseteq used /\ used \subseteq used' \cup {x}
  BY <1>0 DEF Dropped, autoDrop
<1>06. /\ \A c \in Owners : cur[c] = x => c \in Sync /\ x \in used'
       /\ x \in orphans => x \in used'
       /\ x \notin Handled
  BY <1>01, <1>05 DEF IInv, CallerOK, UsedOK, WorkerOK, Handled, Owners
<1>1. TypeOK'
  BY <1>0, <1>03, <1>04, <1>05 DEF IInv, TypeOK, Procs
<1>2. Listed' = Listed \ {x} /\ ListOK'
  BY <1>00, <1>01, <1>1, UnlinkList DEF IInv
<1>3. Leaving' = {} /\ Fireable' = Fireable /\ Handled' = Handled
  BY <1>0, <1>02, <1>2 DEF Leaving, Fireable, Handled, IInv, TypeOK, Procs
<1>4. Sync' = Sync /\ Asleep' = Asleep /\ Owners' = Owners
  BY <1>0 DEF Sync, Asleep, Owners, waits, IInv, TypeOK, Procs
<1>5. Answerable' = Answerable
  BY <1>0 DEF Answerable, IInv, TypeOK, Procs
<1>6. TimerOK'
  BY <1>0, <1>04, <1>2 DEF IInv, TimerOK, TypeOK, Procs
<1>7. ASSUME NEW w \in Workers PROVE WorkerOK(w)'
  <2>1. \A c \in Asleep : cur'[c] = cur[c] /\ pc'[c] = pc[c]
    BY <1>0 DEF Asleep, IInv, TypeOK, Procs
  <2>2. pc[w] = "answer" => cur[w] # x /\ cur[w] \in Blocks
    BY <1>01 DEF IInv, WorkerOK, TypeOK
  <2> QED
    BY <2>1, <2>2, <1>0, <1>03, <1>05, <1>2, <1>4 DEF IInv, WorkerOK, TypeOK, Procs
<1>8. ASSUME NEW d \in Callers PROVE CallerOK(d)'
  <2>1. d \in Owners => cur[d] \in Blocks /\ cur[d] \in used'
    BY <1>05, <1>06 DEF IInv, CallerOK, TypeOK
  <2> QED
    BY <2>1, <1>0, <1>03, <1>2, <1>3, <1>4
       DEF IInv, CallerOK, TypeOK, Procs, waits, Sync, Owners
<1>9. ASSUME NEW d \in Callers PROVE HookOK(d)'
  <2>1. d \in Sync => cur[d] \in Blocks
    BY DEF IInv, CallerOK, TypeOK, Owners
  <2> QED
    BY <2>1, <1>0, <1>03, <1>3, <1>4 DEF IInv, HookOK, TypeOK, Procs, Sync, Asleep
<1>10. Apart'
  BY <1>0, <1>03, <1>05 DEF IInv, Apart, TypeOK, Procs, waits
<1>11. UsedOK'
  <2>0. \A d \in Callers : cur'[d] = cur[d]
    BY <1>0 DEF IInv, TypeOK, Procs
  <2>1. ASSUME NEW b \in used'
        PROVE  /\ mem'[b].id \in 1 .. reqs'
               /\ mem'[b].lock # Nil => b \in orphans' \/ \E d \in Sync' : cur'[d] = b
    BY <2>0, <1>0, <1>03, <1>05, <1>4 DEF IInv, UsedOK, TypeOK, Sync
  <2>2. ASSUME NEW b \in used'
        PROVE  b \in Listed' \cup orphans' \cup Handled' \/ \E d \in Owners' : cur'[d] = b
    <3>1. CASE b = x
      BY <2>1, <2>2, <3>1, <1>01, <1>03, <1>05, <1>0, <1>4 DEF Owners, Sync
    <3>2. CASE b # x
      BY <2>0, <3>2, <1>0, <1>05, <1>2, <1>3, <1>4 DEF IInv, UsedOK, Owners
    <3> QED
      BY <3>1, <3>2
  <2>3. Listed' \subseteq used' \cup Leaving' /\ orphans' \subseteq used'
    BY <1>0, <1>02, <1>05, <1>06, <1>2, <1>3 DEF IInv, UsedOK
  <2>4. \A b \in orphans' : mem'[b].lock # Nil
    BY <1>0, <1>03 DEF IInv, UsedOK, TypeOK
  <2> QED
    BY <2>1, <2>2, <2>3, <2>4 DEF UsedOK
<1>12. SentOK'
  BY <1>0, <1>03, <1>5 DEF IInv, SentOK, TypeOK, Procs
<1> QED
  BY <1>1, <1>2, <1>6, <1>7, <1>8, <1>9, <1>10, <1>11, <1>12 DEF IInv

(***************************************************************************)
(* The invariant and what follows from it.                                 *)
(***************************************************************************)

\* No transaction yet.
LEMMA InitInv ==
  ASSUME TransactionsAssumption, Init
  PROVE  IInv
<1> USE TransactionsAssumption DEF TransactionsAssumption
<1>1. TypeOK
  BY DEF Init, TypeOK, Transaction, Procs, Ids, TimedOut
<1>2. Listed = {}
  <2>1. Closed({})
    BY DEF Init, Closed
  <2> QED
    BY <2>1, <1>1, ListedClosed
<1>3. ListOK /\ TimerOK
  BY <1>2 DEF Init, ListOK, TimerOK, Procs
<1>4. ASSUME NEW w \in Workers PROVE WorkerOK(w)
  BY DEF Init, WorkerOK, Procs
<1>5. Sync = {} /\ Owners = {} /\ Asleep = {}
  BY DEF Init, Sync, Owners, Asleep, waits, Procs
<1>6. ASSUME NEW c \in Callers PROVE CallerOK(c) /\ HookOK(c)
  BY <1>5 DEF Init, CallerOK, HookOK, waits, Procs
<1>7. Apart /\ UsedOK
  BY <1>2 DEF Init, Apart, UsedOK, waits, Procs
<1>8. SentOK
  BY DEF Init, SentOK, Answerable, Procs
<1> QED
  BY <1>1, <1>3, <1>4, <1>6, <1>7, <1>8 DEF IInv

\* Every step keeps the invariant.
LEMMA StepInv ==
  ASSUME TransactionsAssumption, Reuse = FALSE, IInv, [Next]_vars
  PROVE  IInv'
<1> USE TransactionsAssumption
<1>1. ASSUME NEW c \in Callers, SendRecv(c) PROVE IInv'
  BY <1>1, SendRecvInv
<1>2. ASSUME NEW c \in Callers, SendAsync(c) PROVE IInv'
  BY <1>2, SendAsyncInv
<1>3. ASSUME NEW c \in Callers, CallerStep(c) PROVE IInv'
  BY <1>3, LinkInv, SendOkInv, SendFailInv, WakeInv, CollectInv DEF CallerStep
<1>4. ASSUME NEW w \in Workers, Deliver(w) PROVE IInv'
  BY <1>4, DeliverInv
<1>5. ASSUME NEW w \in Workers, WorkerStep(w) PROVE IInv'
  BY <1>5, TakeInv, TakeNoneInv, CallBackInv DEF WorkerStep
<1>6. ASSUME NEW b \in Blocks, Expire(b) PROVE IInv'
  BY <1>6, ExpireInv
<1>7. ASSUME TimerStep PROVE IInv'
  BY <1>7, TimerStartInv, TimerSkipInv, TimerFireInv, TimerNextInv, TimerUnlinkInv,
     TimerEndInv DEF TimerStep
<1>8. ASSUME UNCHANGED vars PROVE IInv'
  <2>1. Listed' = Listed
    BY <1>8 DEF vars, Listed, Closed
  <2>2. /\ Leaving' = Leaving /\ Handled' = Handled /\ Sync' = Sync /\ Asleep' = Asleep
        /\ Answerable' = Answerable
    BY <1>8 DEF vars, Leaving, Handled, Sync, Asleep, Answerable, waits
  <2>3. Fireable' = Fireable /\ Owners' = Owners
    BY <1>8, <2>1, <2>2 DEF vars, Fireable, Owners
  <2>4. TypeOK' /\ ListOK' /\ TimerOK'
    BY <1>8, <2>1 DEF vars, IInv, TypeOK, ListOK, TimerOK
  <2>5. ASSUME NEW w \in Workers PROVE WorkerOK(w)'
    BY <1>8, <2>1, <2>2 DEF vars, IInv, WorkerOK
  <2>6. ASSUME NEW c \in Callers PROVE CallerOK(c)' /\ HookOK(c)'
    BY <1>8, <2>1, <2>2, <2>3 DEF vars, IInv, CallerOK, HookOK, waits
  <2>7. Apart' /\ UsedOK' /\ SentOK'
    BY <1>8, <2>1, <2>2, <2>3 DEF vars, IInv, Apart, UsedOK, SentOK, waits
  <2> QED
    BY <2>4, <2>5, <2>6, <2>7 DEF IInv
<1> QED
  BY <1>1, <1>2, <1>3, <1>4, <1>5, <1>6, <1>7, <1>8 DEF Next

\* The invariant holds for ever.
LEMMA IInvKept ==
  ASSUME TransactionsAssumption, Reuse = FALSE
  PROVE  Spec => []IInv
<1>1. Init => IInv
  BY InitInv
<1>2. IInv /\ [Next]_vars => IInv'
  BY StepInv
<1> QED
  BY <1>1, <1>2, PTL DEF Spec

\* Every variable of the transactions keeps its type.
THEOREM TypeCorrect ==
  ASSUME TransactionsAssumption, Reuse = FALSE
  PROVE  Spec => []TypeOK
<1>1. IInv => TypeOK
  BY DEF IInv
<1> QED
  BY <1>1, IInvKept, PTL

\* What a caller takes from its transaction is the answer to its own request, or none
\* after its time (AAASendRecvMessage), for any number of callers, workers and requests.
THEOREM AnswersAreOwn ==
  ASSUME TransactionsAssumption, Reuse = FALSE
  PROVE  Spec => []OwnAnswer
<1>1. IInv => OwnAnswer
  <2>1. ASSUME IInv, NEW c \in Callers, pc[c] = "collect"
        PROVE  \/ mem[cur[c]].ans = req[c]
               \/ mem[cur[c]].ans = TimedOut /\ mem[cur[c]].expired
    <3>1. c \in Sync /\ c \notin Asleep
      BY <2>1 DEF IInv, CallerOK, Sync, Asleep
    <3> QED
      BY <2>1, <3>1 DEF IInv, HookOK
  <2> QED
    BY <2>1 DEF OwnAnswer
<1> QED
  BY <1>1, IInvKept, PTL

\* The list of transactions stays a list whatever add_trans, take_trans and trans_timer
\* do to it, what is allocated is in it or in hand, and a caller that waits can be woken.
THEOREM TransactionsAreKept ==
  ASSUME TransactionsAssumption, Reuse = FALSE
  PROVE  Spec => []TransactionsKept
<1> SUFFICES IInv => TransactionsKept
  BY IInvKept, PTL
<1> SUFFICES ASSUME IInv PROVE TransactionsKept
  OBVIOUS
<1> USE TransactionsAssumption DEF TransactionsAssumption
<1>1. tlock = Nil => Leaving = {}
  BY DEF IInv, TimerOK, Leaving
<1>2. ListSound
  <2>1. head # Nil => mem[head].prev = Nil /\ mem[tail].next = Nil
    BY DEF IInv, ListOK
  <2> QED
    BY <1>1, <2>1 DEF ListSound, IInv, ListOK, UsedOK
<1>3. WaiterIsKnown
  <2>1. ASSUME NEW c \in Callers, pc[c] = "wait", lk[c] \in heldL
        PROVE  cur[c] \in Fireable \/ cur[c] \in Handled
    BY <2>1 DEF IInv, CallerOK, HookOK, Asleep
  <2> QED
    BY <2>1 DEF WaiterIsKnown, Fireable, Handled
<1>4. NothingLeaks
  <2> SUFFICES ASSUME tlock = Nil
               PROVE  LET inHand == {cur[p] : p \in {q \in Callers : waits(q) \/ pc[q] = "collect"
                                                   \/ pc[q] = "link"}
                                 \cup {w \in Workers : pc[w] = "answer"}}
                      IN used = Listed \cup inHand \cup orphans
    BY DEF NothingLeaks
  <2>1. {q \in Callers : waits(q) \/ pc[q] = "collect" \/ pc[q] = "link"} = Owners
    BY DEF Owners, Sync
  <2>2. \A p \in Owners : cur[p] \in used
    BY DEF IInv, CallerOK, Owners
  <2>3. \A w \in Workers : pc[w] = "answer" => cur[w] \in used
    BY DEF IInv, WorkerOK
  <2>4. \A b \in used : \/ b \in Listed \cup orphans
                        \/ \E w \in Workers : pc[w] = "answer" /\ cur[w] = b
                        \/ \E p \in Owners : cur[p] = b
    BY DEF IInv, UsedOK, Handled
  <2>5. Listed \subseteq used /\ orphans \subseteq used
    BY <1>1 DEF IInv, UsedOK
  <2> QED
    BY <2>1, <2>2, <2>3, <2>4, <2>5
<1> QED
  BY <1>2, <1>3, <1>4 DEF TransactionsKept

(***************************************************************************)
(* Every call ends once (DiameterCalls).                                   *)
(***************************************************************************)

\* The calls of DiameterCalls.
Calls == [c \in Callers |-> callOf(c)]

\* A call is open while its caller sleeps and over when it has been called back.
CallView ==
  [c \in Callers |->
    IF c \notin Sync THEN Promise!NoCall
    ELSE [state |-> IF c \in Asleep THEN "open" ELSE "over", id |-> req[c],
          result |-> IF c \in Asleep THEN TimedOut ELSE mem[cur[c]].ans]]

CallsAre == Calls = CallView

\* The view is what callOf says.
LEMMA CallIs ==
  IInv => CallsAre
<1> SUFFICES ASSUME IInv PROVE Calls = CallView
  BY DEF CallsAre
<1>1. ASSUME NEW c \in Callers
      PROVE  callOf(c) = CallView[c]
  <2>1. CASE c \notin Sync
    BY <2>1 DEF CallView, callOf, Sync, Promise!NoCall, Promise!TimedOut, TimedOut
  <2>2. CASE c \in Sync
    <3>1. c \in Asleep <=> pc[c] # "collect" /\ lk[c] \in heldL
      BY <2>2 DEF Asleep, Sync, IInv, CallerOK
    <3>2. ~(~waits(c) /\ pc[c] # "collect")
      BY <2>2 DEF Sync
    <3> QED
      BY <2>2, <3>1, <3>2 DEF CallView, callOf
  <2> QED
    BY <2>1, <2>2
<1> QED
  BY <1>1 DEF Calls, CallView

\* And so it is in the next state.
LEMMA CallIsNext ==
  IInv' => CallsAre'
BY CallIs, PTL

\* What leaves the callers that wait, and their answers, alone leaves the calls alone.
LEMMA CallsStutter ==
  ASSUME IInv, IInv', Sync' = Sync, Asleep' = Asleep,
         \A c \in Sync : /\ req'[c] = req[c] /\ cur'[c] = cur[c]
                         /\ c \notin Asleep => mem'[cur[c]].ans = mem[cur[c]].ans
  PROVE  Calls' = Calls
BY CallIs, CallIsNext DEF CallView, CallsAre

\* The call of c changes to e, and no other.
LEMMA CallChanges ==
  ASSUME IInv, IInv', NEW c \in Callers, NEW e,
         \A d \in Callers \ {c} :
            /\ d \in Sync' <=> d \in Sync
            /\ d \in Asleep' <=> d \in Asleep
            /\ d \in Sync => /\ req'[d] = req[d] /\ cur'[d] = cur[d]
                             /\ d \notin Asleep => mem'[cur[d]].ans = mem[cur[d]].ans,
         CallView'[c] = e
  PROVE  Calls' = [Calls EXCEPT ![c] = e]
BY CallIs, CallIsNext DEF CallView, CallsAre

\* A caller that waits starts a call.
LEMMA SendRecvCalls ==
  ASSUME TransactionsAssumption, Reuse = FALSE, IInv, NEW c \in Callers, SendRecv(c)
  PROVE  Promise!Call(c)
<1> USE TransactionsAssumption
<1>1. IInv'
  BY SendRecvInv
<1>0. PICK b \in Blocks, l \in Locks :
        /\ b \notin used /\ l \notin usedL /\ NewTransaction(b, l)
        /\ heldL' = heldL \cup {l}
        /\ cur' = [cur EXCEPT ![c] = b] /\ lk' = [lk EXCEPT ![c] = l]
        /\ pc[c] = "idle" /\ reqs < MaxReqs
        /\ reqs' = reqs + 1 /\ req' = [req EXCEPT ![c] = reqs + 1]
        /\ pc' = [pc EXCEPT ![c] = "link"]
  BY DEF SendRecv, FreshBlock, FreshLock
<1>2. \A x \in Blocks \ {b} : mem'[x] = mem[x]
  BY <1>0, NewFields DEF IInv
<1>3. /\ Sync' = Sync \cup {c} /\ Asleep' = Asleep \cup {c} /\ c \notin Sync
      /\ c \in Sync' /\ c \in Asleep' /\ req'[c] = reqs + 1
  BY <1>0 DEF Sync, Asleep, waits, IInv, TypeOK, Procs, CallerOK, TransactionsAssumption
<1>4. ASSUME NEW d \in Sync
      PROVE  req'[d] = req[d] /\ cur'[d] = cur[d] /\ mem'[cur[d]] = mem[cur[d]]
  BY <1>0, <1>2, <1>3 DEF IInv, TypeOK, Procs, CallerOK, Sync, Owners
<1>5. Calls[c] = Promise!NoCall
  BY <1>3, CallIs DEF CallView, CallsAre
<1>6. CallView'[c] = [state |-> "open", id |-> reqs + 1, result |-> TimedOut]
  BY <1>3 DEF CallView
<1>7. Calls' = [Calls EXCEPT ![c] = [state |-> "open", id |-> reqs + 1, result |-> TimedOut]]
  BY <1>1, <1>3, <1>4, <1>6, CallChanges
<1> QED
  BY <1>0, <1>5, <1>7 DEF Calls, Promise!Call, Promise!NoCall, Promise!TimedOut, TimedOut

\* A request that nobody waits for.
LEMMA SendAsyncCalls ==
  ASSUME TransactionsAssumption, Reuse = FALSE, IInv, NEW c \in Callers, SendAsync(c)
  PROVE  Promise!Post
<1> USE TransactionsAssumption
<1>1. IInv'
  BY SendAsyncInv
<1>0. PICK b \in Blocks :
        /\ b \notin used /\ NewTransaction(b, Nil)
        /\ cur' = [cur EXCEPT ![c] = b] /\ lk' = [lk EXCEPT ![c] = Nil]
        /\ pc[c] = "idle" /\ reqs < MaxReqs /\ heldL' = heldL
        /\ reqs' = reqs + 1 /\ req' = [req EXCEPT ![c] = reqs + 1]
        /\ pc' = [pc EXCEPT ![c] = "link"]
  BY DEF SendAsync, FreshBlock
<1>2. \A x \in Blocks \ {b} : mem'[x] = mem[x]
  BY <1>0, NewFields DEF IInv
<1>3. Sync' = Sync /\ Asleep' = Asleep /\ c \notin Sync
  BY <1>0 DEF Sync, Asleep, waits, IInv, TypeOK, Procs, CallerOK, TransactionsAssumption
<1>4. ASSUME NEW d \in Sync
      PROVE  req'[d] = req[d] /\ cur'[d] = cur[d] /\ mem'[cur[d]] = mem[cur[d]]
  BY <1>0, <1>2, <1>3 DEF IInv, TypeOK, Procs, CallerOK, Sync, Owners
<1>5. Calls' = Calls
  BY <1>1, <1>3, <1>4, CallsStutter
<1> QED
  BY <1>0, <1>5 DEF Calls, Promise!Post

\* The caller that could not send has no call any more, and perhaps it had none.
LEMMA SendFailCalls ==
  ASSUME TransactionsAssumption, IInv, NEW c \in Callers, SendFail(c)
  PROVE  Promise!Fail(c) \/ UNCHANGED <<Calls, reqs>>
<1> USE TransactionsAssumption
<1>1. IInv'
  BY SendFailInv
<1>2. /\ mem' = mem /\ reqs' = reqs /\ c \notin Sync'
      /\ Sync' = Sync \ {c} /\ Asleep' = Asleep \ {c}
      /\ \A d \in Callers \ {c} : req'[d] = req[d] /\ cur'[d] = cur[d]
  BY DEF SendFail, memory, Sync, Asleep, waits, IInv, TypeOK, Procs
<1>3. CASE c \in Sync
  <2>1. Calls[c].state \in {"open", "over"}
    BY <1>3, CallIs DEF CallView, CallsAre
  <2>2. CallView'[c] = Promise!NoCall
    BY <1>2 DEF CallView
  <2>3. Calls' = [Calls EXCEPT ![c] = Promise!NoCall]
    BY <1>1, <1>2, <2>2, CallChanges
  <2> QED
    BY <1>2, <2>1, <2>3 DEF Calls, Promise!Fail
<1>4. CASE c \notin Sync
  BY <1>1, <1>2, <1>4, CallsStutter DEF Sync, Asleep
<1> QED
  BY <1>3, <1>4

\* The caller returns with what its transaction holds.
LEMMA CollectCalls ==
  ASSUME TransactionsAssumption, IInv, NEW c \in Callers, Collect(c)
  PROVE  Promise!Return(c)
<1> USE TransactionsAssumption
<1>1. IInv'
  BY CollectInv
<1>2. c \in Sync /\ c \notin Asleep /\ ~waits(c)
  BY DEF Collect, IInv, CallerOK, Sync, Asleep
<1>3. /\ mem' = mem /\ reqs' = reqs /\ c \notin Sync'
      /\ Sync' = Sync \ {c} /\ Asleep' = Asleep
      /\ \A d \in Callers \ {c} : req'[d] = req[d] /\ cur'[d] = cur[d]
  BY <1>2 DEF Collect, Sync, Asleep, waits, IInv, TypeOK, Procs
<1>4. Calls[c].state = "over"
  BY <1>2, CallIs DEF CallView, CallsAre, Sync
<1>5. CallView'[c] = Promise!NoCall
  BY <1>3 DEF CallView
<1>6. Calls' = [Calls EXCEPT ![c] = Promise!NoCall]
  BY <1>1, <1>3, <1>5, CallChanges
<1> QED
  BY <1>3, <1>4, <1>6 DEF Calls, Promise!Return

\* When somebody calls back for a transaction its caller's call ends in what is
\* written there; nobody else's does.
LEMMA CallEnds ==
  ASSUME TransactionsAssumption, IInv, IInv', NEW x \in Blocks, NEW r \in Ids \cup {TimedOut},
         Sync' = Sync, Asleep' = {c \in Asleep : cur[c] # x}, reqs' = reqs,
         \A c \in Sync : cur[c] = x => c \in Asleep /\ (r = TimedOut \/ r = req[c]),
         \A c \in Callers : req'[c] = req[c] /\ cur'[c] = cur[c],
         \A b \in Blocks \ {x} : mem'[b] = mem[b],
         mem'[x].ans = r
  PROVE  \/ \E c \in Callers : Promise!End(c, Calls[c].id) \/ Promise!End(c, TimedOut)
         \/ UNCHANGED <<Calls, reqs>>
<1>1. \A d \in Sync : cur[d] \in Blocks
  BY DEF IInv, TypeOK, CallerOK, Sync, Owners
<1>2. CASE \A c \in Asleep : cur[c] # x
  <2>1. Asleep' = Asleep
    BY <1>2
  <2> QED
    BY <1>1, <1>2, <2>1, CallsStutter DEF Sync
<1>3. ASSUME NEW c \in Asleep, cur[c] = x
      PROVE  Promise!End(c, Calls[c].id) \/ Promise!End(c, TimedOut)
  <2>1. c \in Callers /\ c \in Sync /\ c \notin Asleep'
    BY <1>3 DEF Asleep, Sync
  <2>2. \A d \in Sync : d # c => cur[d] # x
    BY <1>3, <2>1 DEF IInv, CallerOK, Apart, Sync, Owners, waits
  <2>3. Calls[c] = [state |-> "open", id |-> req[c], result |-> TimedOut]
    BY <2>1, CallIs DEF CallView, CallsAre
  <2>4. CallView'[c] = [state |-> "over", id |-> req[c], result |-> r]
    BY <1>3, <2>1 DEF CallView
  <2>5. Calls' = [Calls EXCEPT ![c] = [state |-> "over", id |-> req[c], result |-> r]]
    <3>1. ASSUME NEW d \in Callers \ {c}
          PROVE  /\ d \in Sync' <=> d \in Sync
                 /\ d \in Asleep' <=> d \in Asleep
                 /\ d \in Sync => /\ req'[d] = req[d] /\ cur'[d] = cur[d]
                                  /\ d \notin Asleep => mem'[cur[d]].ans = mem[cur[d]].ans
      BY <1>1, <2>2 DEF Asleep, Sync
    <3> QED
      BY <2>1, <2>4, <3>1, CallChanges
  <2>6. Calls' = [Calls EXCEPT ![c].state = "over", ![c].result = r]
    <3>1. Calls = [d \in Callers |-> Calls[d]]
      BY DEF Calls
    <3>2. [Calls EXCEPT ![c].state = "over", ![c].result = r]
             = [Calls EXCEPT ![c] = [[Calls[c] EXCEPT !.state = "over"] EXCEPT !.result = r]]
      BY <2>1, <3>1
    <3>3. [[Calls[c] EXCEPT !.state = "over"] EXCEPT !.result = r]
             = [state |-> "over", id |-> req[c], result |-> r]
      <4> DEFINE e == [[Calls[c] EXCEPT !.state = "over"] EXCEPT !.result = r]
      <4>1. e = [f \in {"state", "id", "result"} |-> e[f]]
        BY <2>3
      <4>2. e.state = "over" /\ e.id = req[c] /\ e.result = r
        BY <2>3
      <4> HIDE DEF e
      <4>3. e = [state |-> "over", id |-> req[c], result |-> r]
        BY <4>1, <4>2
      <4> QED
        BY <4>3 DEF e
    <3> QED
      BY <2>5, <3>2, <3>3
  <2>7. r = Calls[c].id \/ r = TimedOut
    BY <1>3, <2>1, <2>3
  <2>8. Promise!End(c, r)
    <3>1. Calls[c].state = "open"
      BY <2>3
    <3> QED
      BY <2>6, <3>1 DEF Calls, Promise!End
  <2> QED
    BY <2>7, <2>8
<1> QED
  BY <1>2, <1>3 DEF Asleep

\* The worker's callback ends the call of the transaction it has taken.
LEMMA CallBackCalls ==
  ASSUME TransactionsAssumption, IInv, NEW w \in Workers, CallBack(w)
  PROVE  \/ \E c \in Callers : Promise!End(c, Calls[c].id) \/ Promise!End(c, TimedOut)
         \/ UNCHANGED <<Calls, reqs>>
<1> USE TransactionsAssumption
<1> PICK x : x = cur[w]
  OBVIOUS
<1>1. /\ IInv'
      /\ Sync' = Sync /\ Asleep' = {c \in Asleep : cur[c] # x}
      /\ \A c \in Sync : cur[c] = x => c \in Asleep /\ req[c] = req[w]
  BY CallBackInv
<1>2. /\ pc[w] = "answer" /\ mem' = [mem EXCEPT ![x].ans = req[w]] /\ reqs' = reqs
      /\ cur' = [cur EXCEPT ![w] = Nil] /\ req' = [req EXCEPT ![w] = 0]
  BY DEF CallBack
<1>3. x \in Blocks /\ req[w] \in Ids
  BY <1>2 DEF IInv, WorkerOK, TypeOK, Ids
<1>4. /\ \A b \in Blocks \ {x} : mem'[b] = mem[b]
      /\ mem'[x].ans = req[w]
  BY <1>2, <1>3 DEF IInv, TypeOK, Transaction
<1>5. \A c \in Callers : req'[c] = req[c] /\ cur'[c] = cur[c]
  BY <1>2 DEF IInv, TypeOK, Procs, TransactionsAssumption
<1> QED
  BY <1>1, <1>2, <1>3, <1>4, <1>5, CallEnds

\* The timer's callback ends the call of the transaction whose time is over.
LEMMA TimerFireCalls ==
  ASSUME TransactionsAssumption, IInv, TimerFire
  PROVE  \/ \E c \in Callers : Promise!End(c, Calls[c].id) \/ Promise!End(c, TimedOut)
         \/ UNCHANGED <<Calls, reqs>>
<1> USE TransactionsAssumption
<1> PICK x : x = cur[timer]
  OBVIOUS
<1>1. /\ IInv'
      /\ Sync' = Sync /\ Asleep' = {c \in Asleep : cur[c] # x}
      /\ \A c \in Sync : cur[c] = x => c \in Asleep
  BY TimerFireInv
<1>2. /\ x # Nil /\ mem' = [mem EXCEPT ![x].ans = TimedOut] /\ reqs' = reqs
      /\ cur' = cur /\ req' = req
  BY DEF TimerFire
<1>3. x \in Blocks
  BY <1>2 DEF IInv, TypeOK, Procs
<1>4. /\ \A b \in Blocks \ {x} : mem'[b] = mem[b]
      /\ mem'[x].ans = TimedOut
  BY <1>2, <1>3 DEF IInv, TypeOK, Transaction
<1> QED
  BY <1>1, <1>2, <1>3, <1>4, CallEnds

\* The other steps of the callers leave the calls alone.
LEMMA CallerCalls ==
  ASSUME TransactionsAssumption, IInv, IInv', NEW c \in Callers,
         Link(c) \/ SendOk(c) \/ Wake(c)
  PROVE  UNCHANGED <<Calls, reqs>>
<1> USE TransactionsAssumption DEF TransactionsAssumption
<1>1. \A d \in Sync : cur[d] \in Blocks /\ d \in Callers
  BY DEF IInv, TypeOK, CallerOK, Sync, Owners
<1>2. CASE Link(c)
  <2>1. \A d \in Sync : mem'[cur[d]].ans = mem[cur[d]].ans
    <3>1. ASSUME NEW b \in Blocks PROVE mem'[b].ans = mem[b].ans
      <4>1. mem[b] \in Transaction
        BY DEF IInv, TypeOK
      <4>2. mem'[b] = [mem[b] EXCEPT !.prev = IF b = cur[c] THEN tail ELSE @,
                                     !.next = IF b = tail THEN cur[c] ELSE @]
        BY <1>2 DEF Link
      <4> QED
        BY <4>1, <4>2 DEF Transaction
    <3> QED
      BY <1>1, <3>1
  <2>2. Sync' = Sync /\ Asleep' = Asleep
    <3>1. /\ pc[c] = "link" /\ pc' = [pc EXCEPT ![c] = "send"]
          /\ lk' = lk /\ heldL' = heldL
      BY <1>2 DEF Link
    <3> QED
      BY <3>1 DEF Sync, Asleep, waits, IInv, TypeOK, Procs
  <2> QED
    BY <1>2, <2>1, <2>2, CallsStutter DEF Link
<1>3. CASE SendOk(c)
  <2>1. Sync' = Sync /\ Asleep' = Asleep /\ mem' = mem
    BY <1>3 DEF SendOk, memory, Sync, Asleep, waits, IInv, TypeOK, Procs
  <2>2. \A d \in Sync : req'[d] = req[d] /\ cur'[d] = cur[d]
    BY <1>1, <1>3 DEF SendOk, Sync, IInv, TypeOK, Procs
  <2> QED
    BY <1>3, <2>1, <2>2, CallsStutter DEF SendOk
<1>4. CASE Wake(c)
  <2>1. Sync' = Sync /\ Asleep' = Asleep /\ mem' = mem
    BY <1>4 DEF Wake, memory, Sync, Asleep, waits, IInv, TypeOK, CallerOK, Procs
  <2> QED
    BY <1>4, <2>1, CallsStutter DEF Wake
<1> QED
  BY <1>2, <1>3, <1>4

\* So do those of the workers and of the timer that call nobody back.
LEMMA OtherCalls ==
  ASSUME TransactionsAssumption, IInv, IInv',
         \/ \E w \in Workers : Deliver(w) \/ Take(w) \/ TakeNone(w)
         \/ \E b \in Blocks : Expire(b)
         \/ TimerStart \/ TimerSkip \/ TimerNext \/ TimerUnlink \/ TimerEnd
  PROVE  UNCHANGED <<Calls, reqs>>
<1> USE TransactionsAssumption DEF TransactionsAssumption
<1>1. \A d \in Sync : cur[d] \in Blocks /\ d \in Callers
  BY DEF IInv, TypeOK, CallerOK, Sync, Owners
<1>2. reqs' = reqs /\ lk' = lk /\ heldL' = heldL
  BY
     DEF Deliver, Take, TakeNone, Expire, TimerStart, TimerSkip, TimerNext, TimerUnlink, TimerEnd
<1>3. \A d \in Callers : pc'[d] = pc[d] /\ req'[d] = req[d] /\ cur'[d] = cur[d]
  BY
     DEF Deliver, Take, TakeNone, Expire, TimerStart, TimerSkip, TimerNext, TimerUnlink, TimerEnd,
     IInv, TypeOK, Procs
<1>4. \A b \in Blocks : mem'[b].ans = mem[b].ans
  <2>1. ASSUME NEW x \in Listed, Unlink(x) PROVE \A b \in Blocks : mem'[b].ans = mem[b].ans
    BY <2>1, UnlinkFields DEF IInv
  <2>2. ASSUME NEW b \in Blocks, Expire(b) PROVE \A d \in Blocks : mem'[d].ans = mem[d].ans
    BY <2>2 DEF Expire, IInv, TypeOK, Transaction
  <2>3. ASSUME NEW w \in Workers, Take(w) PROVE \E x \in Listed : Unlink(x)
    BY <2>3 DEF Take, Found
  <2>4. ASSUME TimerUnlink PROVE \E x \in Listed : Unlink(x)
    BY <2>4 DEF TimerUnlink, IInv, TimerOK
  <2>5. ASSUME \/ \E w \in Workers : Deliver(w) \/ TakeNone(w)
               \/ TimerStart \/ TimerSkip \/ TimerNext \/ TimerEnd
        PROVE  mem' = mem
    BY <2>5 DEF Deliver, TakeNone, TimerStart, TimerSkip, TimerNext, TimerEnd, memory
  <2> QED
    BY <2>1, <2>2, <2>3, <2>4, <2>5
<1>5. Sync' = Sync /\ Asleep' = Asleep
  BY <1>2, <1>3 DEF Sync, Asleep, waits
<1> QED
  BY <1>1, <1>2, <1>3, <1>4, <1>5, CallsStutter

\* Every call ends once, in the answer to its own request or in a time-out, and returns
\* what it ended in: the transactions implement DiameterCalls, step by step.
THEOREM CallsEndOnce ==
  ASSUME TransactionsAssumption, Reuse = FALSE
  PROVE  Spec => EndsOnce
<1> USE TransactionsAssumption
<1>1. Init => Promise!Init
  <2>1. SUFFICES ASSUME Init PROVE Promise!Init
    OBVIOUS
  <2>2. IInv /\ Sync = {}
    BY <2>1, InitInv DEF Init, Sync, waits, Procs
  <2>3. Calls = [c \in Callers |-> Promise!NoCall]
    BY <2>2, CallIs DEF CallView, CallsAre
  <2> QED
    BY <2>1, <2>3 DEF Init, Promise!Init, Calls
<1>2. IInv /\ [Next]_vars => [Promise!Next]_<<Calls, reqs>>
  <2>1. SUFFICES ASSUME IInv, [Next]_vars PROVE Promise!Next \/ UNCHANGED <<Calls, reqs>>
    OBVIOUS
  <2>2. IInv'
    BY <2>1, StepInv
  <2>3. ASSUME NEW c \in Callers, SendRecv(c) \/ SendAsync(c) \/ SendFail(c) \/ Collect(c)
        PROVE  Promise!Next \/ UNCHANGED <<Calls, reqs>>
    BY <2>1, <2>3, SendRecvCalls, SendAsyncCalls, SendFailCalls, CollectCalls DEF Promise!Next
  <2>4. ASSUME \E c \in Callers : Promise!End(c, Calls[c].id) \/ Promise!End(c, TimedOut)
        PROVE  Promise!Next
    BY <2>4 DEF Promise!Next, Calls, Promise!TimedOut, TimedOut
  <2>5. ASSUME \/ \E w \in Workers : CallBack(w)
               \/ TimerFire
        PROVE  Promise!Next \/ UNCHANGED <<Calls, reqs>>
    BY <2>1, <2>4, <2>5, CallBackCalls, TimerFireCalls
  <2>6. CASE UNCHANGED vars
    BY <2>6 DEF vars, Calls, callOf, waits
  <2> QED
    BY <2>1, <2>2, <2>3, <2>5, <2>6, CallerCalls, OtherCalls
       DEF Next, CallerStep, WorkerStep, TimerStep
<1>3. Spec => []IInv
  BY IInvKept
<1> QED
  BY <1>1, <1>2, <1>3, PTL DEF Spec, EndsOnce, Promise!Spec, Calls

(***************************************************************************)
(* SharedMemory: the sum of a function over a finite set. Total is a fold, *)
(* defined by recursion through CHOOSE; that such a function exists and is *)
(* unique on the subsets of a set is proved by a smallest counterexample.  *)
(***************************************************************************)

\* Min gives the least of a set of numbers.
LEMMA MinIs ==
  ASSUME NEW S \in SUBSET Nat, S # {}
  PROVE  Min(S) \in S /\ \A x \in S : Min(S) <= x
  <1> DEFINE R == OpToRel(<, Nat)
  <1>1. PICK x \in S : \A y \in S : ~(<<y, x>> \in R)
    BY NatLessThanWellFounded, WFMin
  <1>2. \A y \in S : x <= y
    <2> SUFFICES ASSUME NEW y \in S PROVE ~(y < x)
      OBVIOUS
    <2>1. <<y, x>> \in Nat \X Nat /\ <<y, x>>[1] = y /\ <<y, x>>[2] = x
      OBVIOUS
    <2> QED
      BY <1>1, <2>1 DEF OpToRel
  <1> QED
    BY <1>2 DEF Min

\* A set of finite sets has one that is smaller than none of the others; proofs by
\* induction on the size of a set take the smallest counterexample.
LEMMA Smallest ==
  ASSUME NEW B, B # {}, \A s \in B : IsFiniteSet(s)
  PROVE  \E s \in B : \A t \in B : Cardinality(s) <= Cardinality(t)
  <1> DEFINE C == {Cardinality(s) : s \in B}
  <1>1. C \in SUBSET Nat /\ C # {}
    BY FS_CardinalityType
  <1>2. Min(C) \in C /\ \A n \in C : Min(C) <= n
    BY <1>1, MinIs
  <1> QED
    BY <1>2

\* What MapThenFoldSet takes from a set next.
First(s) == CHOOSE x \in s : TRUE

\* g maps each part of S to the sum of f over it.
Sums(f, S, g) ==
  g = [s \in SUBSET S |-> IF s = {} THEN 0 ELSE f[First(s)] + g[s \ {First(s)}]]

\* Total is the value at S of a function that sums the parts of S.
LEMMA TotalIs ==
  ASSUME NEW f, NEW S
  PROVE  Total(f, S) = (CHOOSE g : Sums(f, S, g))[S]
  BY DEF Total, MapThenSumSet, MapThenFoldSet, Sums, First

\* Taking an element out of a finite set leaves one less.
LEMMA Smaller ==
  ASSUME NEW s, IsFiniteSet(s), NEW x \in s
  PROVE  /\ IsFiniteSet(s \ {x}) /\ Cardinality(s) \in Nat /\ Cardinality(s \ {x}) \in Nat
         /\ Cardinality(s \ {x}) = Cardinality(s) - 1
  BY FS_RemoveElement, FS_CardinalityType

\* The recursion of a sum has a solution.
LEMMA SumsExist ==
  ASSUME NEW f, NEW S, IsFiniteSet(S)
  PROVE  \E g : Sums(f, S, g)
<1> DEFINE D(n) == {s \in SUBSET S : Cardinality(s) <= n}
           Value(s, g) == IF s = {} THEN 0 ELSE f[First(s)] + g[s \ {First(s)}]
           P(n) == \E g : g = [s \in D(n) |-> Value(s, g)]
<1>1. \A s \in SUBSET S : IsFiniteSet(s) /\ Cardinality(s) \in Nat
  BY FS_Subset, FS_CardinalityType
<1>2. \A s \in SUBSET S : s # {} => First(s) \in s
  BY DEF First
<1>3. P(0)
  <2> DEFINE g == [s \in D(0) |-> 0]
  <2>1. \A s \in D(0) : s = {}
    BY <1>1, FS_EmptySet
  <2>2. g = [s \in D(0) |-> Value(s, g)]
    BY <2>1
  <2> QED
    BY <2>2
<1>4. ASSUME NEW n \in Nat, P(n) PROVE P(n + 1)
  <2>1. PICK g : g = [s \in D(n) |-> Value(s, g)]
    BY <1>4
  <2> DEFINE h == [s \in D(n + 1) |-> Value(s, g)]
  <2>2. \A s \in D(n + 1) : s # {} => s \ {First(s)} \in D(n)
    <3> SUFFICES ASSUME NEW s \in SUBSET S, Cardinality(s) <= n + 1, s # {}
                 PROVE  s \ {First(s)} \in SUBSET S /\ Cardinality(s \ {First(s)}) <= n
      OBVIOUS
    <3>1. Cardinality(s \ {First(s)}) = Cardinality(s) - 1 /\ Cardinality(s) \in Nat
      BY <1>1, <1>2, Smaller
    <3> QED
      BY <3>1
  <2>3. \A s \in D(n) : s \in D(n + 1)
    BY <1>1
  <2>4. \A s \in D(n) : h[s] = g[s]
    <3>1. \A s \in D(n) : h[s] = Value(s, g)
      BY <2>3
    <3>2. \A s \in D(n) : g[s] = Value(s, g)
      BY ONLY <2>1
    <3> QED
      BY ONLY <3>1, <3>2
  <2>5. \A s \in D(n + 1) : Value(s, g) = Value(s, h)
    BY ONLY <2>2, <2>4
  <2>6. h = [s \in D(n + 1) |-> Value(s, h)]
    BY ONLY <2>5
  <2> QED
    BY <2>6
<1> HIDE DEF P
<1>5. \A n \in Nat : P(n)
  <2> SUFFICES ASSUME \E n \in Nat : ~P(n) PROVE FALSE
    OBVIOUS
  <2> DEFINE N == {n \in Nat : ~P(n)}
  <2>1. N \in SUBSET Nat /\ N # {}
    OBVIOUS
  <2>2. Min(N) \in N /\ \A n \in N : Min(N) <= n
    BY <2>1, MinIs
  <2>3. Min(N) # 0 /\ Min(N) \in Nat /\ ~P(Min(N))
    BY <1>3, <2>2
  <2>4. Min(N) - 1 \in Nat /\ (Min(N) - 1) + 1 = Min(N) /\ ~(Min(N) <= Min(N) - 1)
    BY <2>3
  <2>5. P(Min(N) - 1)
    BY <2>2, <2>4
  <2>6. P((Min(N) - 1) + 1)
    BY <1>4, <2>4, <2>5
  <2> QED
    BY <2>3, <2>4, <2>6
<1>6. D(Cardinality(S)) = SUBSET S
  BY <1>1, FS_Subset
<1>7. P(Cardinality(S))
  BY <1>1, <1>5
<1> QED
  BY <1>6, <1>7 DEF P, Sums

\* Two sums agree on the sets on which their functions do.
LEMMA SumsAgree ==
  ASSUME NEW f1, NEW f2, NEW g1, NEW g2, NEW S, NEW T \in SUBSET S, IsFiniteSet(S),
         Sums(f1, S, g1), Sums(f2, T, g2), \A x \in T : f1[x] = f2[x]
  PROVE  g1[T] = g2[T]
<1> DEFINE B == {s \in SUBSET T : g1[s] # g2[s]}
<1>1. \A s \in SUBSET T : IsFiniteSet(s) /\ s \in SUBSET S
  BY FS_Subset
<1>2. SUFFICES ASSUME B # {} PROVE FALSE
  OBVIOUS
<1>3. PICK s \in B : \A t \in B : Cardinality(s) <= Cardinality(t)
  BY <1>1, <1>2, Smallest
<1>4. /\ g1[s] = IF s = {} THEN 0 ELSE f1[First(s)] + g1[s \ {First(s)}]
      /\ g2[s] = IF s = {} THEN 0 ELSE f2[First(s)] + g2[s \ {First(s)}]
  BY <1>1 DEF Sums
<1>5. s # {} /\ First(s) \in s
  BY <1>4 DEF First
<1>6. s \ {First(s)} \in SUBSET T /\ s \ {First(s)} \notin B
  <2>1. IsFiniteSet(s)
    BY <1>1
  <2>2. Cardinality(s \ {First(s)}) = Cardinality(s) - 1 /\ Cardinality(s) \in Nat
    BY <1>5, <2>1, Smaller
  <2>3. ~(Cardinality(s) <= Cardinality(s \ {First(s)}))
    BY <2>2
  <2> QED
    BY <1>3, <2>3
<1>7. f1[First(s)] = f2[First(s)]
  BY <1>5
<1> QED
  BY <1>4, <1>5, <1>6, <1>7

\* The sum does not depend on the element that the recursion chooses.
LEMMA SumsCommute ==
  ASSUME NEW f, NEW g, NEW S, IsFiniteSet(S), Sums(f, S, g), \A x \in S : f[x] \in Nat
  PROVE  \A s \in SUBSET S : g[s] \in Nat /\ \A x \in s : g[s] = f[x] + g[s \ {x}]
<1> DEFINE OK(s) == g[s] \in Nat /\ \A x \in s : g[s] = f[x] + g[s \ {x}]
           B == {s \in SUBSET S : ~OK(s)}
<1>1. \A s \in SUBSET S : IsFiniteSet(s)
  BY FS_Subset
<1>2. SUFFICES ASSUME B # {} PROVE FALSE
  OBVIOUS
<1>3. PICK s \in B : \A t \in B : Cardinality(s) <= Cardinality(t)
  BY <1>1, <1>2, Smallest
<1>4. \A x \in s : OK(s \ {x})
  <2> TAKE x \in s
  <2>1. IsFiniteSet(s) /\ s \ {x} \in SUBSET S
    BY <1>1
  <2>2. Cardinality(s \ {x}) = Cardinality(s) - 1 /\ Cardinality(s) \in Nat
    BY <2>1, Smaller
  <2>3. ~(Cardinality(s) <= Cardinality(s \ {x}))
    BY <2>2
  <2>4. s \ {x} \notin B
    BY <1>3, <2>3
  <2> QED
    BY <2>1, <2>4
<1>5. \A t \in SUBSET S : g[t] = IF t = {} THEN 0 ELSE f[First(t)] + g[t \ {First(t)}]
  BY DEF Sums
<1>6. CASE s = {}
  <2>1. g[s] = 0
    BY <1>5, <1>6
  <2> QED
    BY <1>3, <1>6, <2>1
<1>7. CASE s # {}
  <2> DEFINE p == First(s)
  <2>1. p \in s /\ s \in SUBSET S /\ g[s] = f[p] + g[s \ {p}]
    BY <1>5, <1>7 DEF First
  <2> HIDE DEF p
  <2>2. g[s] \in Nat
    <3>1. g[s \ {p}] \in Nat /\ f[p] \in Nat
      BY <1>4, <2>1
    <3> QED
      BY <2>1, <3>1
  <2>3. ASSUME NEW x \in s, x # p PROVE g[s] = f[x] + g[s \ {x}]
    <3>1. x \in s \ {p} /\ p \in s \ {x}
      BY <2>1, <2>3
    <3>2. g[s \ {p}] = f[x] + g[(s \ {p}) \ {x}]
      BY <1>4, <2>1, <3>1
    <3>3. g[s \ {x}] = f[p] + g[(s \ {x}) \ {p}]
      BY <1>4, <3>1
    <3>4. (s \ {p}) \ {x} = (s \ {x}) \ {p}
      OBVIOUS
    <3>6. g[(s \ {x}) \ {p}] \in Nat
      <4>1. (s \ {x}) \ {p} \in SUBSET S /\ (s \ {x}) \ {p} \notin B
        <5>1. IsFiniteSet(s) /\ IsFiniteSet(s \ {x})
          BY <1>1, <2>1, FS_Subset
        <5>2. /\ Cardinality(s \ {x}) = Cardinality(s) - 1 /\ Cardinality(s) \in Nat
              /\ Cardinality((s \ {x}) \ {p}) = Cardinality(s \ {x}) - 1
          BY <3>1, <5>1, Smaller
        <5>3. ~(Cardinality(s) <= Cardinality((s \ {x}) \ {p}))
          BY <5>2
        <5> QED
          BY <1>3, <2>1, <5>3
      <4> QED
        BY <4>1
    <3>7. f[x] \in Nat /\ f[p] \in Nat
      BY <2>1
    <3>8. PICK v \in Nat : v = g[(s \ {x}) \ {p}]
      BY <3>6
    <3>9. g[s \ {p}] = f[x] + v
      BY <3>2, <3>4, <3>8
    <3>10. g[s] = f[p] + (f[x] + v) /\ g[s \ {x}] = f[p] + v
      BY <2>1, <3>3, <3>8, <3>9
    <3> QED
      BY <3>7, <3>10
  <2>4. OK(s)
    BY <2>1, <2>2, <2>3
  <2> QED
    BY <1>3, <2>4
<1> QED
  BY <1>6, <1>7

\* What the lemmas above say of Total.
LEMMA TotalAdds ==
  ASSUME NEW f, NEW S, IsFiniteSet(S), NEW x, x \notin S, \A y \in S \cup {x} : f[y] \in Nat
  PROVE  Total(f, S) \in Nat /\ Total(f, S \cup {x}) = Total(f, S) + f[x]
<1> DEFINE U == S \cup {x}
           gS == CHOOSE g : Sums(f, S, g)
           gU == CHOOSE g : Sums(f, U, g)
<1>1. IsFiniteSet(U) /\ S \in SUBSET U
  BY FS_AddElement
<1>2. Sums(f, S, gS) /\ Sums(f, U, gU)
  BY <1>1, SumsExist
<1>3. Total(f, S) = gS[S] /\ Total(f, U) = gU[U]
  BY TotalIs
<1> HIDE DEF gS, gU
<1>4. gU[S] = gS[S]
  BY <1>1, <1>2, SumsAgree
<1>5. U \ {x} = S /\ f[x] \in Nat /\ x \in U /\ U \in SUBSET U /\ \A y \in U : f[y] \in Nat
  OBVIOUS
<1> HIDE DEF U
<1>6. gU[U] = f[x] + gU[S] /\ gU[S] \in Nat
  <2>1. \A s \in SUBSET U : gU[s] \in Nat /\ \A y \in s : gU[s] = f[y] + gU[s \ {y}]
    BY <1>1, <1>2, <1>5, SumsCommute
  <2> QED
    BY <1>1, <1>5, <2>1
<1>7. Total(f, S) \in Nat /\ Total(f, U) = Total(f, S) + f[x]
  <2>1. gU[S] = Total(f, S)
    BY <1>3, <1>4
  <2>2. Total(f, U) = f[x] + Total(f, S)
    BY <1>3, <1>6, <2>1
  <2>3. Total(f, S) \in Nat
    BY <1>6, <2>1
  <2> QED
    BY <1>5, <2>2, <2>3
<1> QED
  BY <1>7 DEF U

\* Functions that agree on S have the same sum over it.
LEMMA TotalSame ==
  ASSUME NEW f1, NEW f2, NEW S, IsFiniteSet(S), \A x \in S : f1[x] = f2[x]
  PROVE  Total(f1, S) = Total(f2, S)
<1> DEFINE g1 == CHOOSE g : Sums(f1, S, g)
           g2 == CHOOSE g : Sums(f2, S, g)
<1>1. Sums(f1, S, g1) /\ Sums(f2, S, g2)
  BY SumsExist
<1>2. Total(f1, S) = g1[S] /\ Total(f2, S) = g2[S]
  BY TotalIs
<1> HIDE DEF g1, g2
<1>3. g1[S] = g2[S]
  BY <1>1, SumsAgree
<1> QED
  BY <1>2, <1>3

\* Nothing adds up to 0.
LEMMA TotalEmpty == ASSUME NEW f PROVE Total(f, {}) = 0
<1> DEFINE g1 == CHOOSE g : Sums(f, {}, g)
<1>1. Sums(f, {}, g1)
  BY SumsExist, FS_EmptySet
<1>2. Total(f, {}) = g1[{}]
  BY TotalIs
<1> HIDE DEF g1
<1> QED
  BY <1>1, <1>2 DEF Sums

\* A part is as large as its elements together, each of them at most as large.
LEMMA TotalRemoves ==
  ASSUME NEW f, NEW S, IsFiniteSet(S), NEW x \in S, \A y \in S : f[y] \in Nat
  PROVE  /\ Total(f, S) \in Nat /\ Total(f, S \ {x}) \in Nat
         /\ Total(f, S \ {x}) = Total(f, S) - f[x] /\ f[x] <= Total(f, S)
<1>1. IsFiniteSet(S \ {x}) /\ (S \ {x}) \cup {x} = S /\ x \notin S \ {x}
  BY FS_Subset
<1>2. Total(f, S \ {x}) \in Nat /\ Total(f, S) = Total(f, S \ {x}) + f[x]
  BY <1>1, TotalAdds
<1> QED
  BY <1>2

(***************************************************************************)
(* The buckets and their lists.                                            *)
(***************************************************************************)

\* GET_HASH gives a bucket, and no smaller one for a larger size.
LEMMA HashIs ==
  ASSUME HeapAssumption
  PROVE  /\ \A s \in Nat : Hash(s) \in Buckets
         /\ \A s, t \in Nat : s <= t => Hash(s) <= Hash(t)
<1> DEFINE Bits(s) == {n \in FACTOR .. BITS : 2^n <= s}
           Q == OPTIMIZE \div ROUNDTO
<1>1. /\ FACTOR \in FACTOR .. BITS /\ OPTIMIZE \in Nat /\ Q \in Nat
      /\ \A s \in Nat : s \div ROUNDTO \in Nat
      /\ \A s, t \in Nat : s <= t => s \div ROUNDTO <= t \div ROUNDTO
  <2>1. FACTOR \in FACTOR .. BITS /\ OPTIMIZE \in Nat
    BY HeapAssumption DEF HeapAssumption, OPTIMIZE
  <2>2. /\ \A s \in Nat : s \div ROUNDTO \in Nat
        /\ \A s, t \in Nat : s <= t => s \div ROUNDTO <= t \div ROUNDTO
    BY HeapAssumption DEF HeapAssumption
  <2> QED
    BY <2>1, <2>2
<1>2. ASSUME NEW s \in Nat, ~(s <= OPTIMIZE)
      PROVE  BigIndex(s) \in Bits(s) /\ \A n \in Bits(s) : n <= BigIndex(s)
  <2>1. FACTOR \in Bits(s)
    BY <1>1, <1>2 DEF OPTIMIZE
  <2> DEFINE N == {BITS - n : n \in Bits(s)}
  <2>2. N \in SUBSET Nat /\ N # {} /\ BITS \in Nat /\ Bits(s) \in SUBSET Int
    BY <2>1, HeapAssumption DEF HeapAssumption
  <2>3. Min(N) \in N /\ \A n \in N : Min(N) <= n
    BY <2>2, MinIs
  <2>4. PICK m \in Bits(s) : Min(N) = BITS - m
    BY <2>3
  <2>5. ASSUME NEW n \in Bits(s) PROVE n <= m
    <3>1. BITS - n \in N /\ BITS - m <= BITS - n
      BY <2>3, <2>4
    <3>2. n \in Int /\ m \in Int /\ BITS \in Int
      BY <2>2
    <3> QED
      BY ONLY <3>1, <3>2
  <2> QED
    BY <2>4, <2>5 DEF BigIndex, Max
<1>3. ASSUME NEW s \in Nat
      PROVE  /\ s <= OPTIMIZE => Hash(s) = s \div ROUNDTO /\ Hash(s) <= Q
             /\ ~(s <= OPTIMIZE) => Hash(s) = Q + BigIndex(s) - FACTOR + 1
  BY <1>1 DEF Hash
<1>0. /\ FACTOR \in Nat /\ BITS \in Nat /\ FACTOR <= BITS /\ Q \in Nat
      /\ Buckets = 0 .. Q + BITS - FACTOR + 1
  <2>1. FACTOR \in Nat /\ BITS \in Nat /\ FACTOR <= BITS
    BY HeapAssumption DEF HeapAssumption
  <2> QED
    BY <1>1, <2>1 DEF Buckets
<1> HIDE DEF Q
<1>4. ASSUME NEW s \in Nat PROVE Hash(s) \in Buckets
  <2>1. CASE s <= OPTIMIZE
    <3>1. Hash(s) \in Nat /\ Hash(s) <= Q
      BY <1>1, <1>3, <2>1
    <3> QED
      BY ONLY <1>0, <3>1
  <2>2. CASE ~(s <= OPTIMIZE)
    <3>1. BigIndex(s) \in FACTOR .. BITS /\ Hash(s) = Q + BigIndex(s) - FACTOR + 1
      BY <1>2, <1>3, <2>2
    <3> QED
      BY <1>0, <3>1
  <2> QED
    BY <2>1, <2>2
<1>5. ASSUME NEW s \in Nat, NEW t \in Nat, s <= t PROVE Hash(s) <= Hash(t)
  <2>1. CASE t <= OPTIMIZE
    BY <1>1, <1>3, <1>5, <2>1
  <2>2. CASE s <= OPTIMIZE /\ ~(t <= OPTIMIZE)
    <3>1. BigIndex(t) \in FACTOR .. BITS /\ Hash(t) = Q + BigIndex(t) - FACTOR + 1
      BY <1>2, <1>3, <2>2
    <3>2. Hash(s) <= Q /\ Hash(s) \in Int
      BY <1>1, <1>3, <2>2
    <3> QED
      BY <1>0, <3>1, <3>2
  <2>3. CASE ~(s <= OPTIMIZE)
    <3>1. ~(t <= OPTIMIZE)
      BY <1>1, <1>5, <2>3
    <3>2. BigIndex(s) \in FACTOR .. BITS /\ 2^BigIndex(s) <= s /\ BigIndex(t) \in FACTOR .. BITS
      BY <1>2, <2>3, <3>1
    <3>3. 2^BigIndex(s) \in Nat
      BY <3>2, HeapAssumption DEF HeapAssumption
    <3>4. BigIndex(s) \in Bits(t)
      BY <1>5, <3>2, <3>3
    <3>5. BigIndex(s) <= BigIndex(t)
      BY <1>2, <3>1, <3>4
    <3>6. Hash(s) = Q + BigIndex(s) - FACTOR + 1 /\ Hash(t) = Q + BigIndex(t) - FACTOR + 1
      BY <1>3, <2>3, <3>1
    <3> QED
      BY <1>0, <3>2, <3>5, <3>6
  <2> QED
    BY <1>1, <1>5, <2>1, <2>2, <2>3
<1> QED
  BY <1>4, <1>5

\* RoundUp gives a size that is at least what is asked for.
LEMMA RoundUpIs ==
  ASSUME HeapAssumption, NEW s \in Nat
  PROVE  RoundUp(s) \in Nat /\ RoundUp(s) >= s
<1> DEFINE q == (s + ROUNDTO - 1) \div ROUNDTO
<1>1. ROUNDTO \in Nat /\ ROUNDTO > 0
  BY HeapAssumption DEF HeapAssumption
<1>2. q \in Nat /\ s + ROUNDTO - 1 < ROUNDTO * q + ROUNDTO
  BY <1>1
<1> HIDE DEF q
<1>3. q * ROUNDTO = ROUNDTO * q /\ ROUNDTO * q \in Nat
  BY <1>1, <1>2
<1>4. s <= ROUNDTO * q
  BY <1>1, <1>2, <1>3
<1> QED
  BY <1>3, <1>4 DEF RoundUp, q

\* What RemoveAt leaves, element by element.
LEMMA RemoveAtIs ==
  ASSUME NEW s \in Seq(Nat), NEW p \in 1 .. Len(s)
  PROVE  LET r == RemoveAt(s, p) IN
         /\ r \in Seq(Nat) /\ Len(r) = Len(s) - 1
         /\ \A j \in 1 .. p - 1 : r[j] = s[j]
         /\ \A j \in p .. Len(s) - 1 : r[j] = s[j + 1]
<1> DEFINE a == SubSeq(s, 1, p - 1)
           b == SubSeq(s, p + 1, Len(s))
           r == RemoveAt(s, p)
<1>1. Len(s) \in Nat /\ p \in Nat /\ p >= 1 /\ p <= Len(s)
  OBVIOUS
<1>2. /\ a \in Seq(Nat) /\ Len(a) = p - 1 /\ \A j \in 1 .. p - 1 : a[j] = s[j]
      /\ b \in Seq(Nat) /\ Len(b) = Len(s) - p
      /\ \A j \in 1 .. Len(s) - p : b[j] = s[j + p]
  BY <1>1
<1>3. r = a \o b
  BY DEF RemoveAt
<1> HIDE DEF a, b, r
<1>4. /\ r \in Seq(Nat) /\ Len(r) = Len(a) + Len(b)
      /\ \A j \in 1 .. Len(a) + Len(b) : r[j] = IF j <= Len(a) THEN a[j] ELSE b[j - Len(a)]
  BY <1>2, <1>3, ConcatProperties
<1>5. Len(a) + Len(b) = Len(s) - 1
  BY <1>1, <1>2
<1>6. \A j \in 1 .. p - 1 : r[j] = s[j]
  <2>1. \A j \in 1 .. p - 1 : j \in 1 .. Len(s) - 1 /\ j <= Len(a)
    BY <1>1, <1>2
  <2>2. \A j \in 1 .. p - 1 : r[j] = a[j]
    BY ONLY <1>4, <1>5, <2>1
  <2> QED
    BY ONLY <1>2, <2>2
<1>7. ASSUME NEW j \in p .. Len(s) - 1 PROVE r[j] = s[j + 1]
  <2>1. j \in 1 .. Len(s) - 1 /\ ~(j <= Len(a)) /\ j - Len(a) = j - p + 1
    <3>1. Len(a) = p - 1 /\ Len(s) \in Nat /\ p \in Nat /\ p >= 1
      BY <1>1, <1>2
    <3> QED
      BY ONLY <3>1, j \in p .. Len(s) - 1
  <2>2. j - p + 1 \in 1 .. Len(s) - p /\ (j - p + 1) + p = j + 1
    BY <1>1
  <2>3. r[j] = b[j - p + 1]
    BY <1>4, <1>5, <2>1
  <2> QED
    BY <1>2, <2>2, <2>3
<1> QED
  BY <1>4, <1>5, <1>6, <1>7 DEF r

\* The part of HeapSound about the lists, and FreeFrags, for any lists.
ListsOK(f, ls) == \A h \in Buckets : Sorted(f, ls[h], h)
FreeIn(ls) == UNION {ToSet(ls[h]) : h \in Buckets}

\* A free fragment is somewhere on a list.
LEMMA FreeInIs ==
  ASSUME NEW ls, NEW x
  PROVE  x \in FreeIn(ls) <=> \E h \in Buckets : \E i \in DOMAIN ls[h] : x = ls[h][i]
  BY DEF FreeIn, ToSet

\* Putting a at p, behind those that are not larger and before those that are not smaller.
LEMMA SortedPut ==
  ASSUME NEW f, NEW h, NEW s \in Seq(Nat), NEW a \in Nat, \A x \in DOMAIN f : f[x] \in Nat,
         Sorted(f, s, h), a \in DOMAIN f, Hash(f[a]) = h, a \notin ToSet(s),
         NEW p \in 1 .. Len(s) + 1, NEW r, r = InsertAt(s, p, a),
         \A j \in 1 .. p - 1 : f[s[j]] <= f[a], p <= Len(s) => f[a] <= f[s[p]]
  PROVE  r \in Seq(Nat) /\ Sorted(f, r, h) /\ ToSet(r) = ToSet(s) \cup {a}
<1>1. /\ Len(s) \in Nat /\ DOMAIN s = 1 .. Len(s)
      /\ \A j \in 1 .. Len(s) : s[j] \in DOMAIN f /\ f[s[j]] \in Nat /\ s[j] # a /\ Hash(f[s[j]]) = h
      /\ \A j \in 1 .. Len(s) : \A k \in 1 .. j - 1 : s[k] # s[j] /\ f[s[k]] <= f[s[j]]
      /\ f[a] \in Nat
  <2>1. Len(s) \in Nat /\ DOMAIN s = 1 .. Len(s) /\ f[a] \in Nat
    OBVIOUS
  <2>2. /\ \A j \in 1 .. Len(s) : s[j] \in DOMAIN f /\ Hash(f[s[j]]) = h
        /\ \A j \in 1 .. Len(s) : \A k \in 1 .. j - 1 : s[k] # s[j] /\ f[s[k]] <= f[s[j]]
    BY <2>1 DEF Sorted
  <2>3. \A j \in 1 .. Len(s) : s[j] # a
    BY <2>1 DEF ToSet
  <2> QED
    BY <2>1, <2>2, <2>3
<1>3. /\ p \in 1 .. Len(s) + 1
      /\ \A j \in 1 .. p - 1 : f[s[j]] <= f[a]
      /\ p <= Len(s) => f[a] <= f[s[p]]
  OBVIOUS
<1>4. /\ r \in Seq(Nat) /\ Len(r) = Len(s) + 1 /\ r[p] = a
      /\ \A j \in 1 .. p - 1 : r[j] = s[j]
      /\ \A j \in p + 1 .. Len(s) + 1 : r[j] = s[j - 1]
  <2> DEFINE u == SubSeq(s, 1, p - 1)
             v == SubSeq(s, p, Len(s))
             w == u \o <<a>>
  <2>1. Len(s) \in Nat /\ p \in Nat /\ p >= 1 /\ p <= Len(s) + 1
    OBVIOUS
  <2>2. /\ u \in Seq(Nat) /\ Len(u) = p - 1 /\ \A j \in 1 .. p - 1 : u[j] = s[j]
        /\ v \in Seq(Nat) /\ Len(v) = Len(s) - p + 1
        /\ \A j \in 1 .. Len(s) - p + 1 : v[j] = s[j + p - 1]
    BY <2>1
  <2>3. r = w \o v
    BY DEF InsertAt
  <2> HIDE DEF u, v
  <2>4. <<a>> \in Seq(Nat) /\ Len(<<a>>) = 1 /\ <<a>>[1] = a
    OBVIOUS
  <2>5. /\ w \in Seq(Nat) /\ Len(w) = p
        /\ \A j \in 1 .. Len(u) + 1 : w[j] = IF j <= Len(u) THEN u[j] ELSE <<a>>[j - Len(u)]
    BY <2>1, <2>2, <2>4, ConcatProperties
  <2> HIDE DEF w
  <2>6. w[p] = a /\ \A j \in 1 .. p - 1 : w[j] = s[j]
    <3>1. p \in 1 .. Len(u) + 1 /\ ~(p <= Len(u)) /\ p - Len(u) = 1
      BY <2>1, <2>2
    <3>2. \A j \in 1 .. p - 1 : j \in 1 .. Len(u) + 1 /\ j <= Len(u)
      BY <2>1, <2>2
    <3>3. w[p] = a
      BY ONLY <2>4, <2>5, <3>1
    <3>4. \A j \in 1 .. p - 1 : w[j] = u[j]
      BY ONLY <2>5, <3>2
    <3> QED
      BY <2>2, <3>3, <3>4
  <2>7. /\ r \in Seq(Nat) /\ Len(r) = Len(w) + Len(v)
        /\ \A j \in 1 .. Len(w) + Len(v) : r[j] = IF j <= Len(w) THEN w[j] ELSE v[j - Len(w)]
    <3>1. w \in Seq(Nat) /\ v \in Seq(Nat)
      BY <2>2, <2>5
    <3> DEFINE d == w \o v
    <3>2. /\ d \in Seq(Nat) /\ Len(d) = Len(w) + Len(v)
          /\ \A j \in 1 .. Len(w) + Len(v) : d[j] = IF j <= Len(w) THEN w[j] ELSE v[j - Len(w)]
      BY <3>1, ConcatProperties
    <3> QED
      BY <2>3, <3>2
  <2>8. Len(w) + Len(v) = Len(s) + 1
    BY <2>1, <2>2, <2>5
  <2>9. \A j \in 1 .. p : r[j] = w[j]
    <3>1. \A j \in 1 .. p : j \in 1 .. Len(s) + 1 /\ j <= Len(w)
      BY <2>1, <2>5
    <3> QED
      BY <2>7, <2>8, <3>1
  <2>10. r[p] = a /\ \A j \in 1 .. p - 1 : r[j] = s[j]
    <3>1. p \in 1 .. p /\ \A j \in 1 .. p - 1 : j \in 1 .. p
      BY <2>1
    <3> QED
      BY <2>6, <2>9, <3>1
  <2>11. ASSUME NEW j \in p + 1 .. Len(s) + 1 PROVE r[j] = s[j - 1]
    <3>1. j \in 1 .. Len(s) + 1 /\ ~(j <= Len(w)) /\ j - Len(w) = j - p
      BY <2>1, <2>5
    <3>2. j - p \in 1 .. Len(s) - p + 1 /\ (j - p) + p - 1 = j - 1
      BY <2>1
    <3>3. r[j] = v[j - p]
      BY <2>7, <2>8, <3>1
    <3> QED
      BY <2>2, <3>2, <3>3
  <2> QED
    BY <2>7, <2>8, <2>10, <2>11
\* Where an element of r was in s.
<1>5. ASSUME NEW j \in 1 .. Len(r), j # p
      PROVE  \E k \in 1 .. Len(s) : r[j] = s[k] /\ k = IF j < p THEN j ELSE j - 1
  <2>1. CASE j < p
    <3>1. j \in 1 .. p - 1 /\ j \in 1 .. Len(s)
      BY <1>1, <1>3, <1>4, <2>1
    <3>2. r[j] = s[j]
      BY <1>4, <3>1
    <3> QED
      BY <2>1, <3>1, <3>2
  <2>2. CASE j > p
    <3>1. j \in p + 1 .. Len(s) + 1 /\ j - 1 \in 1 .. Len(s)
      BY <1>1, <1>3, <1>4, <2>2
    <3>2. r[j] = s[j - 1] /\ ~(j < p)
      <4>1. r[j] = s[j - 1]
        BY <1>4, <3>1
      <4>2. j \in Int /\ p \in Int
        BY <1>3, <3>1
      <4> QED
        BY ONLY <2>2, <4>1, <4>2
    <3> QED
      BY <3>1, <3>2
  <2> QED
    BY <1>3, <1>5, <2>1, <2>2
<1>6. ASSUME NEW k \in 1 .. Len(s)
      PROVE  \E j \in 1 .. Len(r) : r[j] = s[k]
  <2>1. CASE k < p
    BY <1>1, <1>3, <1>4, <2>1
  <2>2. CASE ~(k < p)
    <3>1. k + 1 \in p + 1 .. Len(s) + 1 /\ (k + 1) - 1 = k /\ k + 1 \in 1 .. Len(r)
      BY <1>1, <1>3, <1>4, <2>2
    <3> QED
      BY <1>4, <3>1
  <2> QED
    BY <2>1, <2>2
<1>7. ToSet(r) = ToSet(s) \cup {a}
  <2>1. p \in 1 .. Len(r) /\ DOMAIN r = 1 .. Len(r)
    BY <1>1, <1>3, <1>4
  <2> QED
    <3>1. ToSet(r) = {r[j] : j \in 1 .. Len(r)} /\ ToSet(s) = {s[j] : j \in 1 .. Len(s)}
      BY <1>1, <2>1 DEF ToSet
    <3>2. \A j \in 1 .. Len(r) : r[j] = a \/ \E k \in 1 .. Len(s) : r[j] = s[k]
      BY <1>4, <1>5
    <3>3. \E j \in 1 .. Len(r) : r[j] = a
      BY <1>4, <2>1
    <3>4. \A x \in ToSet(r) : x = a \/ x \in ToSet(s)
      BY <3>1, <3>2
    <3>5. \A x \in ToSet(s) : x \in ToSet(r)
      BY <1>6, <3>1
    <3>6. a \in ToSet(r)
      BY <3>1, <3>3
    <3> QED
      BY ONLY <3>4, <3>5, <3>6
<1>8. ASSUME NEW j \in 1 .. Len(r)
      PROVE  r[j] \in DOMAIN f /\ Hash(f[r[j]]) = h
  <2>1. CASE j = p
    BY <1>4, <2>1
  <2>2. CASE j # p
    BY <1>1, <1>5, <2>2
  <2> QED
    BY <2>1, <2>2
<1>9. ASSUME NEW j \in 1 .. Len(r), NEW k \in 1 .. j - 1
      PROVE  r[k] # r[j] /\ f[r[k]] <= f[r[j]]
  <2>0. k \in 1 .. Len(r) /\ k < j /\ j \in Int /\ p \in Int
    BY <1>1, <1>3, <1>4
  <2>1. CASE j = p
    BY <1>1, <1>3, <1>4, <2>0, <2>1
  <2>2. CASE k = p
    <3>1. PICK m \in 1 .. Len(s) : r[j] = s[m] /\ m = j - 1
      <4>1. j # p /\ ~(j < p)
        BY <2>0, <2>2
      <4> QED
        BY <1>5, <4>1
    <3>2. m = p \/ p \in 1 .. m - 1
      BY <2>0, <2>2, <3>1, <1>3
    <3>3. p \in 1 .. Len(s) /\ f[a] <= f[s[p]] /\ f[s[p]] <= f[s[m]] /\ s[m] # a
      BY <1>1, <1>3, <3>1, <3>2
    <3>4. f[a] <= f[s[m]]
      BY <1>1, <3>3
    <3> QED
      BY <1>4, <2>2, <3>1, <3>3, <3>4
  <2>3. CASE j # p /\ k # p
    <3>1. PICK m \in 1 .. Len(s) : r[j] = s[m] /\ m = IF j < p THEN j ELSE j - 1
      BY <1>5, <2>3
    <3>2. PICK n \in 1 .. Len(s) : r[k] = s[n] /\ n = IF k < p THEN k ELSE k - 1
      BY <1>5, <2>0, <2>3
    <3>3. n \in 1 .. m - 1
      BY <2>0, <2>3, <3>1, <3>2
    <3> QED
      BY <1>1, <3>1, <3>2, <3>3
  <2> QED
    BY <2>1, <2>2, <2>3
<1>10. Sorted(f, r, h)
  <2>1. DOMAIN r = 1 .. Len(r)
    BY <1>4
  <2> QED
    BY <1>8, <1>9, <2>1 DEF Sorted
<1> QED
  BY <1>4, <1>7, <1>10

\* qm_insert_free keeps a list in order.
LEMMA SortedInsert ==
  ASSUME NEW f, NEW h, NEW s \in Seq(Nat), NEW a \in Nat, \A x \in DOMAIN f : f[x] \in Nat,
         Sorted(f, s, h), a \in DOMAIN f, Hash(f[a]) = h, a \notin ToSet(s)
  PROVE  LET r == InsertAt(s, Place(f, s, a), a)
         IN r \in Seq(Nat) /\ Sorted(f, r, h) /\ ToSet(r) = ToSet(s) \cup {a}
<1> DEFINE i == SelectInSeq(s, LAMBDA b : f[a] <= f[b])
           p == Place(f, s, a)
           r == InsertAt(s, p, a)
           I == {j \in 1 .. Len(s) : f[a] <= f[s[j]]}
<1>1. /\ Len(s) \in Nat /\ DOMAIN s = 1 .. Len(s)
      /\ \A j \in 1 .. Len(s) : s[j] \in DOMAIN f /\ f[s[j]] \in Nat /\ s[j] # a /\ Hash(f[s[j]]) = h
      /\ \A j \in 1 .. Len(s) : \A k \in 1 .. j - 1 : s[k] # s[j] /\ f[s[k]] <= f[s[j]]
      /\ f[a] \in Nat
  <2>1. Len(s) \in Nat /\ DOMAIN s = 1 .. Len(s) /\ f[a] \in Nat
    OBVIOUS
  <2>2. /\ \A j \in 1 .. Len(s) : s[j] \in DOMAIN f /\ Hash(f[s[j]]) = h
        /\ \A j \in 1 .. Len(s) : \A k \in 1 .. j - 1 : s[k] # s[j] /\ f[s[k]] <= f[s[j]]
    BY <2>1 DEF Sorted
  <2>3. \A j \in 1 .. Len(s) : s[j] # a
    BY <2>1 DEF ToSet
  <2> QED
    BY <2>1, <2>2, <2>3
<1>2. i = IF I # {} THEN Min(I) ELSE 0
  BY DEF SelectInSeq
<1>4. p = IF i = 0 THEN Len(s) + 1 ELSE i
  BY DEF Place
<1> HIDE DEF p
<1>3. /\ p \in 1 .. Len(s) + 1
      /\ \A j \in 1 .. p - 1 : f[s[j]] <= f[a]
      /\ p <= Len(s) => f[a] <= f[s[p]]
  <2>1. CASE I = {}
    <3>1. p = Len(s) + 1
      BY <1>2, <1>4, <2>1
    <3>2. \A j \in 1 .. Len(s) : f[s[j]] <= f[a]
      BY <1>1, <2>1
    <3> HIDE DEF I
    <3>3. /\ p \in 1 .. Len(s) + 1 /\ ~(p <= Len(s))
          /\ \A j \in 1 .. p - 1 : j \in 1 .. Len(s)
      BY <1>1, <3>1
    <3> QED
      BY <3>2, <3>3
  <2>2. CASE I # {}
    <3>1. I \in SUBSET Nat
      OBVIOUS
    <3>2. Min(I) \in I /\ \A j \in I : Min(I) <= j
      BY <2>2, <3>1, MinIs
    <3>3. p = Min(I)
      BY <1>2, <1>4, <2>2, <3>2
    <3>4. p \in 1 .. Len(s) /\ f[a] <= f[s[p]] /\ \A j \in I : p <= j
      BY <3>2, <3>3
    <3>5. ASSUME NEW j \in 1 .. p - 1 PROVE f[s[j]] <= f[a]
      <4>1. j \in 1 .. Len(s) /\ ~(p <= j)
        BY <1>1, <3>4
      <4>2. ~(f[a] <= f[s[j]])
        BY <3>4, <4>1
      <4> QED
        BY <1>1, <4>1, <4>2
    <3> QED
      BY <1>1, <3>4, <3>5
  <2> QED
    BY <2>1, <2>2
<1> HIDE DEF I
<1> QED
  BY <1>3, SortedPut DEF p

\* qm_detach_free keeps a list in order.
LEMMA SortedRemove ==
  ASSUME NEW f, NEW h, NEW s \in Seq(Nat), NEW p \in 1 .. Len(s), Sorted(f, s, h)
  PROVE  LET r == RemoveAt(s, p)
         IN r \in Seq(Nat) /\ Sorted(f, r, h) /\ ToSet(r) = ToSet(s) \ {s[p]}
<1> DEFINE r == RemoveAt(s, p)
<1>1. /\ Len(s) \in Nat /\ DOMAIN s = 1 .. Len(s) /\ p \in Nat /\ 1 <= p /\ p <= Len(s)
      /\ \A j \in 1 .. Len(s) : s[j] \in DOMAIN f /\ Hash(f[s[j]]) = h
      /\ \A j \in 1 .. Len(s) : \A k \in 1 .. j - 1 : s[k] # s[j] /\ f[s[k]] <= f[s[j]]
  BY DEF Sorted
<1>2. /\ r \in Seq(Nat) /\ Len(r) = Len(s) - 1
      /\ \A j \in 1 .. p - 1 : r[j] = s[j]
      /\ \A j \in p .. Len(s) - 1 : r[j] = s[j + 1]
  BY RemoveAtIs
<1> HIDE DEF r
<1>3. ASSUME NEW j \in 1 .. Len(r)
      PROVE  \E k \in 1 .. Len(s) : r[j] = s[k] /\ k = IF j < p THEN j ELSE j + 1
  <2>1. CASE j < p
    <3>1. j \in 1 .. p - 1 /\ j \in 1 .. Len(s)
      BY <1>1, <1>2, <2>1
    <3> QED
      BY <1>2, <2>1, <3>1
  <2>2. CASE ~(j < p)
    <3>1. j \in p .. Len(s) - 1 /\ j + 1 \in 1 .. Len(s)
      BY <1>1, <1>2, <2>2
    <3> QED
      BY <1>2, <2>2, <3>1
  <2> QED
    BY <2>1, <2>2
<1>4. ASSUME NEW k \in 1 .. Len(s), k # p
      PROVE  \E j \in 1 .. Len(r) : r[j] = s[k]
  <2>1. CASE k < p
    <3>1. k \in 1 .. p - 1 /\ k \in 1 .. Len(r)
      BY <1>1, <1>2, <2>1
    <3> QED
      BY <1>2, <3>1
  <2>2. CASE k > p
    <3>1. k - 1 \in p .. Len(s) - 1 /\ (k - 1) + 1 = k /\ k - 1 \in 1 .. Len(r)
      BY <1>1, <1>2, <2>2
    <3> QED
      BY <1>2, <3>1
  <2> QED
    BY <1>1, <1>4, <2>1, <2>2
<1>5. \A j \in 1 .. Len(s) : s[j] = s[p] => j = p
  BY <1>1
<1>6. ToSet(r) = ToSet(s) \ {s[p]}
  <2>1. DOMAIN r = 1 .. Len(r)
    BY <1>2
  <2>2. \A j \in 1 .. Len(r) : \E k \in 1 .. Len(s) : r[j] = s[k] /\ k # p
    BY <1>1, <1>3
  <2>3. \A j \in 1 .. Len(r) : r[j] \in ToSet(s) \ {s[p]}
    <3>1. ToSet(s) = {s[k] : k \in 1 .. Len(s)}
      BY <1>1 DEF ToSet
    <3> QED
      BY ONLY <1>5, <2>2, <3>1
  <2>4. \A x \in ToSet(s) \ {s[p]} : \E j \in 1 .. Len(r) : r[j] = x
    <3>1. ToSet(s) = {s[k] : k \in 1 .. Len(s)}
      BY <1>1 DEF ToSet
    <3> QED
      BY ONLY <1>4, <3>1
  <2>5. ToSet(r) = {r[j] : j \in 1 .. Len(r)}
    BY <2>1 DEF ToSet
  <2>6. \A x \in ToSet(r) : x \in ToSet(s) \ {s[p]}
    BY ONLY <2>3, <2>5
  <2>7. \A x \in ToSet(s) \ {s[p]} : x \in ToSet(r)
    BY ONLY <2>4, <2>5
  <2> QED
    BY ONLY <2>6, <2>7
<1>7. ASSUME NEW j \in 1 .. Len(r), NEW k \in 1 .. j - 1
      PROVE  r[k] # r[j] /\ f[r[k]] <= f[r[j]]
  <2>0. k \in 1 .. Len(r) /\ k < j /\ j \in Int /\ p \in Int
    <3>1. Len(r) \in Nat /\ p \in Int
      BY <1>1, <1>2
    <3> QED
      BY ONLY <3>1, j \in 1 .. Len(r), k \in 1 .. j - 1
  <2>1. PICK m \in 1 .. Len(s) : r[j] = s[m] /\ m = IF j < p THEN j ELSE j + 1
    BY <1>3
  <2>2. PICK n \in 1 .. Len(s) : r[k] = s[n] /\ n = IF k < p THEN k ELSE k + 1
    BY <1>3, <2>0
  <2>3. n \in 1 .. m - 1
    <3>1. n >= 1 /\ n \in Int /\ m \in Int /\ j \in Int /\ k \in Int
      BY <2>0
    <3> QED
      BY ONLY <2>0, <2>1, <2>2, <3>1
  <2> QED
    BY <1>1, <2>1, <2>2, <2>3
<1>8. Sorted(f, r, h)
  <2>1. DOMAIN r = 1 .. Len(r)
    BY <1>2
  <2>2. \A j \in 1 .. Len(r) : r[j] \in DOMAIN f /\ Hash(f[r[j]]) = h
    BY <1>1, <1>3
  <2> QED
    BY <1>7, <2>1, <2>2 DEF Sorted
<1> QED
  BY <1>2, <1>6, <1>8 DEF r

\* qm_insert_free puts a fragment that is on no list on that of its bucket.
LEMMA ListsInsert ==
  ASSUME HeapAssumption, NEW f, NEW ls \in [Buckets -> Seq(Nat)], NEW a \in Nat,
         \A x \in DOMAIN f : f[x] \in Nat, ListsOK(f, ls), a \in DOMAIN f, a \notin FreeIn(ls)
  PROVE  /\ Inserted(f, ls, a) \in [Buckets -> Seq(Nat)] /\ ListsOK(f, Inserted(f, ls, a))
         /\ FreeIn(Inserted(f, ls, a)) = FreeIn(ls) \cup {a}
<1> DEFINE h == Hash(f[a])
           new == InsertAt(ls[h], Place(f, ls[h], a), a)
           r == Inserted(f, ls, a)
<1>1. h \in Buckets
  BY HashIs
<1>2. r = [ls EXCEPT ![h] = new]
  BY DEF Inserted
<1>3. ls[h] \in Seq(Nat) /\ Sorted(f, ls[h], h) /\ a \notin ToSet(ls[h])
  BY <1>1 DEF ListsOK, FreeIn
<1>4. new \in Seq(Nat) /\ Sorted(f, new, h) /\ ToSet(new) = ToSet(ls[h]) \cup {a}
  <2>1. PICK s : s = ls[h]
    OBVIOUS
  <2>2. s \in Seq(Nat) /\ Sorted(f, s, h) /\ a \notin ToSet(s) /\ Hash(f[a]) = h
    BY <1>3, <2>1
  <2> HIDE DEF h
  <2>3. /\ InsertAt(s, Place(f, s, a), a) \in Seq(Nat)
        /\ Sorted(f, InsertAt(s, Place(f, s, a), a), h)
        /\ ToSet(InsertAt(s, Place(f, s, a), a)) = ToSet(s) \cup {a}
    BY <2>2, SortedInsert
  <2> QED
    BY ONLY <2>1, <2>3
<1> HIDE DEF h, new, r
<1>5. r \in [Buckets -> Seq(Nat)] /\ r[h] = new /\ \A k \in Buckets : k # h => r[k] = ls[k]
  <2>1. new \in Seq(Nat)
    BY <1>4
  <2> QED
    BY ONLY <1>1, <1>2, <2>1, ls \in [Buckets -> Seq(Nat)]
<1>6. ListsOK(f, r)
  <2>1. \A k \in Buckets : Sorted(f, ls[k], k)
    BY DEF ListsOK
  <2>2. \A k \in Buckets : Sorted(f, r[k], k)
    BY ONLY <1>4, <1>5, <2>1
  <2> QED
    BY <2>2 DEF ListsOK
<1>7. FreeIn(r) = FreeIn(ls) \cup {a}
  <2>1. \A k \in Buckets : ToSet(r[k]) = IF k = h THEN ToSet(ls[k]) \cup {a} ELSE ToSet(ls[k])
    BY ONLY <1>4, <1>5
  <2>2. FreeIn(r) = UNION {ToSet(r[k]) : k \in Buckets} /\ FreeIn(ls) = UNION {ToSet(ls[k]) : k \in Buckets}
    BY DEF FreeIn
  <2>3. ASSUME NEW x \in FreeIn(r) PROVE x \in FreeIn(ls) \cup {a}
    <3>1. PICK k \in Buckets : x \in ToSet(r[k])
      BY <2>2
    <3>2. x \in ToSet(ls[k]) \/ x = a
      BY ONLY <2>1, <3>1
    <3> QED
      BY ONLY <2>2, <3>2, k \in Buckets
  <2>4. ASSUME NEW x \in FreeIn(ls) PROVE x \in FreeIn(r)
    <3>1. PICK k \in Buckets : x \in ToSet(ls[k])
      BY <2>2
    <3>2. x \in ToSet(r[k])
      BY ONLY <2>1, <3>1
    <3> QED
      BY ONLY <2>2, <3>2, k \in Buckets
  <2>5. a \in FreeIn(r)
    <3>1. a \in ToSet(r[h])
      BY <1>1, <2>1
    <3> QED
      BY ONLY <1>1, <2>2, <3>1
  <2> QED
    BY ONLY <2>3, <2>4, <2>5
<1> QED
  BY <1>5, <1>6, <1>7 DEF r

\* qm_detach_free takes a fragment off its list; no other list has it.
LEMMA ListsRemove ==
  ASSUME NEW f, NEW ls \in [Buckets -> Seq(Nat)], ListsOK(f, ls),
         NEW h \in Buckets, NEW p \in 1 .. Len(ls[h]),
         NEW r, r = Detached(ls, h, p)
  PROVE  /\ r \in [Buckets -> Seq(Nat)] /\ ListsOK(f, r) /\ ls[h][p] \in FreeIn(ls)
         /\ FreeIn(r) = FreeIn(ls) \ {ls[h][p]}
<1> DEFINE new == RemoveAt(ls[h], p)
<1>1. ls[h] \in Seq(Nat) /\ Sorted(f, ls[h], h)
  BY DEF ListsOK
<1>2. new \in Seq(Nat) /\ Sorted(f, new, h) /\ ToSet(new) = ToSet(ls[h]) \ {ls[h][p]}
  BY <1>1, SortedRemove
<1> HIDE DEF new
<1>3. r \in [Buckets -> Seq(Nat)] /\ r[h] = new /\ \A k \in Buckets : k # h => r[k] = ls[k]
  BY <1>2 DEF new, Detached
<1>4. ListsOK(f, r)
  BY <1>2, <1>3 DEF ListsOK
<1>5. ls[h][p] \in ToSet(ls[h])
  BY <1>1 DEF ToSet
<1>6. \A k \in Buckets : k # h => ls[h][p] \notin ToSet(ls[k])
  <2>1. \A k \in Buckets : \A x \in ToSet(ls[k]) : Hash(f[x]) = k
    BY DEF ListsOK, Sorted, ToSet
  <2> QED
    BY <1>5, <2>1
<1>7. \A k \in Buckets : ToSet(r[k]) = ToSet(ls[k]) \ {ls[h][p]}
  BY <1>2, <1>3, <1>6
<1> QED
  BY <1>3, <1>4, <1>5, <1>7 DEF FreeIn

\* The lists stay in order while the fragments on them keep their size.
LEMMA ListsSame ==
  ASSUME NEW f1, NEW f2, NEW ls, ListsOK(f1, ls), \A h \in Buckets : ls[h] \in Seq(Nat),
         \A x \in FreeIn(ls) : x \in DOMAIN f2 /\ f2[x] = f1[x]
  PROVE  ListsOK(f2, ls)
<1> SUFFICES ASSUME NEW h \in Buckets, NEW i \in DOMAIN ls[h]
             PROVE  /\ ls[h][i] \in DOMAIN f2 /\ Hash(f2[ls[h][i]]) = h
                    /\ \A j \in 1 .. i - 1 : ls[h][j] # ls[h][i] /\ f2[ls[h][j]] <= f2[ls[h][i]]
  BY DEF ListsOK, Sorted
<1>1. \A j \in DOMAIN ls[h] : ls[h][j] \in DOMAIN f2 /\ f2[ls[h][j]] = f1[ls[h][j]]
  BY FreeInIs
<1>2. \A j \in 1 .. i - 1 : j \in DOMAIN ls[h]
  <2>1. ls[h] \in Seq(Nat) /\ DOMAIN ls[h] = 1 .. Len(ls[h]) /\ Len(ls[h]) \in Nat
    OBVIOUS
  <2> QED
    BY <2>1
<1>3. /\ Hash(f1[ls[h][i]]) = h
      /\ \A j \in 1 .. i - 1 : ls[h][j] # ls[h][i] /\ f1[ls[h][j]] <= f1[ls[h][i]]
  BY DEF ListsOK, Sorted
<1> QED
  BY <1>1, <1>2, <1>3

(***************************************************************************)
(* The invariant: fragments do not overlap, with their headers.            *)
(***************************************************************************)

\* The types: sizes are never negative, and every bucket has a list of addresses.
HeapTypeOK ==
  /\ DOMAIN frags \in SUBSET Nat /\ IsFiniteSet(DOMAIN frags) /\ frags \in [DOMAIN frags -> Nat]
  /\ lists \in [Buckets -> Seq(Nat)]
  /\ qm_used \in Nat /\ qm_real_used \in Int
  /\ outcome \in [size : Nat, got : Nat \cup {NoFrag}]

\* A fragment and its header end before the next one begins.
FragsApart == \A a, b \in DOMAIN frags : a < b => a + frags[a] + OVERHEAD <= b

\* The inductive invariant. Tiled alone would not do: an address that split_frag makes
\* must be that of no fragment yet.
HeapIInv == HeapTypeOK /\ FragsApart /\ HeapSound

\* The lists have fragments only, so there are finitely many free ones.
LEMMA FreeIs ==
  ASSUME HeapTypeOK, HeapSound
  PROVE  /\ ListsOK(frags, lists) /\ FreeFrags = FreeIn(lists)
         /\ FreeFrags \in SUBSET DOMAIN frags /\ IsFiniteSet(FreeFrags)
         /\ \A a \in DOMAIN frags : a \in Nat /\ frags[a] \in Nat
<1>1. ListsOK(frags, lists)
  BY DEF HeapSound, ListsOK
<1>2. FreeFrags = FreeIn(lists)
  BY DEF FreeFrags, FreeIn
<1>3. \A x \in FreeIn(lists) : x \in DOMAIN frags
  BY <1>1 DEF ListsOK, Sorted, FreeIn, ToSet
<1>4. \A a \in DOMAIN frags : a \in Nat /\ frags[a] \in Nat
  BY DEF HeapTypeOK
<1>5. IsFiniteSet(FreeIn(lists))
  BY <1>3, FS_Subset DEF HeapTypeOK
<1> QED
  BY <1>1, <1>2, <1>3, <1>4, <1>5

\* qm_find_free stops at a free fragment that is large enough.
LEMMA FoundPlace ==
  ASSUME HeapAssumption, HeapTypeOK, NEW size \in Nat, BucketsFrom(size) # {}
  PROVE  /\ FindBucket(size) \in Buckets
         /\ FindPlace(size) \in 1 .. Len(lists[FindBucket(size)])
         /\ frags[lists[FindBucket(size)][FindPlace(size)]] >= size
<1> DEFINE h == FindBucket(size)
           I == {i \in 1 .. Len(lists[h]) : frags[lists[h][i]] >= size}
<1>1. BucketsFrom(size) \in SUBSET Nat
  BY DEF BucketsFrom, Buckets
<1>2. h \in BucketsFrom(size)
  BY <1>1, MinIs DEF FindBucket
<1>3. h \in Buckets /\ \E i \in DOMAIN lists[h] : frags[lists[h][i]] >= size
  BY <1>2 DEF BucketsFrom
<1> HIDE DEF h
<1>4. lists[h] \in Seq(Nat)
  BY <1>3 DEF HeapTypeOK
<1>5. I \in SUBSET Nat /\ I # {}
  BY <1>3, <1>4
<1>6. FindPlace(size) = Min(I)
  BY <1>5 DEF FindPlace, SelectInSeq, h
<1> HIDE DEF I
<1>7. FindPlace(size) \in I
  BY <1>5, <1>6, MinIs
<1> QED
  BY <1>3, <1>7 DEF I, h

\* It finds one whenever there is one.
LEMMA FoundIfFits ==
  ASSUME HeapAssumption, HeapTypeOK, HeapSound, NEW size \in Nat, Fails(size)
  PROVE  \A a \in FreeFrags : frags[a] < size
<1> SUFFICES ASSUME NEW a \in FreeFrags, ~(frags[a] < size) PROVE FALSE
  OBVIOUS
<1>1. a \in DOMAIN frags /\ frags[a] \in Nat /\ frags[a] >= size
  BY FreeIs
<1>2. frags[a] <= Total(frags, FreeFrags) /\ Total(frags, FreeFrags) \in Nat
  BY FreeIs, TotalRemoves
<1>3. ~(size > HeapSize - qm_real_used)
  BY <1>1, <1>2 DEF HeapSound, Counted
<1>4. PICK h \in Buckets : \E i \in DOMAIN lists[h] : a = lists[h][i]
  BY FreeIs, FreeInIs
<1>5. Hash(frags[a]) = h
  BY <1>4 DEF HeapSound, Sorted
<1>6. Hash(size) <= h
  BY <1>1, <1>5, HashIs
<1>7. Hash(size) \in Buckets /\ \A x, y \in Buckets : x <= y => y >= x
  BY HashIs DEF Buckets
<1>8. h \in BucketsFrom(size)
  BY <1>1, <1>4, <1>6, <1>7 DEF BucketsFrom
<1> QED
  BY <1>3, <1>8 DEF Fails

\* qm_malloc_init: the only free fragment is on the list of its bucket.
LEMMA FreeInit ==
  ASSUME HeapAssumption, HeapInit
  PROVE  /\ \A h \in Buckets : Sorted(frags, lists[h], h)
         /\ FreeFrags = {0} /\ lists \in [Buckets -> Seq(Nat)]
<1>1. Hash(HeapSize) \in Buckets
  BY HashIs, HeapAssumption DEF HeapAssumption
<1>2. ASSUME NEW h \in Buckets
      PROVE  lists[h] = IF h = Hash(HeapSize) THEN <<0>> ELSE <<>>
  BY DEF HeapInit
<1>3. frags = [a \in {0} |-> HeapSize]
  BY DEF HeapInit
<1>4. ASSUME NEW h \in Buckets PROVE Sorted(frags, lists[h], h)
  <2>1. CASE h = Hash(HeapSize)
    <3>1. lists[h] = <<0>>
      BY <1>2, <2>1
    <3>2. ASSUME NEW i \in DOMAIN lists[h]
          PROVE  lists[h][i] = 0 /\ 1 .. i - 1 = {}
      BY <3>1
    <3> QED
      BY <1>3, <2>1, <3>2 DEF Sorted
  <2>2. CASE h # Hash(HeapSize)
    <3>1. DOMAIN lists[h] = {}
      BY <1>2, <2>2
    <3> QED
      BY <3>1 DEF Sorted
  <2> QED
    BY <2>1, <2>2
<1>5. FreeFrags = {0}
  <2>1. ToSet(lists[Hash(HeapSize)]) = {0}
    BY <1>1, <1>2 DEF ToSet
  <2>2. \A h \in Buckets : h # Hash(HeapSize) => ToSet(lists[h]) = {}
    BY <1>2 DEF ToSet
  <2> QED
    BY <1>1, <2>1, <2>2 DEF FreeFrags
<1>6. lists \in [Buckets -> Seq(Nat)]
  BY DEF HeapInit
<1> QED
  BY <1>4, <1>5, <1>6

\* qm_malloc_init establishes the invariant.
LEMMA HeapStart == ASSUME HeapAssumption, HeapInit PROVE HeapIInv /\ ServedIfFits
<1>1. /\ frags = [a \in {0} |-> HeapSize] /\ HeapSize \in Nat /\ qm_used = 0 /\ qm_real_used = 0
      /\ outcome = [size |-> 0, got |-> NoFrag] /\ OVERHEAD \in Nat
  BY HeapAssumption DEF HeapAssumption, HeapInit, NoRequest
<1>2. DOMAIN frags = {0} /\ frags[0] = HeapSize /\ frags \in [{0} -> Nat]
  BY <1>1
<1>3. IsFiniteSet({0}) /\ Cardinality({0}) = 1
  BY FS_Singleton
<1>4. HeapTypeOK
  BY <1>1, <1>2, <1>3, FreeInit DEF HeapTypeOK
<1>5. FragsApart
  BY <1>2 DEF FragsApart
<1>6. Total(frags, {0}) = HeapSize /\ Total(frags, {}) = 0
  <2>1. IsFiniteSet({}) /\ 0 \notin {} /\ {} \cup {0} = {0} /\ \A y \in {} \cup {0} : frags[y] \in Nat
    BY <1>1, <1>2, FS_EmptySet
  <2>2. Total(frags, {0}) = Total(frags, {}) + frags[0]
    BY <2>1, TotalAdds
  <2> QED
    BY <1>1, <1>2, <2>2, TotalEmpty
<1>7. Tiled
  BY <1>1, <1>2, <1>3, <1>6 DEF Tiled
<1>8. Counted
  <2>1. DOMAIN frags \ FreeFrags = {} /\ FreeFrags = {0}
    BY <1>2, FreeInit
  <2>2. qm_used = 0 /\ HeapSize - qm_real_used = HeapSize
    BY <1>1
  <2> QED
    BY <1>6, <2>1, <2>2 DEF Counted
<1>9. ServedIfFits
  BY <1>1 DEF ServedIfFits, NoRequest
<1> QED
  BY <1>4, <1>5, <1>7, <1>8, <1>9, FreeInit DEF HeapIInv, HeapSound

\* What Malloc has in hand when it has taken a fragment off its list.
LEMMA Taken ==
  ASSUME HeapAssumption, HeapIInv, NEW s \in Sizes, Malloc(s),
         NEW size, size = RoundUp(s), NEW h, h = FindBucket(size),
         NEW a, a = lists[h][FindPlace(size)],
         NEW others, others = Detached(lists, h, FindPlace(size))
  PROVE  /\ size \in Nat /\ a \in FreeFrags /\ a \in Nat /\ frags[a] \in Nat /\ size <= frags[a]
         /\ others \in [Buckets -> Seq(Nat)] /\ ListsOK(frags, others)
         /\ FreeIn(others) = FreeFrags \ {a}
<1>1. size \in Nat
  BY RoundUpIs, HeapAssumption DEF HeapAssumption
<1>2. BucketsFrom(size) # {}
  BY DEF Malloc, Fails
<1>3. h \in Buckets /\ FindPlace(size) \in 1 .. Len(lists[h]) /\ frags[a] >= size
  BY <1>1, <1>2, FoundPlace DEF HeapIInv
<1>4. ListsOK(frags, lists) /\ FreeFrags = FreeIn(lists) /\ lists \in [Buckets -> Seq(Nat)]
  BY FreeIs DEF HeapIInv, HeapTypeOK
<1>5. /\ others \in [Buckets -> Seq(Nat)] /\ ListsOK(frags, others) /\ a \in FreeIn(lists)
      /\ FreeIn(others) = FreeIn(lists) \ {a}
  BY <1>3, <1>4, ListsRemove
<1>6. a \in Nat /\ frags[a] \in Nat
  BY <1>4, <1>5, FreeIs DEF HeapIInv
<1> QED
  BY <1>1, <1>3, <1>4, <1>5, <1>6

\* A fragment is given away whole.
LEMMA WholeStep ==
  ASSUME HeapAssumption, HeapIInv, NEW a \in FreeFrags, NEW size \in Nat, size <= frags[a],
         frags' = frags, lists' \in [Buckets -> Seq(Nat)], ListsOK(frags, lists'),
         FreeIn(lists') = FreeFrags \ {a},
         qm_real_used' = qm_real_used + frags[a], qm_used' = qm_used + frags[a],
         outcome' = [size |-> size, got |-> a]
  PROVE  HeapIInv' /\ ServedIfFits'
<1> DEFINE D == DOMAIN frags
           F == FreeFrags
<1>1. /\ F \in SUBSET D /\ IsFiniteSet(F) /\ IsFiniteSet(D) /\ a \in D
      /\ \A x \in D : x \in Nat /\ frags[x] \in Nat
  BY FreeIs DEF HeapIInv, HeapTypeOK
<1>2. FreeFrags' = F \ {a} /\ D \ FreeFrags' = (D \ F) \cup {a} /\ a \notin D \ F
  BY <1>1 DEF FreeIn, FreeFrags
<1>3. IsFiniteSet(D \ F)
  BY <1>1, FS_Subset
<1>4. Total(frags, F \ {a}) = Total(frags, F) - frags[a] /\ Total(frags, F) \in Nat
  BY <1>1, TotalRemoves
<1>5. /\ Total(frags, D \ F) \in Nat
      /\ Total(frags, (D \ F) \cup {a}) = Total(frags, D \ F) + frags[a]
  BY <1>1, <1>2, <1>3, TotalAdds
<1>6. HeapTypeOK'
  <2>1. qm_used' \in Nat /\ qm_real_used' \in Int /\ outcome' \in [size : Nat, got : Nat \cup {NoFrag}]
    BY <1>1 DEF HeapIInv, HeapTypeOK
  <2> QED
    BY <2>1 DEF HeapIInv, HeapTypeOK
<1>7. Tiled' /\ FragsApart'
  BY DEF HeapIInv, HeapSound, Tiled, FragsApart
<1>8. Counted'
  <2>1. /\ qm_used = Total(frags, D \ F) /\ HeapSize - qm_real_used = Total(frags, F)
        /\ frags[a] \in Nat /\ qm_real_used \in Int /\ HeapSize \in Nat
    BY <1>1, HeapAssumption DEF HeapIInv, HeapSound, Counted, HeapTypeOK, HeapAssumption
  <2>2. qm_used' = Total(frags, D \ FreeFrags')
    BY <1>2, <1>5, <2>1
  <2>3. HeapSize - qm_real_used' = Total(frags, FreeFrags')
    <3>1. HeapSize - (qm_real_used + frags[a]) = (HeapSize - qm_real_used) - frags[a]
      BY <2>1
    <3> QED
      BY <1>2, <1>4, <2>1, <3>1
  <2> QED
    BY <2>2, <2>3 DEF Counted
<1>9. \A x \in Buckets : Sorted(frags', lists'[x], x)
  BY DEF ListsOK
<1>10. ServedIfFits'
  <2>1. a # NoFrag
    BY <1>1, HeapAssumption DEF HeapAssumption
  <2>2. a \notin FreeFrags' /\ frags'[a] >= size
    BY <1>1, <1>2
  <2> QED
    BY <2>1, <2>2 DEF ServedIfFits
<1> QED
  BY <1>6, <1>7, <1>8, <1>9, <1>10 DEF HeapIInv, HeapSound

\* The rest of a fragment becomes one of its own (split_frag).
LEMMA SplitStep ==
  ASSUME HeapAssumption, HeapIInv, NEW a \in FreeFrags, NEW size \in Nat, size <= frags[a],
         IsSplit(frags[a] - size, size), NEW n, n = a + size + OVERHEAD,
         NEW others \in [Buckets -> Seq(Nat)], ListsOK(frags, others),
         FreeIn(others) = FreeFrags \ {a},
         frags' = [x \in DOMAIN frags \cup {n} |->
                     CASE x = a -> size [] x = n -> frags[a] - size - OVERHEAD [] OTHER -> frags[x]],
         lists' = Inserted(frags', others, n),
         qm_real_used' = qm_real_used + size + OVERHEAD, qm_used' = qm_used + frags'[a],
         outcome' = [size |-> size, got |-> a]
  PROVE  HeapIInv' /\ ServedIfFits'
<1> DEFINE D == DOMAIN frags
           F == FreeFrags
<1>1. /\ F \in SUBSET D /\ IsFiniteSet(F) /\ IsFiniteSet(D) /\ a \in D
      /\ \A x \in D : x \in Nat /\ frags[x] \in Nat
      /\ OVERHEAD \in Nat /\ OVERHEAD > 0 /\ HeapSize \in Nat /\ NoFrag \notin Nat
  <2>1. OVERHEAD \in Nat /\ OVERHEAD > 0 /\ HeapSize \in Nat /\ NoFrag \notin Nat
    BY HeapAssumption DEF HeapAssumption
  <2>2. IsFiniteSet(D)
    BY DEF HeapIInv, HeapTypeOK
  <2> QED
    BY <2>1, <2>2, FreeIs DEF HeapIInv
<1>2. PICK rest : rest = frags[a] - size - OVERHEAD
  OBVIOUS
<1>3. rest \in Nat /\ frags[a] = size + OVERHEAD + rest /\ n \in Nat /\ a \in Nat /\ frags[a] \in Nat
  <2>1. OPTIMIZE \in Nat
    BY HeapAssumption DEF HeapAssumption, OPTIMIZE
  <2>2. frags[a] - size >= OVERHEAD
    BY <1>1, <2>1 DEF IsSplit
  <2> QED
    BY <1>1, <1>2, <2>2
<1>4. ASSUME NEW b \in D, b # a
      PROVE  (b < a /\ b + frags[b] + OVERHEAD <= a) \/ (b > a /\ a + frags[a] + OVERHEAD <= b)
  <2>1. b \in Nat /\ a \in Nat
    BY <1>1
  <2>2. \A x, y \in D : x < y => x + frags[x] + OVERHEAD <= y
    BY DEF HeapIInv, FragsApart
  <2>3. a \in D /\ (b < a \/ a < b)
    BY <1>1, <1>4, <2>1
  <2> QED
    BY ONLY <2>1, <2>2, <2>3, b \in D
<1>5. n \notin D
  <2>1. n # a /\ n > a /\ n < a + frags[a] + OVERHEAD
    <3>1. OVERHEAD \in Nat /\ OVERHEAD > 0 /\ n = a + size + OVERHEAD /\ size \in Nat
      BY <1>1
    <3> QED
      BY ONLY <1>3, <3>1
  <2>2. ASSUME NEW b \in D, b # a PROVE n # b
    <3>1. b \in Nat /\ frags[b] \in Nat
      BY <1>1
    <3>2. CASE b < a
      BY <1>3, <2>1, <3>1, <3>2
    <3>3. CASE ~(b < a)
      <4>1. a + frags[a] + OVERHEAD <= b
        BY <1>4, <2>2, <3>3
      <4>2. n < a + frags[a] + OVERHEAD
        BY <2>1
      <4>3. ~(n < n) /\ n \in Nat
        BY <1>3
      <4> QED
        BY ONLY <1>1, <1>3, <3>1, <4>1, <4>2, <4>3
    <3> QED
      BY <3>2, <3>3
  <2> QED
    BY <2>1, <2>2
<1>6. /\ DOMAIN frags' = D \cup {n} /\ frags'[a] = size /\ frags'[n] = rest
      /\ \A x \in D : x # a => frags'[x] = frags[x]
  <2>1. n # a
    BY <1>1, <1>5
  <2> QED
    BY <1>1, <1>2, <1>5, <2>1
<1>7. \A x \in D \cup {n} : x \in Nat /\ frags'[x] \in Nat
  BY <1>1, <1>3, <1>6
<1>8. /\ lists' \in [Buckets -> Seq(Nat)] /\ ListsOK(frags', lists')
      /\ FreeIn(lists') = (F \ {a}) \cup {n}
  <2>1. \A x \in FreeIn(others) : x \in DOMAIN frags' /\ frags'[x] = frags[x]
    BY <1>1, <1>6
  <2>2. ListsOK(frags', others)
    BY <2>1, ListsSame
  <2>3. n \in Nat /\ n \in DOMAIN frags' /\ n \notin FreeIn(others)
    BY <1>1, <1>3, <1>5, <1>6
  <2>4. \A x \in DOMAIN frags' : frags'[x] \in Nat
    BY <1>6, <1>7
  <2>5. PICK f : f = frags'
    OBVIOUS
  <2>6. /\ ListsOK(f, others) /\ n \in DOMAIN f /\ n \in Nat /\ n \notin FreeIn(others)
        /\ others \in [Buckets -> Seq(Nat)] /\ \A x \in DOMAIN f : f[x] \in Nat
        /\ lists' = Inserted(f, others, n)
    BY <2>2, <2>3, <2>4, <2>5
  <2>7. /\ lists' \in [Buckets -> Seq(Nat)] /\ ListsOK(f, lists')
        /\ FreeIn(lists') = FreeIn(others) \cup {n}
    BY ONLY <2>6, HeapAssumption, ListsInsert
  <2> QED
    BY <2>5, <2>7
<1>9. FreeFrags' = (F \ {a}) \cup {n} /\ (D \cup {n}) \ FreeFrags' = (D \ F) \cup {a}
  <2>1. FreeFrags' = (F \ {a}) \cup {n}
    BY <1>8 DEF FreeFrags, FreeIn
  <2> QED
    BY <1>1, <1>5, <2>1
<1>10. /\ IsFiniteSet(F \ {a}) /\ IsFiniteSet(D \ F) /\ IsFiniteSet(D \ {a}) /\ IsFiniteSet(D \cup {n})
       /\ Cardinality(D \cup {n}) = Cardinality(D) + 1 /\ Cardinality(D) \in Nat
  <2>1. IsFiniteSet(D \cup {n}) /\ Cardinality(D \cup {n}) = Cardinality(D) + 1 /\ Cardinality(D) \in Nat
    <3>1. IsFiniteSet(D) /\ n \notin D
      BY <1>1, <1>5
    <3> QED
      BY ONLY <3>1, FS_AddElement, FS_CardinalityType
  <2>2. IsFiniteSet(F \ {a}) /\ IsFiniteSet(D \ F) /\ IsFiniteSet(D \ {a})
    BY <1>1, FS_Subset
  <2> QED
    BY <2>1, <2>2
<1>11. Total(frags', FreeFrags') = Total(frags, F) - size - OVERHEAD /\ Total(frags, F) \in Nat
  <2>1. Total(frags, F \ {a}) = Total(frags, F) - frags[a] /\ Total(frags, F) \in Nat
    <3>1. IsFiniteSet(F) /\ a \in F /\ \A x \in F : frags[x] \in Nat
      BY <1>1
    <3> HIDE DEF F
    <3> QED
      BY ONLY <3>1, TotalRemoves
  <2>2. Total(frags', F \ {a}) = Total(frags, F \ {a})
    BY <1>1, <1>6, <1>10, TotalSame
  <2>3. n \notin F \ {a} /\ \A y \in (F \ {a}) \cup {n} : frags'[y] \in Nat
    <3>1. F \in SUBSET D
      BY <1>1
    <3> HIDE DEF D, F
    <3>2. \A y \in (F \ {a}) \cup {n} : y \in D \cup {n}
      BY ONLY <3>1
    <3>3. n \notin F \ {a}
      BY ONLY <1>5, <3>1
    <3> QED
      BY ONLY <1>7, <3>2, <3>3
  <2>4. Total(frags', (F \ {a}) \cup {n}) = Total(frags', F \ {a}) + frags'[n]
    <3>1. IsFiniteSet(F \ {a})
      BY <1>10
    <3> HIDE DEF F
    <3> QED
      BY ONLY <2>3, <3>1, TotalAdds
  <2>5. Total(frags', FreeFrags') = (Total(frags, F) - frags[a]) + rest
    BY ONLY <1>6, <1>9, <2>1, <2>2, <2>4
  <2>6. frags[a] = size + OVERHEAD + rest /\ rest \in Nat /\ size \in Nat /\ OVERHEAD \in Nat
    BY <1>1, <1>3
  <2> QED
    BY ONLY <2>1, <2>5, <2>6
<1>12. Total(frags', (D \ F) \cup {a}) = Total(frags, D \ F) + size /\ Total(frags, D \ F) \in Nat
  <2>1. Total(frags', D \ F) = Total(frags, D \ F)
    BY <1>6, <1>10, TotalSame
  <2>2. a \notin D \ F /\ \A y \in (D \ F) \cup {a} : frags'[y] \in Nat
    BY <1>1, <1>7
  <2>3. /\ Total(frags', D \ F) \in Nat
        /\ Total(frags', (D \ F) \cup {a}) = Total(frags', D \ F) + frags'[a]
    BY <1>10, <2>2, TotalAdds
  <2> QED
    BY <1>6, <2>1, <2>3
<1>13. Total(frags', D \cup {n}) = Total(frags, D) - OVERHEAD /\ Total(frags, D) \in Nat
  <2>1. Total(frags, D \ {a}) = Total(frags, D) - frags[a] /\ Total(frags, D) \in Nat
    BY <1>1, TotalRemoves
  <2>2. Total(frags', D \ {a}) = Total(frags, D \ {a})
    BY <1>6, <1>10, TotalSame
  <2>3. /\ a \notin D \ {a} /\ (D \ {a}) \cup {a} = D /\ \A y \in (D \ {a}) \cup {a} : frags'[y] \in Nat
        /\ \A y \in D \cup {n} : frags'[y] \in Nat
    BY <1>1, <1>7
  <2>4. Total(frags', D) = Total(frags', D \ {a}) + frags'[a]
    <3>1. Total(frags', (D \ {a}) \cup {a}) = Total(frags', D \ {a}) + frags'[a]
      BY <1>10, <2>3, TotalAdds
    <3> QED
      BY <2>3, <3>1
  <2>5. Total(frags', D \cup {n}) = Total(frags', D) + frags'[n]
    BY <1>1, <1>5, <2>3, TotalAdds
  <2>6. Total(frags', D \cup {n}) = ((Total(frags, D) - frags[a]) + size) + rest
    BY <1>6, <2>1, <2>2, <2>4, <2>5
  <2> QED
    <3>1. /\ frags[a] = size + OVERHEAD + rest /\ frags[a] \in Nat /\ rest \in Nat /\ size \in Nat
          /\ OVERHEAD \in Nat
      BY <1>1, <1>3
    <3> QED
      BY ONLY <2>1, <2>6, <3>1
<1>14. HeapTypeOK'
  <2>1. DOMAIN frags' \in SUBSET Nat /\ IsFiniteSet(DOMAIN frags')
    BY <1>6, <1>7, <1>10
  <2>2. frags' \in [DOMAIN frags' -> Nat]
    <3>1. frags' = [x \in DOMAIN frags' |-> frags'[x]]
      OBVIOUS
    <3>2. \A x \in DOMAIN frags' : frags'[x] \in Nat
      BY <1>6, <1>7
    <3> QED
      BY ONLY <3>1, <3>2
  <2>3. /\ qm_used' \in Nat /\ qm_real_used' \in Int
        /\ outcome' \in [size : Nat, got : Nat \cup {NoFrag}]
    <3>1. qm_used \in Nat /\ qm_real_used \in Int
      BY DEF HeapIInv, HeapTypeOK
    <3>2. qm_used' = qm_used + size /\ qm_real_used' = qm_real_used + size + OVERHEAD
      BY <1>6
    <3>3. qm_used' \in Nat /\ qm_real_used' \in Int
      <4>1. OVERHEAD \in Nat /\ size \in Nat
        BY <1>1
      <4> QED
        BY ONLY <3>1, <3>2, <4>1
    <3> QED
      BY <1>3, <3>3
  <2> QED
    BY <1>8, <2>1, <2>2, <2>3 DEF HeapTypeOK
<1>15. FragsApart'
  <2> SUFFICES ASSUME NEW x \in D \cup {n}, NEW y \in D \cup {n}, x < y
               PROVE  x + frags'[x] + OVERHEAD <= y
    BY <1>6 DEF FragsApart
  <2>1. x \in Nat /\ y \in Nat /\ frags'[x] \in Nat /\ n = a + size + OVERHEAD
    BY <1>7
  <2>2. CASE x # n /\ y # n
    <3>1. x \in D /\ y \in D /\ x + frags[x] + OVERHEAD <= y /\ frags[x] \in Nat
      BY <1>1, <2>2 DEF HeapIInv, FragsApart
    <3>2. frags'[x] <= frags[x]
      BY <1>6, <3>1
    <3>3. OVERHEAD \in Nat
      BY <1>1
    <3> QED
      BY ONLY <2>1, <3>1, <3>2, <3>3
  <2>3. CASE x # n /\ y = n
    <3>1. CASE x = a
      <4>1. frags'[x] = size /\ size \in Nat /\ OVERHEAD \in Nat
        BY <1>1, <1>6, <3>1
      <4> QED
        BY ONLY <2>1, <2>3, <3>1, <4>1
    <3>2. CASE x # a
      <4>1. x \in D /\ frags'[x] = frags[x] /\ frags[x] \in Nat
        BY <1>1, <1>6, <2>3, <3>2
      <4> QED
        <5>1. x < a /\ x + frags[x] + OVERHEAD <= a
          <6>1. ~(x > a /\ a + frags[a] + OVERHEAD <= x)
            <7>1. x < n
              BY <2>3
            <7>2. /\ x \in Nat /\ a \in Nat /\ size \in Nat /\ rest \in Nat
                  /\ OVERHEAD \in Nat /\ OVERHEAD > 0
              BY <1>1, <1>3, <2>1
            <7>3. n = a + size + OVERHEAD /\ frags[a] = size + OVERHEAD + rest
              BY <1>3
            <7> QED
              BY ONLY <7>1, <7>2, <7>3
          <6> QED
            BY <1>4, <3>2, <4>1, <6>1
        <5>2. a <= n /\ a \in Nat /\ OVERHEAD \in Nat
          BY <1>1, <1>3
        <5> QED
          BY ONLY <2>1, <2>3, <4>1, <5>1, <5>2
    <3> QED
      BY <3>1, <3>2
  <2>4. CASE x = n
    <3>0. n < y /\ a < n
      <4>1. OVERHEAD \in Nat /\ OVERHEAD > 0 /\ a \in Nat /\ size \in Nat
        BY <1>1, <1>3
      <4> QED
        BY <2>1, <2>4, <4>1
    <3>1. y \in D /\ y # a /\ y > a
      <4>1. a \in Nat /\ n \in Nat /\ y \in Nat
        BY <1>3, <2>1
      <4>2. y # n /\ y # a /\ y > a
        BY ONLY <3>0, <4>1
      <4> QED
        BY <4>2
    <3>2. a + frags[a] + OVERHEAD <= y
      <4>1. a \in Nat /\ y \in Nat /\ ~(y < a)
        BY <1>3, <2>1, <3>1
      <4> QED
        BY <1>4, <3>1, <4>1
    <3>3. frags'[x] = rest /\ rest \in Nat /\ frags[a] = size + OVERHEAD + rest
      BY <1>3, <1>6, <2>4
    <3>4. OVERHEAD \in Nat /\ a \in Nat /\ size \in Nat
      BY <1>1, <1>3
    <3> QED
      BY ONLY <2>1, <2>4, <3>2, <3>3, <3>4
  <2> QED
    BY <2>2, <2>3, <2>4
<1>16. Tiled'
  <2>1. Total(frags', D \cup {n}) + OVERHEAD * (Cardinality(D \cup {n}) - 1) = HeapSize
    <3>1. Total(frags, D) + OVERHEAD * (Cardinality(D) - 1) = HeapSize
      BY DEF HeapIInv, HeapSound, Tiled
    <3>2. OVERHEAD * (Cardinality(D) + 1 - 1) = OVERHEAD * (Cardinality(D) - 1) + OVERHEAD
      BY <1>1, <1>10
    <3>3. OVERHEAD * (Cardinality(D) - 1) \in Int /\ OVERHEAD \in Nat
      BY <1>1, <1>10
    <3>4. PICK m : m = OVERHEAD * (Cardinality(D) - 1)
      OBVIOUS
    <3>5. OVERHEAD * (Cardinality(D \cup {n}) - 1) = m + OVERHEAD
      BY <1>10, <3>2, <3>4
    <3>6. /\ Total(frags', D \cup {n}) = Total(frags, D) - OVERHEAD /\ Total(frags, D) \in Nat
          /\ m \in Int /\ OVERHEAD \in Nat /\ Total(frags, D) + m = HeapSize
      BY <1>13, <3>1, <3>3, <3>4
    <3> QED
      BY ONLY <3>5, <3>6
  <2>2. ASSUME NEW x \in D \cup {n}
        PROVE  x + frags'[x] = HeapSize \/ x + frags'[x] + OVERHEAD \in D \cup {n}
    <3>1. ASSUME NEW y \in D PROVE y + frags[y] = HeapSize \/ y + frags[y] + OVERHEAD \in D
      BY DEF HeapIInv, HeapSound, Tiled
    <3>2. CASE x = a
      BY <1>6, <3>2
    <3>3. CASE x = n
      <4>1. n + frags'[n] = a + frags[a]
        BY <1>1, <1>3, <1>6
      <4> QED
        BY <1>1, <3>1, <3>3, <4>1
    <3>4. CASE x # a /\ x # n
      BY <1>6, <3>1, <3>4
    <3> QED
      BY <3>2, <3>3, <3>4
  <2> QED
    BY <1>6, <2>1, <2>2 DEF Tiled
<1>17. Counted'
  <2>1. /\ qm_used = Total(frags, D \ F) /\ HeapSize - qm_real_used = Total(frags, F)
        /\ qm_real_used \in Int
    BY DEF HeapIInv, HeapSound, Counted, HeapTypeOK
  <2>2. qm_used' = Total(frags', DOMAIN frags' \ FreeFrags')
    BY <1>6, <1>9, <1>12, <2>1
  <2>3. HeapSize - (qm_real_used + size + OVERHEAD) = (HeapSize - qm_real_used) - size - OVERHEAD
    BY <1>1, <2>1
  <2>4. HeapSize - qm_real_used' = Total(frags', FreeFrags')
    BY <1>11, <2>1, <2>3
  <2> QED
    BY <2>2, <2>4 DEF Counted
<1>18. \A x \in Buckets : Sorted(frags', lists'[x], x)
  BY <1>8 DEF ListsOK
<1>19. ServedIfFits'
  <2>1. a # NoFrag
    BY <1>1
  <2>2. a \notin FreeFrags' /\ frags'[a] >= size
    BY <1>1, <1>5, <1>6, <1>9
  <2> QED
    BY <2>1, <2>2 DEF ServedIfFits
<1> QED
  BY <1>14, <1>15, <1>16, <1>17, <1>18, <1>19 DEF HeapIInv, HeapSound

\* qm_malloc keeps it, whether the fragment is split or given away whole.
LEMMA MallocStep ==
  ASSUME HeapAssumption, HeapIInv, NEW s \in Sizes, Malloc(s)
  PROVE  HeapIInv' /\ ServedIfFits'
<1>1. PICK size : size = RoundUp(s)
  OBVIOUS
<1>2. PICK h : h = FindBucket(size)
  OBVIOUS
<1>3. PICK a : a = lists[h][FindPlace(size)]
  OBVIOUS
<1>4. PICK others : others = Detached(lists, h, FindPlace(size))
  OBVIOUS
<1>5. /\ size \in Nat /\ a \in FreeFrags /\ a \in Nat /\ frags[a] \in Nat /\ size <= frags[a]
      /\ others \in [Buckets -> Seq(Nat)] /\ ListsOK(frags, others)
      /\ FreeIn(others) = FreeFrags \ {a}
  BY <1>1, <1>2, <1>3, <1>4, Taken
<1>6. PICK n : n = a + size + OVERHEAD
  OBVIOUS
<1>7. /\ IF IsSplit(frags[a] - size, size)
         THEN /\ frags' = [x \in DOMAIN frags \cup {n} |->
                             CASE x = a -> size [] x = n -> frags[a] - size - OVERHEAD
                               [] OTHER -> frags[x]]
              /\ lists' = Inserted(frags', others, n)
              /\ qm_real_used' = qm_real_used + size + OVERHEAD
         ELSE /\ lists' = others
              /\ qm_real_used' = qm_real_used + frags[a]
              /\ UNCHANGED frags
      /\ qm_used' = qm_used + frags'[a]
      /\ outcome' = [size |-> size, got |-> a]
  BY <1>1, <1>2, <1>3, <1>4, <1>6 DEF Malloc
<1>8. CASE IsSplit(frags[a] - size, size)
  BY <1>5, <1>6, <1>7, <1>8, SplitStep
<1>9. CASE ~IsSplit(frags[a] - size, size)
  BY <1>5, <1>7, <1>9, WholeStep
<1> QED
  BY <1>8, <1>9

\* qm_free keeps it.
LEMMA FreeStep ==
  ASSUME HeapAssumption, HeapIInv, NEW a \in DOMAIN frags, QmFree(a)
  PROVE  HeapIInv' /\ ServedIfFits'
<1> DEFINE D == DOMAIN frags
           F == FreeFrags
<1>1. /\ F \in SUBSET D /\ IsFiniteSet(F) /\ IsFiniteSet(D) /\ a \in D \ F
      /\ \A x \in D : x \in Nat /\ frags[x] \in Nat
  <2>1. IsFiniteSet(D)
    BY DEF HeapIInv, HeapTypeOK
  <2> QED
    BY <2>1, FreeIs DEF HeapIInv, QmFree
<1>2. /\ frags' = frags /\ lists' = Inserted(frags, lists, a) /\ outcome' = NoRequest
      /\ qm_used' = qm_used - frags[a] /\ qm_real_used' = qm_real_used - frags[a]
  BY DEF QmFree
<1>3. /\ lists' \in [Buckets -> Seq(Nat)] /\ ListsOK(frags, lists')
      /\ FreeIn(lists') = F \cup {a}
  <2>1. /\ ListsOK(frags, lists) /\ a \in Nat /\ a \in D /\ a \notin FreeIn(lists)
        /\ F = FreeIn(lists) /\ lists \in [Buckets -> Seq(Nat)] /\ \A x \in D : frags[x] \in Nat
    BY <1>1, FreeIs DEF HeapIInv, HeapTypeOK
  <2> QED
    BY <1>2, <2>1, ListsInsert
<1>4. FreeFrags' = F \cup {a} /\ D \ FreeFrags' = (D \ F) \ {a}
  BY <1>1, <1>3 DEF FreeFrags, FreeIn
<1>5. Total(frags, F) \in Nat /\ Total(frags, F \cup {a}) = Total(frags, F) + frags[a]
  BY <1>1, TotalAdds
<1>6. /\ Total(frags, (D \ F) \ {a}) = Total(frags, D \ F) - frags[a]
      /\ Total(frags, D \ F) \in Nat /\ Total(frags, (D \ F) \ {a}) \in Nat
  <2>1. IsFiniteSet(D \ F)
    BY <1>1, FS_Subset
  <2> QED
    BY <1>1, <2>1, TotalRemoves
<1>7. /\ qm_used = Total(frags, D \ F) /\ HeapSize - qm_real_used = Total(frags, F)
      /\ frags[a] \in Nat /\ qm_real_used \in Int /\ HeapSize \in Nat
  BY <1>1, HeapAssumption DEF HeapIInv, HeapSound, Counted, HeapTypeOK, HeapAssumption
<1>8. Counted'
  <2>1. qm_used' = Total(frags, D \ FreeFrags')
    BY <1>2, <1>4, <1>6, <1>7
  <2>2. HeapSize - (qm_real_used - frags[a]) = (HeapSize - qm_real_used) + frags[a]
    BY <1>7
  <2>3. HeapSize - qm_real_used' = Total(frags, FreeFrags')
    BY <1>2, <1>4, <1>5, <1>7, <2>2
  <2> QED
    BY <1>2, <2>1, <2>3 DEF Counted
<1>9. HeapTypeOK'
  <2>1. qm_used' \in Nat /\ qm_real_used' \in Int
    BY <1>2, <1>6, <1>7
  <2>2. outcome' \in [size : Nat, got : Nat \cup {NoFrag}]
    BY <1>2 DEF NoRequest
  <2> QED
    BY <1>2, <1>3, <2>1, <2>2 DEF HeapIInv, HeapTypeOK
<1>10. Tiled' /\ FragsApart'
  BY <1>2 DEF HeapIInv, HeapSound, Tiled, FragsApart
<1>11. \A x \in Buckets : Sorted(frags', lists'[x], x)
  BY <1>2, <1>3 DEF ListsOK
<1>12. ServedIfFits'
  BY <1>2 DEF ServedIfFits, NoRequest
<1> QED
  BY <1>8, <1>9, <1>10, <1>11, <1>12 DEF HeapIInv, HeapSound

\* The invariant holds in every behaviour.
LEMMA HeapInvariance == HeapSpec => [](HeapIInv /\ ServedIfFits)
<1> USE HeapAssumption
<1>1. HeapInit => HeapIInv /\ ServedIfFits
  BY HeapStart
<1>2. HeapIInv /\ ServedIfFits /\ [HeapNext]_heapVars => (HeapIInv /\ ServedIfFits)'
  <2> SUFFICES ASSUME HeapIInv, ServedIfFits, [HeapNext]_heapVars
               PROVE  HeapIInv' /\ ServedIfFits'
    OBVIOUS
  <2>1. ASSUME NEW s \in Sizes, MallocFails(s) PROVE HeapIInv' /\ ServedIfFits'
    <3>1. /\ UNCHANGED <<frags, lists, qm_used, qm_real_used>> /\ Fails(RoundUp(s))
          /\ outcome' = [size |-> RoundUp(s), got |-> NoFrag]
      BY <2>1 DEF MallocFails
    <3>2. RoundUp(s) \in Nat
      BY RoundUpIs DEF HeapAssumption
    <3>3. \A a \in FreeFrags : frags[a] < RoundUp(s)
      BY <3>1, <3>2, FoundIfFits DEF HeapIInv
    <3>4. HeapIInv'
      BY <3>1, <3>2 DEF HeapIInv, HeapTypeOK, FragsApart, HeapSound, Tiled, Counted, FreeFrags
    <3>5. ServedIfFits'
      BY <3>1, <3>3 DEF ServedIfFits, FreeFrags
    <3> QED
      BY <3>4, <3>5
  <2>2. ASSUME NEW s \in Sizes, Malloc(s) PROVE HeapIInv' /\ ServedIfFits'
    BY <2>2, MallocStep
  <2>3. ASSUME NEW a \in DOMAIN frags, QmFree(a) PROVE HeapIInv' /\ ServedIfFits'
    BY <2>3, FreeStep
  <2>4. CASE UNCHANGED heapVars
    BY <2>4 DEF heapVars, HeapIInv, HeapTypeOK, FragsApart, HeapSound, Tiled, Counted, FreeFrags,
                ServedIfFits
  <2> QED
    BY <2>1, <2>2, <2>3, <2>4 DEF HeapNext
<1> QED
  BY <1>1, <1>2, PTL DEF HeapSpec

\* Every variable of the allocator keeps its type; an address is a number.
THEOREM HeapTypeCorrect == HeapSpec => []HeapTypeOK
<1>1. HeapIInv => HeapTypeOK
  BY DEF HeapIInv
<1> QED
  BY <1>1, HeapInvariance, PTL

\* For any memory, sizes and order of requests: the fragments tile the memory, the free
\* ones are on the list of their bucket in order, the counters agree with both, and a
\* request fails only when no free fragment is large enough (q_malloc.c).
THEOREM MemoryIsSound == HeapSpec => []MemorySound
<1>1. HeapIInv /\ ServedIfFits => MemorySound
  BY DEF HeapIInv, MemorySound
<1> QED
  BY <1>1, HeapInvariance, PTL
=============================================================================
