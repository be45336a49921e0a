----------------------------- MODULE OcsCredit -----------------------------
(***************************************************************************)
(* Credit control in the online charging system: msg_handler, add_client   *)
(* and del_client of UCTOCS/ocs/message_handler.c, run by several worker   *)
(* processes on one list of clients in shared memory, and the requests the *)
(* charging trigger function sends for its sessions.                       *)
(*                                                                         *)
(* A step is what a worker does while it holds list_of_clients->lock; the  *)
(* loop that halves a grant until the balance covers it is one step per    *)
(* iteration, with the lock held.                                          *)
(***************************************************************************)
EXTENDS Integers, Sequences

CONSTANTS
    Workers,        \* worker processes of the OCS
    Cids,           \* charging ids (the Call-Record-Id AVP)
    Addrs,          \* shared memory blocks for client records
    InitialCredit,  \* the balance of a new client, 200
    TimeFactor,     \* time_cred_factor, 60
    VolFactor,      \* vol_cred_factor, 1
    Garbage,        \* values an uninitialised credits_buf may have
    Retries,        \* whether requests may be repeated (lost answer, restart)
    MaxReqs,        \* bound: requests sent
    None

ASSUME CreditAssumption == InitialCredit \in Nat /\ InitialCredit >= 2
ASSUME FactorAssumption == TimeFactor \in Nat /\ VolFactor \in Nat
ASSUME GarbageAssumption == Garbage \subseteq Int
ASSUME ReqsAssumption == Retries \in BOOLEAN /\ MaxReqs \in Nat
OnceOff == 1   \* onceoff_charge
DecRatio == 2  \* dec_ratio

VARIABLES
    list,     \* list_of_clients, head first
    heap,     \* the client record in each block
    lock,     \* holder of list_of_clients->lock
    pc,       \* where each worker is in msg_handler
    req,      \* the request a worker handles
    client,   \* the global variable client of each worker process
    persec, perMbyte,  \* persec_charge, perMbyte_charge of each worker
    session,  \* the CTF's side of each session
    owed,     \* credits granted to a session and not reported as used yet
    reqs      \* requests sent so far

records == <<list, heap>>
locals == <<client, persec, perMbyte>>
ctf == <<session, owed, reqs>>
vars == <<records, lock, pc, req, locals, ctf>>

Zero == [once |-> 0, sec |-> 0, mb |-> 0]
Total(u) == u.once + u.sec + u.mb
Kinds == {"START", "INTERIM", "STOP"}
Looping == {"startLoop", "interimLoop"}
PCs == Kinds \cup Looping
         \cup {"idle", "add", "find", "addAgain", "findAgain", "delete", "crashed"}
Amounts == [once : Nat, sec : Nat, mb : Nat]
Requests == [kind : Kinds, cid : Cids, used : Amounts]

\* A client record.  spent and phase are history: what was reported as used,
\* and whether the requests came as one START, then INTERIMs, then one STOP.
Phases == {"added", "open", "mixed", "settled", "void"}
Records == [cid : Cids, credits : Int, credits_buf : Int, spent : Int, phase : Phases]
Record(c, n, b, s, p) ==
    [cid |-> c, credits |-> n, credits_buf |-> b, spent |-> s, phase |-> p]

ASSUME NoneAssumption == None \notin Workers \cup Addrs \cup Requests \cup Records

Init ==
    /\ list = << >>
    /\ heap = [a \in Addrs |-> None]
    /\ lock = None
    /\ pc = [w \in Workers |-> "idle"]
    /\ req = [w \in Workers |-> None]
    /\ client = [w \in Workers |-> None]
    /\ persec = [w \in Workers |-> 0] /\ perMbyte = [w \in Workers |-> 0]
    /\ session = [c \in Cids |-> "closed"]
    /\ owed = [c \in Cids |-> Zero]
    /\ reqs = 0

GoTo(w, l) == pc' = [pc EXCEPT ![w] = l]
Point(w, a) == client' = [client EXCEPT ![w] = a]
Charge(w, p, m) ==
    persec' = [persec EXCEPT ![w] = p] /\ perMbyte' = [perMbyte EXCEPT ![w] = m]

(***************************************************************************)
(* The CTF.  Without retries it sends the requests of one session one      *)
(* after the other, each when the one before is answered, and reports as   *)
(* used no more than it was granted.  With retries it may send any request *)
(* at any time: its timer repeats a STOP every second until it is          *)
(* answered, and a restarted CTF numbers its sessions from 1 again.        *)
(***************************************************************************)
Ready(k, c) == Retries \/ session[c] = (IF k = "START" THEN "closed" ELSE "open")
UsedUpTo(o) == [once : {0, o.once}, sec : 0 .. o.sec, mb : 0 .. o.mb]
Less(o, u) == [once |-> o.once - u.once, sec |-> o.sec - u.sec, mb |-> o.mb - u.mb]
Plus(o, g) == [once |-> o.once + g.once, sec |-> o.sec + g.sec, mb |-> o.mb + g.mb]

Request(w) ==
    /\ pc[w] = "idle" /\ reqs < MaxReqs
    /\ \E k \in Kinds, c \in Cids :
        /\ Ready(k, c)
        /\ \E u \in IF k = "START" THEN {Zero} ELSE UsedUpTo(owed[c]) :
            /\ req' = [req EXCEPT ![w] = [kind |-> k, cid |-> c, used |-> u]]
            /\ owed' = IF Retries THEN owed ELSE [owed EXCEPT ![c] = Less(@, u)]
        /\ session' = [session EXCEPT ![c] = "busy"]
        /\ GoTo(w, k)
    /\ reqs' = reqs + 1
    /\ UNCHANGED <<records, lock, locals>>

\* The answer: Ro_CCA returns the grant g to the CTF.  The worker's variables
\* are dead until its next request.
Answer(w, g) ==
    LET c == req[w].cid
        stop == req[w].kind = "STOP"
    IN /\ GoTo(w, "idle")
       /\ req' = [req EXCEPT ![w] = None]
       /\ Point(w, None)
       /\ Charge(w, 0, 0)
       /\ owed' = [owed EXCEPT ![c] = IF stop THEN Zero ELSE Plus(@, g)]
       /\ session' = [session EXCEPT ![c] = IF stop THEN "closed" ELSE "open"]
       /\ UNCHANGED reqs

\* The search loop stops at the first record with the charging id, and at
\* the last record of the list when there is none.
Match(i, c) == heap[list[i]].cid = c
Found(i, c) ==
    /\ i \in 1 .. Len(list)
    /\ Match(i, c) \/ i = Len(list)
    /\ \A j \in 1 .. i - 1 : ~Match(j, c)

Listed == {list[i] : i \in 1 .. Len(list)}

\* client = head is NULL: the process dies with the lock in its hands.
Crash(w) ==
    /\ list = << >>
    /\ GoTo(w, "crashed")
    /\ lock' = w
    /\ UNCHANGED <<records, req, locals, ctf>>

\* Mutant: the last credit is granted too.
AffordsAll(c, x) == c - x >= 0

\* if (temp_credit > 0), and the condition that ends the two loops.
Affords(c, x) == c - x > 0

(***************************************************************************)
(* START.                                                                  *)
(***************************************************************************)
StartCheck(w) ==
    /\ pc[w] = "START" /\ lock = None
    /\ GoTo(w, IF list = << >> THEN "add" ELSE "find")
    /\ UNCHANGED <<records, lock, req, locals, ctf>>

NewRecord(c, b) == Record(c, InitialCredit, b, 0, "added")

\* add_client leaves credits_buf as the allocator returned it.  When it fails
\* (no memory) msg_handler goes on all the same.
AddClient(w) ==
    /\ pc[w] \in {"add", "addAgain"} /\ lock = None
    /\ \/ \E a \in Addrs \ Listed, b \in Garbage :
            /\ heap' = [heap EXCEPT ![a] = NewRecord(req[w].cid, b)]
            /\ list' = Append(list, a)
       \/ Addrs \subseteq Listed /\ UNCHANGED records
    /\ GoTo(w, IF pc[w] = "add" THEN "find" ELSE "findAgain")
    /\ UNCHANGED <<lock, req, locals, ctf>>

\* The client was found: its balance decides whether anything is granted.
StartEnter(w, a) ==
    \/ /\ heap[a].credits > 0
       /\ Point(w, a)
       /\ Charge(w, TimeFactor, VolFactor)
       /\ lock' = w
       /\ GoTo(w, "startLoop")
       /\ UNCHANGED <<req, ctf>>
    \/ heap[a].credits <= 0 /\ Answer(w, Zero) /\ UNCHANGED lock

\* Not found at the first search: the client is added and searched again.
StartFind(w) ==
    /\ pc[w] \in {"find", "findAgain"} /\ lock = None
    /\ \/ Crash(w)
       \/ \E i \in 1 .. Len(list) :
            /\ Found(i, req[w].cid)
            /\ \/ Match(i, req[w].cid) /\ StartEnter(w, list[i])
               \/ /\ ~Match(i, req[w].cid) /\ pc[w] = "find"
                  /\ GoTo(w, "addAgain")
                  /\ UNCHANGED <<lock, req, locals, ctf>>
               \/ /\ ~Match(i, req[w].cid) /\ pc[w] = "findAgain"
                  /\ Answer(w, Zero)
                  /\ UNCHANGED lock
            /\ UNCHANGED records

\* Mutant: a charge is rounded up.
HalveUp(w) ==
    Charge(w, (persec[w] + 1) \div DecRatio, (perMbyte[w] + 1) \div DecRatio)

\* One iteration of the loop: halve both charges, or, when both are zero,
\* only complain and try again.
Halve(w) ==
    IF persec[w] # 0 \/ perMbyte[w] > 0
    THEN Charge(w, persec[w] \div DecRatio, perMbyte[w] \div DecRatio)
    ELSE UNCHANGED <<persec, perMbyte>>

StartCovered(w) ==
    Affords(heap[client[w]].credits, OnceOff + persec[w] + perMbyte[w])

StartHalve(w) ==
    /\ pc[w] = "startLoop" /\ ~StartCovered(w)
    /\ Halve(w)
    /\ UNCHANGED <<records, lock, pc, req, client, ctf>>

Reserve(r, g) ==
    Record(r.cid, r.credits - Total(g), Total(g), r.spent,
           CASE r.phase = "added" -> "open"
             [] r.phase = "open" -> "mixed"
             [] r.phase = "settled" -> "void"
             [] OTHER -> r.phase)

\* The three deductions, all undone when one of them is not covered.
StartGrant(w) ==
    /\ pc[w] = "startLoop" /\ StartCovered(w)
    /\ LET a == client[w]
           c == heap[a].credits
           p == persec[w]
           m == perMbyte[w]
           g == IF /\ Affords(c, OnceOff) /\ Affords(c - OnceOff, p)
                   /\ Affords(c - OnceOff - p, m)
                THEN [once |-> OnceOff, sec |-> p, mb |-> m] ELSE Zero
       IN /\ heap' = [heap EXCEPT ![a] = Reserve(@, g)]
          /\ Answer(w, g)
    /\ lock' = None
    /\ UNCHANGED list

(***************************************************************************)
(* INTERIM.                                                                *)
(***************************************************************************)
ConsumeBuf(r, u, n) ==
    Record(r.cid, r.credits, r.credits_buf - n, r.spent + Total(u),
           CASE r.phase = "added" -> "mixed"
             [] r.phase = "settled" -> "void"
             [] OTHER -> r.phase)

\* Mutant: the once-off part of the usage is not deducted.
ConsumeTime(r, u) == ConsumeBuf(r, u, u.sec + u.mb)
Consume(r, u) == ConsumeBuf(r, u, Total(u))

InterimFind(w) ==
    /\ pc[w] = "INTERIM" /\ lock = None
    /\ \/ Crash(w)
       \/ \E i \in 1 .. Len(list) :
            /\ Found(i, req[w].cid) /\ ~Match(i, req[w].cid)
            /\ Answer(w, Zero)
            /\ UNCHANGED <<records, lock>>
       \/ \E i \in 1 .. Len(list) :
            LET a == list[i]
                u == req[w].used
            IN /\ Found(i, req[w].cid) /\ Match(i, req[w].cid)
               /\ heap' = [heap EXCEPT ![a] = Consume(@, u)]
               /\ Point(w, a)
               /\ Charge(w, u.sec, u.mb)
               /\ lock' = w
               /\ GoTo(w, "interimLoop")
               /\ UNCHANGED <<list, req, ctf>>

InterimCovered(w) == Affords(heap[client[w]].credits, persec[w] + perMbyte[w])

InterimHalve(w) ==
    /\ pc[w] = "interimLoop" /\ ~InterimCovered(w)
    /\ Halve(w)
    /\ UNCHANGED <<records, lock, pc, req, client, ctf>>

\* Mutant: the new grant is not added to the reservation.
ExtendCredits(r, n) == Record(r.cid, r.credits - n, r.credits_buf, r.spent, r.phase)
Extend(r, n) == Record(r.cid, r.credits - n, r.credits_buf + n, r.spent, r.phase)

\* Here a deduction is kept when the next one is not covered.
InterimGrant(w) ==
    /\ pc[w] = "interimLoop" /\ InterimCovered(w)
    /\ LET a == client[w]
           c == heap[a].credits
           sec == IF Affords(c, persec[w]) THEN persec[w] ELSE 0
           ok == Affords(c, persec[w]) /\ Affords(c - sec, perMbyte[w])
           mb == IF ok THEN perMbyte[w] ELSE 0
       IN /\ heap' = [heap EXCEPT ![a] = Extend(@, sec + mb)]
          /\ Answer(w, IF ok THEN [once |-> 0, sec |-> sec, mb |-> mb] ELSE Zero)
    /\ lock' = None
    /\ UNCHANGED list

(***************************************************************************)
(* STOP.  The client is deleted in a critical section of its own, by the   *)
(* id of the record the search ended at.                                   *)
(***************************************************************************)
Settle(r, u) ==
    LET rest == r.credits_buf - Total(u)
    IN Record(r.cid, r.credits + rest, rest, r.spent + Total(u),
              IF r.phase = "open" THEN "settled" ELSE "void")

StopSettle(w) ==
    /\ pc[w] = "STOP" /\ lock = None
    /\ \/ Crash(w)
       \/ \E i \in 1 .. Len(list) :
            /\ Found(i, req[w].cid)
            /\ heap' = IF Match(i, req[w].cid)
                       THEN [heap EXCEPT ![list[i]] = Settle(@, req[w].used)]
                       ELSE heap
            /\ Point(w, list[i])
            /\ GoTo(w, "delete")
            /\ UNCHANGED <<list, lock, req, persec, perMbyte, ctf>>

\* Mutant: the rest of the list is lost with the record.
Truncate(i) == SubSeq(list, 1, i - 1)
Without(i) == SubSeq(list, 1, i - 1) \o SubSeq(list, i + 1, Len(list))

\* del_client(client->call_id): another worker may have freed the record, and
\* then the id is whatever the block holds.
StopDelete(w) ==
    /\ pc[w] = "delete" /\ lock = None
    /\ \/ Crash(w)
       \/ \E c \in IF client[w] \in Listed THEN {heap[client[w]].cid} ELSE Cids :
            \E i \in 1 .. Len(list) :
                /\ Found(i, c)
                /\ list' = IF Match(i, c) THEN Without(i) ELSE list
                /\ Answer(w, Zero)
                /\ UNCHANGED <<heap, lock>>

Step(w) ==
    \/ StartCheck(w) \/ AddClient(w) \/ StartFind(w) \/ StartHalve(w) \/ StartGrant(w)
    \/ InterimFind(w) \/ InterimHalve(w) \/ InterimGrant(w)
    \/ StopSettle(w) \/ StopDelete(w)

Next == \E w \in Workers : Request(w) \/ Step(w)

Spec == Init /\ [][Next]_vars

\* A worker that can run is scheduled.
FairSpec == Spec /\ \A w \in Workers : WF_vars(Step(w))
-----------------------------------------------------------------------------
(***************************************************************************)
(* Properties.                                                             *)
(***************************************************************************)

\* Type correctness.  The charges of a loop are never negative.
TypeOK ==
    /\ list \in Seq(Addrs)
    /\ heap \in [Addrs -> Records \cup {None}]
    /\ \A a \in Listed : heap[a] # None
    /\ lock \in Workers \cup {None}
    /\ pc \in [Workers -> PCs]
    /\ req \in [Workers -> Requests \cup {None}]
    /\ \A w \in Workers : pc[w] # "idle" => req[w] # None
    /\ client \in [Workers -> Addrs \cup {None}]
    /\ \A w \in Workers : pc[w] \in Looping \cup {"delete"} => client[w] # None
    /\ persec \in [Workers -> Nat] /\ perMbyte \in [Workers -> Nat]
    /\ session \in [Cids -> {"closed", "busy", "open"}]
    /\ owed \in [Cids -> Amounts]
    /\ reqs \in Nat

\* The lock of the client list is held exactly by the worker that is in a
\* grant loop, or by one that died inside a critical section, for whatever
\* requests arrive (message_handler.c msg_handler).
LockHeld ==
    \A w \in Workers : pc[w] \in Looping \cup {"crashed"} <=> lock = w

\* A grant never takes the last credit: until a STOP settles it, a client has
\* a positive balance, even when STARTs and INTERIMs are repeated, and every
\* request therefore finds one credit left to be refused on.
NeverOverdrawn ==
    \A a \in Addrs : heap[a] # None
        => (heap[a].phase \in {"added", "open", "mixed"} => heap[a].credits >= 1)

\* Credits are neither created nor lost between START and STOP: balance,
\* reservation and reported use add up to what the client began with, and
\* after the STOP the balance is what was not used.
Balanced(r) ==
    /\ r.phase = "added" => r.credits = InitialCredit /\ r.spent = 0
    /\ r.phase = "open" => r.credits + r.credits_buf + r.spent = InitialCredit
    /\ r.phase = "settled" => r.credits + r.spent = InitialCredit
Conservation == \A a \in Addrs : heap[a] # None => Balanced(heap[a])

\* The two ledgers agree: between two requests, what the CTF may still use
\* of a session is what the OCS has reserved for it, so a STOP gives back
\* exactly the unused part.
LedgersAgree ==
    \A c \in Cids, a \in Listed :
        session[c] = "open" /\ heap[a].cid = c => Total(owed[c]) = heap[a].credits_buf

\* The list holds one record for every session the CTF has open, however
\* STARTs and STOPs of other sessions interleave with its START, and none for
\* a session that was closed.
RecordPerSession ==
    \A c \in Cids :
        LET mine == {i \in 1 .. Len(list) : Match(i, c)}
        IN /\ session[c] = "open" => \E i \in mine : mine = {i}
           /\ session[c] = "closed" => mine = {}

\* "Session Closed, recording will end" (message_handler.c:441) is said of
\* the session the STOP names: no other record leaves the list.
ClosesOwnSession ==
    [][\A a \in Listed \ Listed' :
          \E w \in Workers : pc[w] = "delete" /\ req[w].cid = heap[a].cid]_vars

\* Every request is answered, however low the balance: the loops that halve
\* a grant end.
EveryRequestIsAnswered ==
    \A w \in Workers : pc[w] # "idle" ~> pc[w] = "idle"

\* When nothing can be granted msg_handler says that it is "proceeding with
\* further checks" (message_handler.c:242): it leaves the loop and the lock.
ChecksGoOn ==
    \A w \in Workers : pc[w] \in Looping ~> lock # w
=============================================================================
