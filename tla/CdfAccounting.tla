---------------------------- MODULE CdfAccounting ----------------------------
(***************************************************************************)
(* The charging data function: workers that run process_incoming, Rf_ACA   *)
(* and msg_handler on accounting requests, the list of clients they share, *)
(* and the timer process that walks it.                                    *)
(*                                                                         *)
(* Only add_client, del_client and msg_timer lock the list; the searches   *)
(* of msg_handler do not, and they end at the last client or nowhere: a    *)
(* worker that asks for any other client runs off the list and crashes.    *)
(***************************************************************************)
EXTENDS Integers, FiniteSets

CONSTANTS
  CdfWorkers,   \* worker processes
  cdfTimer,     \* the timer process
  Sessions,     \* charging sessions (cid)
  ClientBlocks, \* memory for clients
  NoOne,        \* no client, no session, nobody
  Traffic,      \* the kinds of traffic looked at, see MaySend
  MaxReqs       \* bound on the requests

ASSUME CdfAssumption ==
  /\ NoOne \notin ClientBlocks \cup Sessions \cup CdfWorkers \cup {cdfTimer}
  /\ cdfTimer \notin CdfWorkers
  /\ Traffic \subseteq {"single", "overlapping", "repeated"}

VARIABLES
  traffic,      \* the kind of traffic in this behaviour
  head, tail,   \* list_of_clients
  block,        \* what each block of memory holds; a freed one keeps it
  inUse,        \* the blocks that are allocated
  cdfLock,      \* list_of_clients->lock
  cdfPc, req, cursor,  \* of each worker: its step, its request, the global client
  session,      \* what the CTF knows of each session
  sent          \* requests sent so far

cdfVars ==
  <<traffic, head, tail, block, inUse, cdfLock, cdfPc, req, cursor, session, sent>>

Types == {"START", "INTERIM", "STOP", "EVENT"}

NoClient == [cid |-> NoOne, next |-> NoOne, prev |-> NoOne]
NoReq == [type |-> "none", cid |-> NoOne]

CdfInit ==
  /\ traffic \in Traffic
  /\ head = NoOne /\ tail = NoOne /\ inUse = {}
  /\ block = [b \in ClientBlocks |-> NoClient]
  /\ cdfLock = NoOne
  /\ cdfPc = [w \in CdfWorkers |-> "idle"]
  /\ req = [w \in CdfWorkers |-> NoReq]
  /\ cursor = [w \in CdfWorkers |-> NoOne]
  /\ session = [s \in Sessions |-> "none"]
  /\ sent = 0

(************************** The CTF's side *******************************)

\* A session asks for START, then INTERIM or STOP, and waits for each answer. In
\* "single" traffic there is one session at a time; in "repeated" traffic a STOP that
\* was not answered in time is sent again.
MaySend(s, type) ==
  /\ sent < MaxReqs
  /\ \/ session[s] = IF type \in {"START", "EVENT"} THEN "none" ELSE "open"
     \/ traffic = "repeated" /\ type = "STOP" /\ session[s] = "STOP"
  /\ type = "EVENT" => traffic # "single"
  /\ traffic = "single" => \A t \in Sessions \ {s} : session[t] = "none"

FirstStep == [START |-> "test", INTERIM |-> "first", STOP |-> "first", EVENT |-> "event"]

\* worker_process takes the request and calls process_incoming.
TakeRequest(w, s, type) ==
  /\ cdfPc[w] = "idle" /\ MaySend(s, type)
  /\ req' = [req EXCEPT ![w] = [type |-> type, cid |-> s]]
  /\ cdfPc' = [cdfPc EXCEPT ![w] = FirstStep[type]]
  /\ session' = [session EXCEPT ![s] = type]
  /\ sent' = sent + 1
  /\ UNCHANGED <<traffic, head, tail, block, inUse, cdfLock, cursor>>

(**************************** msg_handler ********************************)

\* START looks at an empty list first.
TestHead(w) ==
  /\ cdfPc[w] = "test"
  /\ cdfPc' = [cdfPc EXCEPT ![w] = IF head = NoOne THEN "add" ELSE "first"]
  /\ UNCHANGED <<traffic, head, tail, block, inUse, cdfLock, req, cursor, session, sent>>

\* add_client: the new client becomes the last one.
AddClient(w) ==
  /\ cdfPc[w] = "add" /\ cdfLock = NoOne
  /\ \E b \in ClientBlocks \ inUse :
       /\ inUse' = inUse \cup {b}
       /\ block' = [c \in ClientBlocks |->
            IF c = b THEN [cid |-> req[w].cid, next |-> NoOne, prev |-> tail]
            ELSE [block[c] EXCEPT !.next = IF c = tail THEN b ELSE @]]
       /\ head' = IF head = NoOne THEN b ELSE head
       /\ tail' = b
  /\ cdfPc' = [cdfPc EXCEPT ![w] = "first"]
  /\ UNCHANGED <<traffic, cdfLock, req, cursor, session, sent>>

FirstClient(w) ==
  /\ cdfPc[w] = "first"
  /\ cursor' = [cursor EXCEPT ![w] = head]
  /\ cdfPc' = [cdfPc EXCEPT ![w] = "search"]
  /\ UNCHANGED <<traffic, head, tail, block, inUse, cdfLock, req, session, sent>>

IsWanted(w) == block[cursor[w]].cid = req[w].cid /\ block[cursor[w]].next = NoOne

SearchClient(w) ==
  /\ cdfPc[w] = "search" /\ cursor[w] # NoOne /\ ~IsWanted(w)
  /\ cursor' = [cursor EXCEPT ![w] = block[cursor[w]].next]
  /\ UNCHANGED <<traffic, head, tail, block, inUse, cdfLock, cdfPc, req, session, sent>>

\* client->call_id with no client left.
RunOffList(w) ==
  /\ cdfPc[w] = "search" /\ cursor[w] = NoOne
  /\ cdfPc' = [cdfPc EXCEPT ![w] = "crashed"]
  /\ UNCHANGED <<traffic, head, tail, block, inUse, cdfLock, req, cursor, session, sent>>

FoundClient(w) ==
  /\ cdfPc[w] = "search" /\ cursor[w] # NoOne /\ IsWanted(w)
  /\ cdfPc' = [cdfPc EXCEPT ![w] = IF req[w].type = "STOP" THEN "delete" ELSE "answer"]
  /\ UNCHANGED <<traffic, head, tail, block, inUse, cdfLock, req, cursor, session, sent>>

\* EVENT writes into the client that the worker's previous request left behind.
EventRequest(w) ==
  /\ cdfPc[w] = "event"
  /\ cdfPc' = [cdfPc EXCEPT ![w] = IF cursor[w] = NoOne THEN "crashed" ELSE "answer"]
  /\ UNCHANGED <<traffic, head, tail, block, inUse, cdfLock, req, cursor, session, sent>>

\* The clients of the list: what the head leads to, the least set closed under next.
Closed(S) ==
  /\ head \in S \cup {NoOne}
  /\ \A b \in S : block[b].next \in S \cup {NoOne}

Listed == {b \in ClientBlocks : \A S \in SUBSET ClientBlocks : Closed(S) => b \in S}

Unlinked(b) ==
  [c \in ClientBlocks |->
     [block[c] EXCEPT
        !.next = IF b # head /\ c = block[b].prev THEN block[b].next ELSE @,
        !.prev = IF c = block[b].next THEN block[b].prev ELSE @]]

\* A mutant: the head of the list stays the deleted client.
DelClientKeepsHead(w) ==
  /\ cdfPc[w] = "delete" /\ cdfLock = NoOne /\ head # NoOne
  /\ \E b \in Listed :
       /\ block[b].cid = block[cursor[w]].cid
       /\ block' = Unlinked(b)
       /\ tail' = IF block[b].next = NoOne THEN block[b].prev ELSE tail
       /\ inUse' = inUse \ {b}
  /\ cdfPc' = [cdfPc EXCEPT ![w] = "answer"]
  /\ UNCHANGED <<traffic, head, cdfLock, req, cursor, session, sent>>

\* del_client(client->call_id); it takes the lock before it reads the head.
DelClient(w) ==
  /\ cdfPc[w] = "delete" /\ cdfLock = NoOne /\ head # NoOne
  /\ \/ \E b \in Listed :
          /\ block[b].cid = block[cursor[w]].cid
          /\ block' = Unlinked(b)
          /\ head' = IF b = head THEN block[b].next ELSE head
          /\ tail' = IF block[b].next = NoOne THEN block[b].prev ELSE tail
          /\ inUse' = inUse \ {b}
     \/ /\ \A b \in Listed : block[b].cid # block[cursor[w]].cid
        /\ UNCHANGED <<head, tail, block, inUse>>
  /\ cdfPc' = [cdfPc EXCEPT ![w] = "answer"]
  /\ UNCHANGED <<traffic, cdfLock, req, cursor, session, sent>>

\* this->call_id with an empty list, after lock_get.
DelNothing(w) ==
  /\ cdfPc[w] = "delete" /\ cdfLock = NoOne /\ head = NoOne
  /\ cdfLock' = w
  /\ cdfPc' = [cdfPc EXCEPT ![w] = "crashed"]
  /\ UNCHANGED <<traffic, head, tail, block, inUse, req, cursor, session, sent>>

\* Rf_ACA and process_incoming send the answer; client keeps its value.
AnswerAccounting(w) ==
  /\ cdfPc[w] = "answer"
  /\ session' = [session EXCEPT ![req[w].cid] =
                   IF req[w].type \in {"STOP", "EVENT"} THEN "none" ELSE "open"]
  /\ cdfPc' = [cdfPc EXCEPT ![w] = "idle"]
  /\ req' = [req EXCEPT ![w] = NoReq]
  /\ UNCHANGED <<traffic, head, tail, block, inUse, cdfLock, cursor, sent>>

(***************************** msg_timer *********************************)

\* It walks the list under the lock; what it counts there is only logged.
TimerLock ==
  /\ cdfLock = NoOne
  /\ cdfLock' = cdfTimer
  /\ UNCHANGED <<traffic, head, tail, block, inUse, cdfPc, req, cursor, session, sent>>

TimerRelease ==
  /\ cdfLock = cdfTimer
  /\ cdfLock' = NoOne
  /\ UNCHANGED <<traffic, head, tail, block, inUse, cdfPc, req, cursor, session, sent>>

CdfWork(w) ==
  \/ TestHead(w) \/ AddClient(w) \/ FirstClient(w) \/ SearchClient(w)
  \/ RunOffList(w) \/ FoundClient(w) \/ EventRequest(w)
  \/ DelClient(w) \/ DelNothing(w) \/ AnswerAccounting(w)

CdfNext ==
  \/ \E w \in CdfWorkers : CdfWork(w) \/ \E s \in Sessions, t \in Types : TakeRequest(w, s, t)
  \/ TimerLock \/ TimerRelease

CdfSpec == CdfInit /\ [][CdfNext]_cdfVars

(***************************** Properties ********************************)

\* The list that workers change under its lock stays a doubly linked list of exactly
\* the clients that are allocated, also when searches run beside it and workers die,
\* and while no STOP is repeated an authorised session is on it until it asks to stop:
\* no other session's STOP deletes its client (add_client, del_client, msg_handler).
ClientsListed ==
  /\ Listed = inUse
  /\ \A b \in inUse :
       /\ block[b].next = NoOne <=> tail = b
       /\ block[b].next # NoOne => block[block[b].next].prev = b
  /\ inUse = {} => tail = NoOne
  /\ traffic # "repeated" =>
       \A s \in Sessions : session[s] = "open" => \E b \in Listed : block[b].cid = s

\* While there is one session at a time no worker runs off the list, and while no STOP
\* is repeated none dies in del_client with the lock of the list (msg_handler).
WorkersSurvive ==
  /\ traffic = "single" => \A w \in CdfWorkers : cdfPc[w] # "crashed"
  /\ traffic # "repeated" => \A w \in CdfWorkers : cdfLock # w

\* The list of the CDF is sound and has every open session, and no worker of it dies,
\* while sessions come one at a time.
AccountingSound == ClientsListed /\ WorkersSurvive
=============================================================================
