---------------------------- MODULE CtfCharging -----------------------------
(***************************************************************************)
(* The charging trigger function: charging.c with the SIP events of the    *)
(* IPTV server that drive it and the answers that workers apply to it.     *)
(*                                                                         *)
(* sip_timer and msg_timer are callbacks of the timer process, so calls    *)
(* are opened, charged and closed by one process; it sleeps while a        *)
(* request is unanswered. A worker first wakes it (api_callback) and then  *)
(* adds the credit of the answer (process_incoming, event_handler YES).    *)
(***************************************************************************)
EXTENDS Integers, Sequences, SequencesExt

CONSTANTS
  Calls,      \* SIP calls (call_id)
  Workers,    \* worker processes
  timer,      \* the timer process
  Nil,        \* nobody
  Interval,   \* seconds between two INTERIM requests (30 in the code)
  Grants,     \* credits for seconds that an answer may carry
  Garbage,    \* values of events in memory that was never written
  MaxUsed,    \* bound on the seconds of a call
  SendFails   \* whether a request may fail to be sent

ASSUME CtfAssumption ==
  /\ timer \notin Workers /\ Nil \notin Workers \cup Calls \cup {timer}
  /\ Interval \in Nat \ {0} /\ Grants \subseteq Nat /\ MaxUsed \in Nat
  /\ Garbage \subseteq {"SStart", "Interim", "SStop", "Event", "none"}
  /\ SendFails \in BOOLEAN

VARIABLES
  list,      \* list_of_clients, the calls in its order
  client,    \* the a_client of each call; what a freed one held stays readable
  lock,      \* list_of_clients->lock: who took it last and has not released it
  pc,        \* where the timer process is
  msg,       \* the request it sends
  at,        \* the client its callback works on
  job,       \* what each worker does with an answer
  phase,     \* what the server has heard of each call
  reported   \* the seconds reported to the server for each call

vars == <<list, client, lock, pc, msg, at, job, phase, reported>>

Events == {"SStart", "Interim", "SStop", "Event", "none"}

NoJob == [call |-> Nil, grant |-> 0, step |-> "none", credit |-> 0]

\* add_client, which leaves events as it was.
NewClient(type, events) ==
  [online |-> type, events |-> events, timeout |-> Interval, credit |-> 0,
   volume |-> FALSE, used |-> 0, buf |-> 0, buf1 |-> 0]

Init ==
  /\ list = <<>>
  /\ client = [c \in Calls |-> NewClient(FALSE, "none")]
  /\ lock = Nil /\ pc = "idle" /\ msg = "START" /\ at = Nil
  /\ job = [w \in Workers |-> NoJob]
  /\ phase = [c \in Calls |-> "none"]
  /\ reported = [c \in Calls |-> 0]

IsListed(c) == Contains(list, c)

Place(c) == CHOOSE i \in DOMAIN list : list[i] = c

\* The client after c in the list, or Nil; del_client leaves c's own pointer.
After(c) == IF Place(c) = Len(list) THEN Nil ELSE list[Place(c) + 1]

(*************************** SIP events **********************************)

\* An INVITE: charge_iptv START adds a client and goes on to event_handler.
Invite(c) ==
  /\ pc = "idle" /\ lock = Nil /\ ~IsListed(c) /\ phase[c] = "none"
  /\ \E type \in BOOLEAN, e \in Garbage :
       client' = [client EXCEPT ![c] = NewClient(type, e)]
  /\ list' = Append(list, c)
  /\ pc' = "send" /\ msg' = "START" /\ at' = c
  /\ UNCHANGED <<lock, job, phase, reported>>

\* A BYE: charge_iptv STOP, for a call that was accepted. (A call that msg_timer
\* already stops gets another buf, which TickStop replaces before it is used.)
Closed(c) ==
  /\ pc = "idle" /\ lock = Nil /\ IsListed(c) /\ phase[c] = "open"
  /\ client[c].events # "SStop"
  /\ client' = [client EXCEPT ![c].events = "SStop",
                              ![c].buf = client[c].used - client[c].buf]
  /\ UNCHANGED <<list, lock, pc, msg, at, job, phase, reported>>

(*************************** event_handler *******************************)

\* A mutant: every request reports all that was used.
HeardAll(c) ==
  /\ phase' = [phase EXCEPT ![c] =
       IF @ = "failed" THEN @ ELSE IF msg = "STOP" THEN "closed" ELSE "open"]
  /\ reported' = [reported EXCEPT ![c] =
       IF msg = "START" THEN @ ELSE @ + client[c].used]

\* What the server hears: a request, and the seconds it reports.
Heard(c) ==
  /\ phase' = [phase EXCEPT ![c] =
       IF @ = "failed" THEN @ ELSE IF msg = "STOP" THEN "closed" ELSE "open"]
  /\ reported' = [reported EXCEPT ![c] = IF msg = "START" THEN @ ELSE @ + client[c].buf]

\* event_handler finds the client under the lock and sends the request.
Send ==
  /\ pc = "send" /\ lock = Nil /\ IsListed(at)
  /\ Heard(at)
  /\ pc' = "wait"
  /\ UNCHANGED <<list, client, lock, msg, at, job>>

\* The request is not sent: event_handler returns 0. After a START the call is
\* declined and its client stays, with the events its memory happened to hold.
SendFailed ==
  /\ SendFails
  /\ pc = "send" /\ lock = Nil /\ IsListed(at)
  /\ pc' = IF msg = "START" THEN "idle" ELSE "next"
  /\ at' = IF msg = "START" THEN Nil ELSE at
  /\ phase' = [phase EXCEPT ![at] = IF msg = "START" THEN "failed" ELSE @]
  /\ UNCHANGED <<list, client, lock, msg, job, reported>>

\* A worker has the answer: api_callback wakes the timer process.
Answered(w) ==
  /\ pc = "wait" /\ job[w] = NoJob
  /\ \E g \in Grants :
       job' = [job EXCEPT ![w] = [call |-> at, grant |-> g, step |-> "answer",
                                  credit |-> 0]]
  /\ pc' = "answered"
  /\ UNCHANGED <<list, client, lock, msg, at, phase, reported>>

\* The same for an answer without success, which process_incoming ignores.
Refused ==
  /\ pc = "wait"
  /\ pc' = "answered"
  /\ UNCHANGED <<list, client, lock, msg, at, job, phase, reported>>

\* The end of charge_iptv START.
Started ==
  /\ pc = "answered" /\ msg = "START" /\ lock = Nil
  /\ client' = [client EXCEPT ![at].events = "SStart"]
  /\ pc' = "idle" /\ at' = Nil
  /\ UNCHANGED <<list, lock, msg, job, phase, reported>>

Interimed ==
  /\ pc = "answered" /\ msg = "INTERIM"
  /\ pc' = "next"
  /\ UNCHANGED <<list, client, lock, msg, at, job, phase, reported>>

\* del_client; msg_timer goes on with client->next of the record that was freed.
Deleted ==
  /\ pc = "answered" /\ msg = "STOP" /\ lock = Nil
  /\ list' = RemoveAt(list, Place(at))
  /\ at' = After(at)
  /\ pc' = IF After(at) = Nil THEN "end" ELSE "tick"
  /\ UNCHANGED <<client, lock, msg, job, phase, reported>>

(******** process_incoming: event_handler YES in a worker ****************)

\* The search under the lock, and the credit as it is read for the addition.
CreditRead(w) ==
  /\ job[w].step = "answer" /\ lock = Nil
  /\ IF IsListed(job[w].call)
     THEN /\ lock' = w
          /\ job' = [job EXCEPT ![w].step = "add",
                                ![w].credit = client[job[w].call].credit]
     ELSE /\ job' = [job EXCEPT ![w] = NoJob]
          /\ UNCHANGED lock
  /\ UNCHANGED <<list, client, pc, msg, at, phase, reported>>

Credited(c, old, grant) ==
  IF client[c].online
  THEN [client[c] EXCEPT !.credit = old + grant, !.volume = @ \/ grant > 0]
  ELSE [client[c] EXCEPT !.credit = grant, !.volume = grant > 0]

CreditWrite(w) ==
  /\ job[w].step = "add"
  /\ client' = [client EXCEPT ![job[w].call] =
                  Credited(job[w].call, job[w].credit, job[w].grant)]
  /\ job' = [job EXCEPT ![w] = NoJob]
  /\ lock' = Nil
  /\ UNCHANGED <<list, pc, msg, at, phase, reported>>

(***************************** msg_timer *********************************)

TickStart ==
  /\ pc = "idle" /\ lock = Nil /\ list # <<>>
  /\ lock' = timer
  /\ pc' = "tick" /\ at' = Head(list)
  /\ UNCHANGED <<list, client, msg, job, phase, reported>>

\* A mutant: what an INTERIM reports is not remembered.
SecondForgets(r, last) ==
  LET left == IF r.online THEN r.credit - 1 ELSE r.credit
      over == r.timeout = 1
  IN [r EXCEPT
       !.timeout = @ - 1, !.used = @ + 1, !.credit = left,
       !.buf = IF over THEN r.used + 1 - r.buf1
               ELSE IF last /\ left = 0 THEN r.used + 1 - @ ELSE @,
       !.events = IF over THEN "Interim"
                  ELSE IF left = 0 \/ ~r.volume THEN "SStop" ELSE @]

\* A second of a running call. The end of the interval wins over the end of
\* the credit: its assignment to events comes last.
Second(r, last) ==
  LET left == IF r.online THEN r.credit - 1 ELSE r.credit
      over == r.timeout = 1
  IN [r EXCEPT
       !.timeout = @ - 1, !.used = @ + 1, !.credit = left,
       !.buf = IF over THEN r.used + 1 - r.buf1
               ELSE IF last /\ left = 0 THEN r.used + 1 - @ ELSE @,
       !.buf1 = IF over THEN r.used + 1 ELSE @,
       !.events = IF over THEN "Interim"
                  ELSE IF left = 0 \/ ~r.volume THEN "SStop" ELSE @]

TickRunning ==
  /\ pc = "tick" /\ client[at].events = "SStart"
  /\ client' = [client EXCEPT ![at] = IF @.used < MaxUsed THEN Second(@, After(at) = Nil)
                                         ELSE @]
  /\ pc' = "next"
  /\ UNCHANGED <<list, lock, msg, at, job, phase, reported>>

\* The lock is given up for the request and not taken again.
TickInterim ==
  /\ pc = "tick" /\ client[at].events = "Interim"
  /\ client' = [client EXCEPT ![at].events = "SStart", ![at].timeout = Interval]
  /\ lock' = Nil
  /\ pc' = "send" /\ msg' = "INTERIM"
  /\ UNCHANGED <<list, at, job, phase, reported>>

\* A mutant: the STOP is forgotten before it is sent.
TickStopOnce ==
  /\ pc = "tick" /\ client[at].events = "SStop"
  /\ client' = [client EXCEPT ![at].events = "none",
                              ![at].buf = client[at].used - client[at].buf1]
  /\ lock' = Nil
  /\ pc' = "send" /\ msg' = "STOP"
  /\ UNCHANGED <<list, at, job, phase, reported>>

TickStop ==
  /\ pc = "tick" /\ client[at].events = "SStop"
  /\ client' = [client EXCEPT ![at].buf = client[at].used - client[at].buf1]
  /\ lock' = Nil
  /\ pc' = "send" /\ msg' = "STOP"
  /\ UNCHANGED <<list, at, job, phase, reported>>

TickOther ==
  /\ pc = "tick" /\ client[at].events \in {"Event", "none"}
  /\ pc' = "next"
  /\ UNCHANGED <<list, client, lock, msg, at, job, phase, reported>>

NextClient ==
  /\ pc = "next"
  /\ at' = After(at)
  /\ pc' = IF After(at) = Nil THEN "end" ELSE "tick"
  /\ UNCHANGED <<list, client, lock, msg, job, phase, reported>>

\* Its condition is always true: the lock is released again even when it was
\* given up for a request, and whoever may hold it by now.
TickEnd ==
  /\ pc = "end"
  /\ lock' = Nil
  /\ pc' = "idle"
  /\ UNCHANGED <<list, client, msg, at, job, phase, reported>>

TimerStep ==
  \/ Send \/ SendFailed \/ Refused \/ Started \/ Interimed \/ Deleted
  \/ TickStart \/ TickRunning \/ TickInterim \/ TickStop \/ TickOther
  \/ NextClient \/ TickEnd

Next ==
  \/ \E c \in Calls : Invite(c) \/ Closed(c)
  \/ TimerStep
  \/ \E w \in Workers : Answered(w) \/ CreditRead(w) \/ CreditWrite(w)

\* The timer process and the workers are scheduled, the server answers, and a
\* request that fails again and again is sent at last.
Fairness ==
  /\ WF_vars(TimerStep) /\ SF_vars(Send)
  /\ WF_vars(Refused \/ \E w \in Workers : Answered(w))
  /\ \A w \in Workers : WF_vars(CreditRead(w) \/ CreditWrite(w))

Spec == Init /\ [][Next]_vars /\ Fairness

(***************************** Properties ********************************)

ClientType ==
  [online : BOOLEAN, events : Events, timeout : 0 .. Interval, credit : Int,
   volume : BOOLEAN, used : 0 .. MaxUsed, buf : 0 .. MaxUsed, buf1 : 0 .. MaxUsed]

JobType ==
  [call : Calls \cup {Nil}, grant : Grants \cup {0},
   step : {"none", "answer", "add"}, credit : Int]

TypeOK ==
  /\ list \in Seq(Calls) /\ client \in [Calls -> ClientType]
  /\ lock \in Workers \cup {timer, Nil}
  /\ pc \in {"idle", "send", "wait", "answered", "tick", "next", "end"}
  /\ msg \in {"START", "INTERIM", "STOP"} /\ at \in Calls \cup {Nil}
  /\ job \in [Workers -> JobType]
  /\ phase \in [Calls -> {"none", "failed", "open", "closed"}]
  /\ reported \in [Calls -> Nat]

sessionUsed == [c \in Calls |-> client[c].used]

Toward == INSTANCE ChargingSession WITH used <- sessionUsed

\* The servers hear of a call in the order START, INTERIM, STOP, it is charged in
\* between only, and never for more than it used (charge_iptv, msg_timer and
\* event_handler together, with requests that fail and answers that come late).
KeepsPromise == Toward!Spec

\* No second is reported twice: what was reported, what an INTERIM will report
\* and what has been used since the last one is no more than what was used
\* (used_crtdpsec_buf and used_crtdpsec_buf1 in msg_timer).
NoSecondTwice ==
  \A c \in Calls :
    LET r == client[c]
        due == \/ r.events = "Interim"
               \/ pc = "send" /\ msg = "INTERIM" /\ at = c
    IN phase[c] = "open" =>
         reported[c] + (IF due THEN r.buf ELSE 0) + (r.used - r.buf1) <= r.used

\* A call that is to be stopped leaves the list (msg_timer repeats a STOP that
\* could not be sent every second).
ClosedCallsEnd ==
  \A c \in Calls :
    pc = "idle" /\ IsListed(c) /\ client[c].events = "SStop" ~> ~IsListed(c)

\* "lock for list operations" (charging.h): a worker that updates a client holds it.
ListOperationsLocked == \A w \in Workers : job[w].step = "add" => lock = w

\* Every second a call used is reported by the time it is closed.
UsageReported ==
  \A c \in Calls : phase[c] = "closed" => reported[c] = client[c].used

\* "Terminate call on exhausted credits" (uct_aiptv_server.c): an online call uses
\* no more than its credits.
CreditsSuffice ==
  \A c \in Calls : client[c].online => client[c].credit >= 0
============================================================================
