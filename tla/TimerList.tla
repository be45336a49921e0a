----------------------------- MODULE TimerList ------------------------------
(***************************************************************************)
(* The timer process (timer.c): add_timer puts timers at the end of a      *)
(* list; timer_loop reads the time once, calls the first timer of the list *)
(* that has expired until none is left, and sleeps a second. A callback    *)
(* may take its time: the one of the charging trigger function waits for   *)
(* an answer.                                                              *)
(*                                                                         *)
(* Every caller of add_timer asks for a repeated timer before the process  *)
(* runs, so the list changes while it is filled only and one_time is left  *)
(* out. clock is the time(0) of the machine, 0 when the program starts.    *)
(***************************************************************************)
EXTENDS Integers, Sequences, SequencesExt, FiniteSets

CONSTANTS
  Timers,     \* the timers that are added
  Interval,   \* the interval of each, in seconds
  None,       \* no timer
  MaxSlow,    \* the most seconds a callback takes
  MaxSleep,   \* the most seconds sleep(1) takes
  MaxClock    \* bound on the clock

ASSUME TimerAssumption ==
  /\ IsFiniteSet(Timers) /\ None \notin Timers /\ Interval \in [Timers -> Nat \ {0}]
  /\ MaxSlow \in Nat /\ MaxSleep \in Nat \ {0} /\ MaxClock \in Nat

VARIABLES
  list,       \* timers, from head to tail
  expires,    \* of each timer
  counted,    \* the seconds that the calls of each timer stand for
  clock,      \* time(0)
  now,        \* the time timer_loop has read
  spent,      \* seconds spent in the callback or asleep
  cb,         \* the timer whose callback runs
  pc          \* where the process is

vars == <<list, expires, counted, clock, now, spent, cb, pc>>

Init ==
  /\ list = <<>>
  /\ expires = [t \in Timers |-> 0] /\ counted = [t \in Timers |-> 0]
  /\ clock = 0 /\ now = 0 /\ spent = 0 /\ cb = None /\ pc = "init"

AddTimer(t) ==
  /\ pc = "init" /\ ~Contains(list, t)
  /\ list' = Append(list, t)
  /\ expires' = [expires EXCEPT ![t] = Interval[t] + clock]
  /\ UNCHANGED <<counted, clock, now, spent, cb, pc>>

\* timer_process calls timer_loop once everything is initialised.
Start ==
  /\ pc = "init" /\ \A t \in Timers : Contains(list, t)
  /\ now' = clock
  /\ pc' = "serve"
  /\ UNCHANGED <<list, expires, counted, clock, spent, cb>>

\* The position of the first timer that has expired.
IsFirstExpired(i) ==
  /\ i \in DOMAIN list /\ expires[list[i]] <= now
  /\ \A j \in 1 .. i - 1 : expires[list[j]] > now

\* A mutant: the time is read again for every timer.
ServeAnew ==
  \E i \in DOMAIN list :
    /\ pc = "serve"
    /\ expires[list[i]] <= clock /\ \A j \in 1 .. i - 1 : expires[list[j]] > clock
    /\ cb' = list[i]
    /\ expires' = [expires EXCEPT ![list[i]] = clock + Interval[list[i]]]
    /\ counted' = [counted EXCEPT ![list[i]] = @ + Interval[list[i]]]
    /\ now' = clock
    /\ pc' = "call" /\ spent' = 0
    /\ UNCHANGED <<list, clock>>

Serve ==
  \E i \in DOMAIN list :
    /\ pc = "serve" /\ IsFirstExpired(i)
    /\ cb' = list[i]
    /\ expires' = [expires EXCEPT ![list[i]] = now + Interval[list[i]]]
    /\ counted' = [counted EXCEPT ![list[i]] = @ + Interval[list[i]]]
    /\ pc' = "call" /\ spent' = 0
    /\ UNCHANGED <<list, clock, now>>

\* The callback returns and the list is searched again from its head.
Return ==
  /\ pc = "call"
  /\ cb' = None
  /\ pc' = "serve"
  /\ UNCHANGED <<list, expires, counted, clock, now, spent>>

Sleep ==
  /\ pc = "serve" /\ \A t \in Timers : expires[t] > now
  /\ pc' = "sleep" /\ spent' = 0
  /\ UNCHANGED <<list, expires, counted, clock, now, cb>>

Wake ==
  /\ pc = "sleep" /\ spent > 0
  /\ now' = clock
  /\ pc' = "serve"
  /\ UNCHANGED <<list, expires, counted, clock, spent, cb>>

\* *shutdownx is read where the time is.
Shutdown ==
  /\ pc = "sleep" /\ spent > 0
  /\ pc' = "done"
  /\ UNCHANGED <<list, expires, counted, clock, now, spent, cb>>

\* A second passes.
Tick ==
  /\ clock < MaxClock
  /\ \/ pc = "call" /\ spent < MaxSlow
     \/ pc = "sleep" /\ spent < MaxSleep
  /\ clock' = clock + 1 /\ spent' = spent + 1
  /\ UNCHANGED <<list, expires, counted, now, cb, pc>>

Next ==
  \/ \E t \in Timers : AddTimer(t)
  \/ Start \/ Serve \/ Return \/ Sleep \/ Wake \/ Shutdown \/ Tick

Spec == Init /\ [][Next]_vars

(***************************** Properties ********************************)

TypeOK ==
  /\ list \in Seq(Timers) /\ expires \in [Timers -> Nat] /\ counted \in [Timers -> Nat]
  /\ clock \in Nat /\ now \in Nat /\ spent \in Nat
  /\ cb \in Timers \cup {None} /\ pc \in {"init", "serve", "call", "sleep", "done"}

\* No timer starves behind those before it in the list, however slow their callbacks
\* are: it is late by two rounds of callbacks and a sleep at most (timer_loop reads the
\* time once a round).
TimersInTime ==
  pc \in {"serve", "call", "sleep"} =>
    \A t \in Timers : clock - expires[t] <= 2 * Cardinality(Timers) * MaxSlow + MaxSleep

\* A timer that counts an interval for each of its calls never counts more seconds
\* than have passed, so no session is charged for time it did not have (timer_loop
\* sets expires from now; msg_timer, which counts a second per call).
NeverAhead == \A t \in Timers : counted[t] <= clock

\* Timers are neither late beyond that bound nor ahead (timer_loop).
TimersKeepTime == TimersInTime /\ NeverAhead
=============================================================================
