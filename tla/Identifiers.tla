---------------------------- MODULE Identifiers -----------------------------
(***************************************************************************)
(* The identifiers a Diameter peer hands out: sessions (session.c),        *)
(* Hop-by-hop and End-to-end identifiers (peermanager.c). Each is a        *)
(* counter of unsigned integers in shared memory that any process takes    *)
(* the next value of, under a lock; a session identifier is made of its    *)
(* counter and of a first part, chosen when the program starts.            *)
(*                                                                         *)
(* Of that first part only its lower half is modelled, the seconds of the  *)
(* start (time(0)&0xFFFF); its upper half is a random number.              *)
(***************************************************************************)
EXTENDS Integers

CONSTANTS
  Procs,    \* processes
  IdKinds,  \* the kinds of identifiers they make
  Wrap,     \* the numbers of an unsigned int, 2^32
  Seconds,  \* the seconds told apart, 2^16
  Starts,   \* values a counter of messages may start from
  Nobody

ASSUME IdentifiersAssumption ==
  /\ Nobody \notin Procs
  /\ IdKinds \subseteq {"session", "hopbyhop", "endtoend"}
  /\ Wrap \in Nat \ {0} /\ Seconds \in Nat \ {0} /\ Starts \subseteq 0 .. Wrap - 1

Locks == {"session_lock", "msg_id_lock"}
LockOf(k) == IF k = "session" THEN "session_lock" ELSE "msg_id_lock"

VARIABLES
  time,     \* seconds since the first start
  boot,     \* the time of the last start
  counter,  \* the values in shared memory
  start,    \* what they were at the start
  made,     \* how many of each kind were made since then
  owner,    \* of each lock
  doing,    \* what each process does
  kind,     \* the kind of identifier it makes
  next,     \* its local variable
  issued    \* the identifiers handed out: <<kind, boot, number>>

Nothing == "nothing"

idVars == <<time, boot, counter, start, made, owner, doing, kind, next, issued>>

\* session_init, peer_manager_init.
InitialValues == {f \in [IdKinds -> Starts \cup {0}] : \A k \in IdKinds : k = "session" => f[k] = 0}

IdInit ==
  /\ time = 0 /\ boot = 0
  /\ start \in InitialValues
  /\ counter = start
  /\ made = [k \in IdKinds |-> 0]
  /\ owner = [l \in Locks |-> Nobody]
  /\ doing = [p \in Procs |-> "idle"]
  /\ kind = [p \in Procs |-> Nothing]
  /\ next = [p \in Procs |-> 0]
  /\ issued = {}

Successor(n) == IF n = Wrap - 1 THEN 0 ELSE n + 1

\* A process makes an identifier.
Begin(p, k) ==
  /\ doing[p] = "idle"
  /\ doing' = [doing EXCEPT ![p] = "lock"]
  /\ kind' = [kind EXCEPT ![p] = k]
  /\ UNCHANGED <<time, boot, counter, start, made, owner, next, issued>>

\* A mutant: the counter is read before the lock is taken.
LockLate(p) ==
  /\ doing[p] = "lock"
  /\ next' = [next EXCEPT ![p] = Successor(counter[kind[p]])]
  /\ doing' = [doing EXCEPT ![p] = "write"]
  /\ UNCHANGED <<time, boot, counter, start, made, owner, kind, issued>>

\* No more than Wrap identifiers of a kind are made between two starts.
Lock(p) ==
  /\ doing[p] = "lock" /\ owner[LockOf(kind[p])] = Nobody
  /\ made[kind[p]] < Wrap
  /\ owner' = [owner EXCEPT ![LockOf(kind[p])] = p]
  /\ doing' = [doing EXCEPT ![p] = "read"]
  /\ UNCHANGED <<time, boot, counter, start, made, kind, next, issued>>

Read(p) ==
  /\ doing[p] = "read"
  /\ next' = [next EXCEPT ![p] = Successor(counter[kind[p]])]
  /\ doing' = [doing EXCEPT ![p] = "write"]
  /\ UNCHANGED <<time, boot, counter, start, made, owner, kind, issued>>

Write(p) ==
  /\ doing[p] = "write"
  /\ counter' = [counter EXCEPT ![kind[p]] = next[p]]
  /\ made' = [made EXCEPT ![kind[p]] = @ + 1]
  /\ doing' = [doing EXCEPT ![p] = "unlock"]
  /\ UNCHANGED <<time, boot, start, owner, kind, next, issued>>

Unlock(p) ==
  /\ doing[p] = "unlock"
  /\ owner' = [owner EXCEPT ![LockOf(kind[p])] = Nobody]
  /\ doing' = [doing EXCEPT ![p] = "return"]
  /\ UNCHANGED <<time, boot, counter, start, made, kind, next, issued>>

Identifier(p) == <<kind[p], boot, next[p]>>

\* The caller gets the identifier; a session's is printed without the lock.
HandOut(p) ==
  /\ doing[p] = "return"
  /\ issued' = issued \cup {Identifier(p)}
  /\ doing' = [doing EXCEPT ![p] = "idle"]
  /\ kind' = [kind EXCEPT ![p] = Nothing] /\ next' = [next EXCEPT ![p] = 0]
  /\ UNCHANGED <<time, boot, counter, start, made, owner>>

Pass ==
  /\ time < Seconds - 1
  /\ time' = time + 1
  /\ UNCHANGED <<boot, counter, start, made, owner, doing, kind, next, issued>>

\* The program dies and starts again: everything is made anew.
Restart ==
  /\ time > boot
  /\ boot' = time
  /\ start' \in InitialValues
  /\ counter' = start'
  /\ made' = [k \in IdKinds |-> 0]
  /\ owner' = [l \in Locks |-> Nobody]
  /\ doing' = [p \in Procs |-> "idle"]
  /\ kind' = [p \in Procs |-> Nothing] /\ next' = [p \in Procs |-> 0]
  /\ UNCHANGED <<time, issued>>

Make(p) == Lock(p) \/ Read(p) \/ Write(p) \/ Unlock(p) \/ HandOut(p)

IdNext ==
  \/ \E p \in Procs : Make(p) \/ \E k \in IdKinds : Begin(p, k)
  \/ Pass \/ Restart

IdSpec == IdInit /\ [][IdNext]_idVars

(***************************** Properties ********************************)

IdTypeOK ==
  /\ time \in 0 .. Seconds - 1 /\ boot \in 0 .. time
  /\ counter \in [IdKinds -> 0 .. Wrap - 1] /\ start \in [IdKinds -> 0 .. Wrap - 1]
  /\ made \in [IdKinds -> 0 .. Wrap]
  /\ owner \in [Locks -> Procs \cup {Nobody}]
  /\ doing \in [Procs -> {"idle", "lock", "read", "write", "unlock", "return"}]
  /\ kind \in [Procs -> IdKinds \cup {Nothing}] /\ next \in [Procs -> 0 .. Wrap - 1]
  /\ issued \subseteq IdKinds \X (0 .. Seconds - 1) \X (0 .. Wrap - 1)

\* No identifier is handed out twice: not to two processes, not by a counter that
\* wraps around, and, for sessions, not by the program restarted, while it makes fewer
\* than 2^32 between two starts and is not started twice in a second or after 2^16
\* (generate_sessionID, next_hopbyhop, next_endtoend).
IssuedOnce ==
  \A p \in Procs : doing[p] = "return" =>
    /\ Identifier(p) \notin issued
    /\ \A q \in Procs : doing[q] = "return" /\ Identifier(q) = Identifier(p) => q = p
=============================================================================
