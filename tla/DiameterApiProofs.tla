------------------------- MODULE DiameterApiProofs -------------------------
(***************************************************************************)
(* What every request needs, for all values of the constants: identifiers  *)
(* that no other request has (Identifiers), a peer to go to (Routing) that *)
(* has the application (Capabilities), someone who frees it and its answer *)
(* (MessageLife), and two sides that understand each other                 *)
(* (DiameterMessages, ChargingMessages).                                   *)
(***************************************************************************)
EXTENDS Identifiers, Routing, MessageLife, Capabilities, ChargingMessages, TLAPS,
        SequenceTheorems, WellFoundedInduction

(***************************************************************************)
(* No identifier is handed out twice, for any processes, widths of the     *)
(* counters and starting values. Between two starts the identifiers of a   *)
(* kind are the numbers that follow its starting value, one for each that  *)
(* was made; the holder of the lock is about to make the next one.         *)
(***************************************************************************)

\* The number that follows the starting value of a kind after i steps.
Nth(k, i) == IF start[k] + i < Wrap THEN start[k] + i ELSE start[k] + i - Wrap

\* The numbers of a kind that were made since the start.
Used(k) == {Nth(k, i) : i \in 1 .. made[k]}

\* A process that is in its critical section.
Busy(p) == doing[p] \in {"read", "write", "unlock"}

\* A process that has made an identifier and not handed it out.
Pending(p) == doing[p] \in {"unlock", "return"}

KindOK == \A p \in Procs : doing[p] # "idle" => kind[p] \in IdKinds

OwnerOK == \A p \in Procs : Busy(p) => owner[LockOf(kind[p])] = p

CounterOK == \A k \in IdKinds : counter[k] = Nth(k, made[k])

\* The holder of a lock has room for one more number, and it is the one after the counter.
WriterOK ==
  \A p \in Procs :
    /\ doing[p] \in {"read", "write"} => made[kind[p]] < Wrap
    /\ doing[p] = "write" => next[p] = Successor(counter[kind[p]])

PendingOK ==
  \A p \in Procs : Pending(p) =>
    /\ next[p] \in Used(kind[p])
    /\ Identifier(p) \notin issued
    /\ \A q \in Procs : Pending(q) /\ Identifier(q) = Identifier(p) => q = p

IssuedOK ==
  \A x \in issued : x[2] <= boot /\ (x[2] = boot => x[3] \in Used(x[1]))

IdIInv == IdTypeOK /\ KindOK /\ OwnerOK /\ CounterOK /\ WriterOK /\ PendingOK /\ IssuedOK

USE IdentifiersAssumption

LEMMA NothingIsNoKind == Nothing \notin IdKinds
  BY DEF Nothing

\* The next number was not used, while fewer than Wrap were made.
LEMMA NextIsNew ==
  ASSUME IdTypeOK, NEW k \in IdKinds, made[k] < Wrap, counter[k] = Nth(k, made[k])
  PROVE  /\ Successor(counter[k]) = Nth(k, made[k] + 1)
         /\ Successor(counter[k]) \in 0 .. Wrap - 1
         /\ Successor(counter[k]) \notin Used(k)
  <1>1. start[k] \in 0 .. Wrap - 1 /\ made[k] \in 0 .. Wrap - 1 /\ counter[k] \in 0 .. Wrap - 1
    BY DEF IdTypeOK
  <1>2. Successor(counter[k]) = Nth(k, made[k] + 1) /\ Successor(counter[k]) \in 0 .. Wrap - 1
    BY <1>1 DEF Successor, Nth
  <1>3. ASSUME NEW i \in 1 .. made[k] PROVE Nth(k, i) # Nth(k, made[k] + 1)
    BY <1>1 DEF Nth
  <1> QED
    BY <1>2, <1>3 DEF Used

\* The holder of a lock is the only one.
LEMMA Exclusion ==
  ASSUME IdIInv, NEW p \in Procs, NEW q \in Procs, Busy(p), Busy(q), kind[p] = kind[q]
  PROVE  p = q
  BY DEF IdIInv, OwnerOK

LEMMA InitialValuesOK == ASSUME NEW f \in InitialValues PROVE f \in [IdKinds -> 0 .. Wrap - 1]
  <1>1. Starts \cup {0} \subseteq 0 .. Wrap - 1
    OBVIOUS
  <1>2. f \in [IdKinds -> Starts \cup {0}]
    BY DEF InitialValues
  <1> QED
    BY <1>1, <1>2

LEMMA IdInitInv == IdInit => IdIInv
  <1> SUFFICES ASSUME IdInit PROVE IdIInv
    OBVIOUS
  <1> USE DEF IdInit
  <1>1. start \in [IdKinds -> 0 .. Wrap - 1]
    BY InitialValuesOK
  <1>2. IdTypeOK
    BY <1>1 DEF IdTypeOK, Nothing
  <1>3. KindOK /\ OwnerOK /\ WriterOK /\ PendingOK /\ IssuedOK
    BY DEF KindOK, OwnerOK, Busy, WriterOK, PendingOK, Pending, IssuedOK
  <1>4. CounterOK
    BY <1>1 DEF CounterOK, Nth
  <1> QED
    BY <1>2, <1>3, <1>4 DEF IdIInv

LEMMA BeginInv == ASSUME IdIInv, NEW p \in Procs, NEW k \in IdKinds, Begin(p, k) PROVE IdIInv'
  <1> USE DEF IdIInv, Begin
  <1>1. IdTypeOK'
    BY DEF IdTypeOK
  <1>2. KindOK' /\ OwnerOK'
    BY DEF IdTypeOK, KindOK, OwnerOK, Busy
  <1>3. CounterOK' /\ IssuedOK'
    BY DEF CounterOK, IssuedOK, Used, Nth
  <1>4. WriterOK'
    BY DEF IdTypeOK, WriterOK
  <1>5. \A q \in Procs : Pending(q)' => Pending(q) /\ Identifier(q)' = Identifier(q) /\ q # p
    BY DEF IdTypeOK, Pending, Identifier
  <1>6. PendingOK'
    BY <1>5 DEF IdTypeOK, PendingOK, Used, Nth
  <1> QED
    BY <1>1, <1>2, <1>3, <1>4, <1>6

LEMMA LockInv == ASSUME IdIInv, NEW p \in Procs, Lock(p) PROVE IdIInv'
  <1> USE DEF IdIInv, Lock
  <1>1. IdTypeOK'
    BY DEF IdTypeOK
  <1>2. KindOK'
    BY DEF IdTypeOK, KindOK
  <1>3. OwnerOK'
    BY DEF IdTypeOK, KindOK, OwnerOK, Busy, Locks, LockOf
  <1>4. CounterOK' /\ IssuedOK'
    BY DEF CounterOK, IssuedOK, Used, Nth
  <1>5. WriterOK'
    BY DEF IdTypeOK, WriterOK
  <1>6. \A q \in Procs : Pending(q)' => Pending(q) /\ Identifier(q)' = Identifier(q)
    BY DEF IdTypeOK, Pending, Identifier
  <1>7. PendingOK'
    BY <1>6 DEF PendingOK, Used, Nth
  <1> QED
    BY <1>1, <1>2, <1>3, <1>4, <1>5, <1>7

LEMMA ReadInv == ASSUME IdIInv, NEW p \in Procs, Read(p) PROVE IdIInv'
  <1> USE DEF IdIInv, Read
  <1>1. kind[p] \in IdKinds /\ made[kind[p]] < Wrap
    BY DEF KindOK, WriterOK
  <1>2. Successor(counter[kind[p]]) \in 0 .. Wrap - 1
    BY <1>1, NextIsNew DEF CounterOK
  <1>3. IdTypeOK'
    BY <1>2 DEF IdTypeOK
  <1>4. KindOK' /\ OwnerOK'
    BY DEF IdTypeOK, KindOK, OwnerOK, Busy
  <1>5. CounterOK' /\ IssuedOK'
    BY DEF CounterOK, IssuedOK, Used, Nth
  <1>6. WriterOK'
    BY <1>1 DEF IdTypeOK, WriterOK, Successor
  <1>7. \A q \in Procs : Pending(q)' => /\ Pending(q) /\ Identifier(q)' = Identifier(q)
                                       /\ kind'[q] = kind[q] /\ next'[q] = next[q]
    BY DEF IdTypeOK, Pending, Identifier
  <1>8. \A k \in IdKinds : Used(k)' = Used(k)
    BY DEF Used, Nth
  <1>9. PendingOK'
    <2> SUFFICES ASSUME NEW q \in Procs, Pending(q)'
                 PROVE  /\ next'[q] \in Used(kind[q])' /\ Identifier(q)' \notin issued'
                        /\ \A r \in Procs : Pending(r)' /\ Identifier(r)' = Identifier(q)' => r = q
      BY DEF PendingOK
    <2>1. /\ next[q] \in Used(kind[q]) /\ Identifier(q) \notin issued
          /\ \A r \in Procs : Pending(r) /\ Identifier(r) = Identifier(q) => r = q
          /\ kind[q] \in IdKinds
      BY <1>7 DEF PendingOK, KindOK, Pending
    <2> QED
      BY <1>7, <1>8, <2>1
  <1> QED
    BY <1>3, <1>4, <1>5, <1>6, <1>9

LEMMA WriteInv == ASSUME IdIInv, NEW p \in Procs, Write(p) PROVE IdIInv'
  <1> USE DEF IdIInv, Write
  <1>0. kind[p] \in IdKinds
    BY DEF KindOK
  <1> PICK k \in IdKinds : k = kind[p]
    BY <1>0
  <1>1. k \in IdKinds /\ made[k] < Wrap /\ Busy(p)
    BY DEF WriterOK, Busy
  <1>2. /\ next[p] = Nth(k, made[k] + 1) /\ next[p] \notin Used(k)
        /\ next[p] \in 0 .. Wrap - 1
    BY <1>1, NextIsNew DEF WriterOK, CounterOK
  <1>3. \A q \in Procs : q # p /\ Busy(q) => kind[q] # k
    BY <1>1, Exclusion
  <1>4. /\ counter' = [counter EXCEPT ![k] = next[p]]
        /\ made' = [made EXCEPT ![k] = @ + 1]
    OBVIOUS
  <1>5. IdTypeOK'
    BY <1>1, <1>2, <1>4 DEF IdTypeOK
  <1>6. KindOK' /\ OwnerOK'
    BY DEF IdTypeOK, KindOK, OwnerOK, Busy
  <1>7. CounterOK'
    BY <1>1, <1>2, <1>4 DEF IdTypeOK, CounterOK, Nth
  <1>8. WriterOK'
    <2> SUFFICES ASSUME NEW q \in Procs, doing'[q] \in {"read", "write"}
                 PROVE  /\ made'[kind'[q]] < Wrap
                        /\ doing'[q] = "write" => next'[q] = Successor(counter[kind[q]])'
      BY DEF WriterOK
    <2>1. q # p /\ doing'[q] = doing[q] /\ kind'[q] = kind[q] /\ next'[q] = next[q]
      BY DEF IdTypeOK
    <2>2. kind[q] \in IdKinds /\ kind[q] # k
      BY <2>1, <1>3 DEF KindOK, Busy
    <2>3. made'[kind'[q]] = made[kind[q]] /\ counter'[kind'[q]] = counter[kind[q]]
      BY <2>1, <2>2, <1>4 DEF IdTypeOK
    <2> QED
      BY <2>1, <2>3 DEF WriterOK, Successor
  <1>9. \A j \in IdKinds : Used(j) \subseteq Used(j)'
    BY <1>1, <1>4 DEF IdTypeOK, Used, Nth
  <1>10. next[p] \in Used(k)'
    <2>1. made'[k] = made[k] + 1 /\ made[k] + 1 \in 1 .. made'[k]
      BY <1>1, <1>4 DEF IdTypeOK
    <2> QED
      BY <1>2, <2>1 DEF Used, Nth
  <1>11. IssuedOK'
    BY <1>9 DEF IdTypeOK, IssuedOK
  <1>12. Identifier(p) \notin issued
    BY <1>2 DEF IssuedOK, Identifier
  <1>13. /\ \A q \in Procs : Identifier(q)' = Identifier(q) /\ kind'[q] = kind[q] /\ next'[q] = next[q]
         /\ \A q \in Procs : Pending(q)' => Pending(q) \/ q = p
         /\ issued' = issued
    BY DEF IdTypeOK, Pending, Identifier
  <1>14. ASSUME NEW q \in Procs, Pending(q) PROVE Identifier(q) # Identifier(p)
    BY <1>14, <1>2 DEF PendingOK, Identifier
  <1>15. ASSUME NEW q \in Procs, Pending(q)
         PROVE  /\ next[q] \in Used(kind[q])' /\ Identifier(q) \notin issued
                /\ \A r \in Procs : Pending(r) /\ Identifier(r) = Identifier(q) => r = q
    BY <1>15, <1>9 DEF PendingOK, KindOK, Pending
  <1>16. PendingOK'
    <2> SUFFICES ASSUME NEW q \in Procs, Pending(q)'
                 PROVE  /\ next'[q] \in Used(kind[q])' /\ Identifier(q)' \notin issued'
                        /\ \A r \in Procs : Pending(r)' /\ Identifier(r)' = Identifier(q)' => r = q
      BY DEF PendingOK
    <2>1. CASE q = p
      <3>1. next'[q] \in Used(kind[q])'
        BY <2>1, <1>10, <1>13
      <3> QED
        BY <3>1, <2>1, <1>12, <1>13, <1>14
    <2>2. CASE q # p
      BY <2>2, <1>13, <1>14, <1>15
    <2> QED
      BY <2>1, <2>2
  <1> QED
    BY <1>5, <1>6, <1>7, <1>8, <1>11, <1>16

LEMMA UnlockInv == ASSUME IdIInv, NEW p \in Procs, Unlock(p) PROVE IdIInv'
  <1> USE DEF IdIInv, Unlock
  <1>1. kind[p] \in IdKinds /\ Busy(p)
    BY DEF KindOK, Busy
  <1>2. IdTypeOK'
    BY DEF IdTypeOK
  <1>3. KindOK'
    BY DEF IdTypeOK, KindOK
  <1>4. OwnerOK'
    BY <1>1 DEF IdTypeOK, KindOK, OwnerOK, Busy, Locks, LockOf
  <1>5. CounterOK' /\ IssuedOK'
    BY DEF CounterOK, IssuedOK, Used, Nth
  <1>6. WriterOK'
    BY DEF IdTypeOK, WriterOK
  <1>7. \A q \in Procs : Pending(q)' => Pending(q) /\ Identifier(q)' = Identifier(q)
    BY DEF IdTypeOK, Pending, Identifier
  <1>8. PendingOK'
    BY <1>7 DEF PendingOK, Used, Nth
  <1> QED
    BY <1>2, <1>3, <1>4, <1>5, <1>6, <1>8

LEMMA HandOutInv == ASSUME IdIInv, NEW p \in Procs, HandOut(p) PROVE IdIInv'
  <1> USE DEF IdIInv, HandOut
  <1>1. kind[p] \in IdKinds /\ Pending(p)
    BY DEF KindOK, Pending
  <1>2. Identifier(p) = <<kind[p], boot, next[p]>> /\ next[p] \in Used(kind[p])
    BY <1>1 DEF Identifier, PendingOK
  <1>3. Identifier(p) \in IdKinds \X (0 .. Seconds - 1) \X (0 .. Wrap - 1)
    BY <1>1, <1>2 DEF IdTypeOK
  <1>4. IdTypeOK'
    BY <1>3 DEF IdTypeOK
  <1>5. KindOK' /\ OwnerOK'
    BY DEF IdTypeOK, KindOK, OwnerOK, Busy
  <1>6. CounterOK'
    BY DEF CounterOK, Nth
  <1>7. WriterOK'
    BY DEF IdTypeOK, WriterOK
  <1>8. \A k \in IdKinds : Used(k)' = Used(k)
    BY DEF Used, Nth
  <1>9. IssuedOK'
    <2> SUFFICES ASSUME NEW x \in issued'
                 PROVE  x[2] <= boot' /\ (x[2] = boot' => x[3] \in Used(x[1])')
      BY DEF IssuedOK
    <2>1. CASE x = Identifier(p)
      <3>1. x[1] = kind[p] /\ x[2] = boot /\ x[3] = next[p]
        BY <2>1, <1>2
      <3>2. next[p] \in Used(x[1])'
        BY <3>1, <1>1, <1>2, <1>8
      <3> QED
        BY <3>1, <3>2 DEF IdTypeOK
    <2>2. CASE x \in issued
      <3>1. x \in IdKinds \X (0 .. Seconds - 1) \X (0 .. Wrap - 1)
        BY <2>2 DEF IdTypeOK
      <3>2. x[1] \in IdKinds
        BY <3>1
      <3>3. Used(x[1])' = Used(x[1])
        BY <3>2, <1>8
      <3>4. x[2] <= boot /\ (x[2] = boot => x[3] \in Used(x[1]))
        BY <2>2 DEF IssuedOK
      <3> QED
        BY <3>3, <3>4
    <2> QED
      BY <2>1, <2>2
  <1>10. /\ \A q \in Procs : Pending(q)' => /\ Pending(q) /\ q # p
                                           /\ Identifier(q)' = Identifier(q)
                                           /\ kind'[q] = kind[q] /\ next'[q] = next[q]
         /\ issued' = issued \cup {Identifier(p)}
    BY DEF IdTypeOK, Pending, Identifier
  <1>11. PendingOK'
    <2> SUFFICES ASSUME NEW q \in Procs, Pending(q)'
                 PROVE  /\ next'[q] \in Used(kind[q])' /\ Identifier(q)' \notin issued'
                        /\ \A r \in Procs : Pending(r)' /\ Identifier(r)' = Identifier(q)' => r = q
      BY DEF PendingOK
    <2>1. /\ next[q] \in Used(kind[q]) /\ Identifier(q) \notin issued
          /\ \A r \in Procs : Pending(r) /\ Identifier(r) = Identifier(q) => r = q
          /\ kind[q] \in IdKinds
      BY <1>10 DEF PendingOK, KindOK, Pending
    <2>2. Identifier(q) # Identifier(p)
      BY <1>1, <1>10, <2>1
    <2> QED
      BY <2>1, <2>2, <1>8, <1>10
  <1> QED
    BY <1>4, <1>5, <1>6, <1>7, <1>9, <1>11

LEMMA PassInv == ASSUME IdIInv, Pass PROVE IdIInv'
  <1> USE DEF IdIInv, Pass
  <1>1. IdTypeOK'
    BY DEF IdTypeOK
  <1>2. KindOK' /\ OwnerOK' /\ WriterOK'
    BY DEF KindOK, OwnerOK, Busy, WriterOK, Successor
  <1>3. CounterOK' /\ IssuedOK' /\ PendingOK'
    BY DEF CounterOK, IssuedOK, PendingOK, Pending, Identifier, Used, Nth
  <1> QED
    BY <1>1, <1>2, <1>3

\* What was handed out before the program starts again carries an earlier time.
LEMMA RestartInv == ASSUME IdIInv, Restart PROVE IdIInv'
  <1> USE DEF IdIInv, Restart
  <1>1. start' \in [IdKinds -> 0 .. Wrap - 1]
    BY InitialValuesOK
  <1>2. IdTypeOK'
    BY <1>1 DEF IdTypeOK, Nothing
  <1>3. KindOK' /\ OwnerOK' /\ WriterOK' /\ PendingOK'
    BY DEF KindOK, OwnerOK, Busy, WriterOK, PendingOK, Pending
  <1>4. CounterOK'
    BY <1>1 DEF CounterOK, Nth
  <1>5. IssuedOK'
    BY DEF IdTypeOK, IssuedOK
  <1> QED
    BY <1>2, <1>3, <1>4, <1>5

LEMMA IdStepInv == IdIInv /\ [IdNext]_idVars => IdIInv'
  <1> SUFFICES ASSUME IdIInv, [IdNext]_idVars PROVE IdIInv'
    OBVIOUS
  <1>1. ASSUME NEW p \in Procs, NEW k \in IdKinds, Begin(p, k) PROVE IdIInv'
    BY <1>1, BeginInv
  <1>2. ASSUME NEW p \in Procs, Make(p) PROVE IdIInv'
    BY <1>2, LockInv, ReadInv, WriteInv, UnlockInv, HandOutInv DEF Make
  <1>3. CASE Pass
    BY <1>3, PassInv
  <1>4. CASE Restart
    BY <1>4, RestartInv
  <1>5. CASE UNCHANGED idVars
    <2> USE <1>5 DEF IdIInv, idVars
    <2>1. IdTypeOK' /\ KindOK' /\ OwnerOK' /\ WriterOK'
      BY DEF IdTypeOK, KindOK, OwnerOK, Busy, WriterOK, Successor
    <2>2. CounterOK' /\ IssuedOK' /\ PendingOK'
      BY DEF CounterOK, IssuedOK, PendingOK, Pending, Identifier, Used, Nth
    <2> QED
      BY <2>1, <2>2
  <1> QED
    BY <1>1, <1>2, <1>3, <1>4, <1>5 DEF IdNext

THEOREM IdInductive == IdSpec => []IdIInv
  BY IdInitInv, IdStepInv, PTL DEF IdSpec

\* Every variable keeps its type.
THEOREM IdTypeCorrect == IdSpec => []IdTypeOK
  <1>1. IdIInv => IdTypeOK
    BY DEF IdIInv
  <1> QED
    BY <1>1, IdInductive, PTL

\* No identifier is handed out twice: whatever the processes, the width of the counters
\* and the values they start from.
THEOREM IdentifiersAreNew == IdSpec => []IssuedOnce
  <1>1. IdIInv => IssuedOnce
    BY DEF IdIInv, IssuedOnce, PendingOK, Pending
  <1> QED
    BY <1>1, IdInductive, PTL

(***************************************************************************)
(* The choice of a peer, for any routing table and any peers that come and *)
(* go while it is made: a host that is usable all the time is in no route  *)
(* that was given up.                                                      *)
(***************************************************************************)

RouteTypeOK ==
  /\ table \in [realms : [Realms -> Seq(Hosts)], default : Seq(Hosts)]
  /\ msg \in [host : Hosts \cup {Nil}, realm : Realms \cup {Nil}]
  /\ trying \in {"host", "realm", "default", "done"} /\ turn \in Nat \ {0}
  /\ result \in Hosts \cup {Nil}
  /\ open \subseteq Hosts /\ steady \subseteq Hosts

\* What is usable all the time is usable now, and what is usable now has been seen so.
SeenOK == steady \subseteq open \cap Handling /\ open \cap Handling \subseteq seen

\* The Destination-Host was given up only if it was not usable once.
HostGivenUp == trying \in {"realm", "default"} => msg.host \notin steady

\* So was the first route of the realm.
RealmGivenUp == trying = "default" => FirstOf(RealmRoutes) \cap steady = {}

\* So was the first of the routes that are tried, after a turn.
RouteGivenUp ==
  trying \in {"realm", "default"} /\ turn > 1 => FirstOf(Routes) \cap steady = {}

RouteIInv ==
  RouteTypeOK /\ SeenOK /\ HostGivenUp /\ RealmGivenUp /\ RouteGivenUp /\ SteadyPeerIsUsed

USE RoutingAssumption

LEMMA FirstElement ==
  ASSUME NEW s \in Seq(Hosts)
  PROVE  /\ Len(s) \in Nat
         /\ 1 <= Len(s) => FirstOf(s) = {s[1]} /\ s[1] \in Hosts
         /\ Len(s) = 0 => FirstOf(s) = {}
  BY DEF FirstOf

LEMMA RoutesAreHosts ==
  ASSUME RouteTypeOK PROVE Routes \in Seq(Hosts) /\ RealmRoutes \in Seq(Hosts)
  BY DEF RouteTypeOK, Routes, RealmRoutes

LEMMA RouteInitInv == RouteInit => RouteIInv
  <1> SUFFICES ASSUME RouteInit PROVE RouteIInv
    OBVIOUS
  <1>1. RouteTypeOK
    BY DEF RouteInit, RouteTypeOK
  <1>2. SeenOK /\ HostGivenUp /\ RealmGivenUp /\ RouteGivenUp /\ SteadyPeerIsUsed
    BY DEF RouteInit, SeenOK, HostGivenUp, RealmGivenUp, RouteGivenUp, SteadyPeerIsUsed
  <1> QED
    BY <1>1, <1>2 DEF RouteIInv

LEMMA ChangeInv == ASSUME RouteIInv, NEW h \in Hosts, Change(h) PROVE RouteIInv'
  <1> USE DEF RouteIInv, Change
  <1>1. RouteTypeOK'
    BY DEF RouteTypeOK
  <1>2. SeenOK'
    BY DEF SeenOK
  <1>3. HostGivenUp'
    BY DEF HostGivenUp
  <1>4. Routes' = Routes /\ RealmRoutes' = RealmRoutes /\ steady' \subseteq steady
    BY DEF Routes, RealmRoutes
  <1>5. RealmGivenUp' /\ RouteGivenUp'
    BY <1>4 DEF RealmGivenUp, RouteGivenUp, FirstOf
  <1>6. SteadyPeerIsUsed'
    BY DEF SteadyPeerIsUsed
  <1> QED
    BY <1>1, <1>2, <1>3, <1>5, <1>6

LEMMA TryHostInv == ASSUME RouteIInv, TryHost PROVE RouteIInv'
  <1> USE DEF RouteIInv, TryHost
  <1>1. RouteTypeOK'
    BY DEF RouteTypeOK, Usable, Choose, Try
  <1>2. SeenOK'
    BY DEF SeenOK
  <1>3. HostGivenUp' /\ RealmGivenUp' /\ RouteGivenUp'
    BY DEF HostGivenUp, RealmGivenUp, RouteGivenUp, RouteTypeOK, SeenOK, Usable, Choose, Try
  <1>4. SteadyPeerIsUsed'
    <2>1. CASE msg.host # Nil /\ Usable(msg.host)
      BY <2>1 DEF SteadyPeerIsUsed, Choose, Usable, RouteTypeOK, SeenOK
    <2>2. CASE ~(msg.host # Nil /\ Usable(msg.host))
      BY <2>2 DEF SteadyPeerIsUsed, Try
    <2> QED
      BY <2>1, <2>2
  <1> QED
    BY <1>1, <1>2, <1>3, <1>4

\* A peer that is chosen is the first route of those that are tried.
LEMMA RouteChosen ==
  ASSUME RouteTypeOK, trying \in {"realm", "default"}
  PROVE  FirstOf(Routes) = IF trying = "realm" THEN FirstOf(RealmRoutes)
                                               ELSE FirstOf(table.default)
  BY DEF RouteTypeOK, Routes, RealmRoutes

LEMMA TryRouteInv == ASSUME RouteIInv, TryRoute PROVE RouteIInv'
  <1> USE DEF RouteIInv, TryRoute
  <1> DEFINE first == Routes[1]
  <1>0. Routes \in Seq(Hosts)
    BY RoutesAreHosts
  <1>1. first \in Hosts /\ FirstOf(Routes) = {first}
    <2>1. 1 <= Len(Routes)
      BY <1>0, FirstElement DEF RouteTypeOK
    <2> QED
      BY <1>0, <2>1, FirstElement
  <1> HIDE DEF first
  <1>2. SeenOK'
    BY DEF SeenOK
  <1>3. RealmRoutes' = RealmRoutes
    BY DEF RealmRoutes
  <1>4. CASE Usable(first)
    <2>1. result' = first /\ trying' = "done" /\ turn' = turn
      BY <1>4 DEF Choose, first
    <2>2. RouteTypeOK' /\ HostGivenUp' /\ RealmGivenUp' /\ RouteGivenUp'
      BY <2>1, <1>1 DEF RouteTypeOK, HostGivenUp, RealmGivenUp, RouteGivenUp
    <2>3. first \in seen /\ first # Nil
      BY <1>1, <1>4 DEF Usable, SeenOK
    <2>4. SteadyPeerIsUsed'
      BY <2>1, <2>3, <1>1, <1>3, RouteChosen DEF SteadyPeerIsUsed, HostGivenUp, RealmGivenUp
    <2> QED
      BY <2>2, <2>4, <1>2
  <1>5. CASE ~Usable(first)
    <2>1. result' = result /\ trying' = trying /\ turn' = turn + 1
      BY <1>5 DEF first
    <2>2. RouteTypeOK'
      BY <2>1 DEF RouteTypeOK
    <2>3. HostGivenUp' /\ RealmGivenUp'
      BY <2>1, <1>3 DEF HostGivenUp, RealmGivenUp, FirstOf
    <2>4. Routes' = Routes
      BY <2>1 DEF Routes
    <2>5. first \notin steady
      BY <1>5 DEF Usable, SeenOK
    <2>6. RouteGivenUp'
      BY <2>4, <2>5, <1>1 DEF RouteGivenUp, FirstOf
    <2>7. SteadyPeerIsUsed'
      BY <2>1 DEF SteadyPeerIsUsed
    <2> QED
      BY <2>2, <2>3, <2>6, <2>7, <1>2
  <1> QED
    BY <1>4, <1>5

LEMMA NoRouteInv == ASSUME RouteIInv, NoRoute PROVE RouteIInv'
  <1> USE DEF RouteIInv, NoRoute
  <1>1. FirstOf(Routes) \cap steady = {}
    <2>1. CASE Len(Routes) = 0
      BY <2>1, RoutesAreHosts, FirstElement
    <2>2. CASE Len(Routes) # 0
      <3>1. turn > 1
        BY <2>2, RoutesAreHosts, FirstElement DEF RouteTypeOK
      <3> QED
        BY <3>1 DEF RouteGivenUp
    <2> QED
      BY <2>1, <2>2
  <1>2. SeenOK'
    BY DEF SeenOK
  <1>3. RealmRoutes' = RealmRoutes
    BY DEF RealmRoutes
  <1>4. CASE trying = "realm"
    <2>1. trying' = "default" /\ turn' = 1 /\ result' = result
      BY <1>4 DEF Try
    <2>2. FirstOf(RealmRoutes) \cap steady = {}
      BY <1>1, <1>4, RouteChosen
    <2>3. RouteTypeOK' /\ RouteGivenUp' /\ SteadyPeerIsUsed'
      BY <2>1 DEF RouteTypeOK, RouteGivenUp, SteadyPeerIsUsed
    <2>4. HostGivenUp' /\ RealmGivenUp'
      BY <2>2, <1>3, <1>4 DEF HostGivenUp, RealmGivenUp, FirstOf
    <2> QED
      BY <2>3, <2>4, <1>2
  <1>5. CASE trying = "default"
    <2>1. trying' = "done" /\ turn' = turn /\ result' = Nil
      BY <1>5 DEF Choose
    <2>2. RouteTypeOK' /\ HostGivenUp' /\ RealmGivenUp' /\ RouteGivenUp'
      BY <2>1 DEF RouteTypeOK, HostGivenUp, RealmGivenUp, RouteGivenUp
    <2>3. FirstOf(table.default) \cap steady = {}
      BY <1>1, <1>5, RouteChosen
    <2>4. SteadyPeerIsUsed'
      BY <2>1, <2>3, <1>3, <1>5 DEF SteadyPeerIsUsed, HostGivenUp, RealmGivenUp, FirstOf
    <2> QED
      BY <2>2, <2>4, <1>2
  <1> QED
    BY <1>4, <1>5

LEMMA RouteStepInv == RouteIInv /\ [RouteNext]_routeVars => RouteIInv'
  <1> SUFFICES ASSUME RouteIInv, [RouteNext]_routeVars PROVE RouteIInv'
    OBVIOUS
  <1>1. ASSUME NEW h \in Hosts, Change(h) PROVE RouteIInv'
    BY <1>1, ChangeInv
  <1>2. CASE TryHost
    BY <1>2, TryHostInv
  <1>3. CASE TryRoute
    BY <1>3, TryRouteInv
  <1>4. CASE NoRoute
    BY <1>4, NoRouteInv
  <1>5. CASE UNCHANGED routeVars
    <2> USE <1>5 DEF RouteIInv, routeVars
    <2>1. RouteTypeOK' /\ SeenOK' /\ HostGivenUp'
      BY DEF RouteTypeOK, SeenOK, HostGivenUp
    <2>2. Routes' = Routes /\ RealmRoutes' = RealmRoutes
      BY DEF Routes, RealmRoutes
    <2>3. RealmGivenUp' /\ RouteGivenUp' /\ SteadyPeerIsUsed'
      BY <2>2 DEF RealmGivenUp, RouteGivenUp, SteadyPeerIsUsed, FirstOf
    <2> QED
      BY <2>1, <2>3
  <1> QED
    BY <1>1, <1>2, <1>3, <1>4, <1>5 DEF RouteNext

THEOREM RouteInductive == RouteSpec => []RouteIInv
  BY RouteInitInv, RouteStepInv, PTL DEF RouteSpec

\* A message goes to its Destination-Host, or else to the first route of its realm, or
\* else to the first default route, if that is usable all the time, and to no peer that
\* is no route of it: for any table and however peers come and go meanwhile.
THEOREM SteadyPeersAreUsed == RouteSpec => []SteadyPeerIsUsed
  <1>1. RouteIInv => SteadyPeerIsUsed
    BY DEF RouteIInv
  <1> QED
    BY <1>1, RouteInductive, PTL

HIDE RoutingAssumption

HIDE IdentifiersAssumption

(***************************************************************************)
(* No message is freed twice, used after that, or lost, for any messages,  *)
(* callers and workers. A pointer that will be used is in one place, but   *)
(* for an answer, which its caller has while the worker that woke it goes  *)
(* on (Apart); which place that is tells the class of the message          *)
(* (LifeKindOK).                                                           *)
(***************************************************************************)

\* A message that does not exist yet is nowhere, and what is somewhere has a class that
\* gets there.
LifeKindOK ==
  /\ \A m \in Msgs : class[m] = "none" => frees[m] = 0
  /\ \A m \in pipe : class[m] \in {"own", "reply"}
  /\ rpc = "got" => class[hand] \in {"request", "answer", "base"}
  /\ \A m \in tasks : class[m] \in {"request", "answer"}
  /\ \A w \in Workers : task[w] # NoMsg => class[task[w]] \in {"request", "answer"}
  /\ \A c \in Callers : answer[c] # NoMsg => class[answer[c]] = "answer"

\* The pointers of the receiver, the queue, the workers and the callers. (Before
\* api_callback a worker alone has its message.)
Apart ==
  /\ rpc = "got" => hand \in Msgs /\ hand \notin tasks
  /\ \A w \in Workers :
       /\ wpc[w] = "idle" <=> task[w] = NoMsg
       /\ task[w] \notin tasks
       /\ rpc = "got" => task[w] # hand
       /\ \A v \in Workers : task[v] = task[w] /\ task[w] # NoMsg => v = w
  /\ \A c \in Callers : answer[c] # NoMsg =>
       /\ answer[c] \notin tasks
       /\ rpc = "got" => answer[c] # hand
       /\ \A w \in Workers : task[w] = answer[c] => wpc[w] # "api"

\* In use is what will be used: so it is not freed.
LifeInv == LifeTypeOK /\ LifeKindOK /\ Apart /\ FreedByTheLast

USE LifeAssumption

LEMMA LifeInitInv == ASSUME LifeInit PROVE LifeInv
  <1> USE DEF LifeInit
  <1>1. LifeTypeOK
    BY DEF LifeTypeOK
  <1>2. LifeKindOK
    BY DEF LifeKindOK
  <1>3. Apart
    BY DEF Apart
  <1>4. FreedByTheLast
    BY DEF FreedByTheLast, FreedOnce, NotUsedFreed, NothingLost, InUse
  <1> QED
    BY <1>1, <1>2, <1>3, <1>4 DEF LifeInv

LEMMA AskInv ==
  ASSUME LifeInv, NEW c \in Callers, NEW m \in Msgs, Ask(c, m)
  PROVE  LifeInv'
  <1> USE DEF LifeInv, LifeTypeOK, Ask, Sent, NotSent, New, Free, Serving
  <1>1. LifeTypeOK'
    OBVIOUS
  <1>2. LifeKindOK'
    BY DEF LifeKindOK, Apart
  <1>3. Apart'
    BY DEF LifeKindOK, Apart
  <1>4. FreedByTheLast'
    BY DEF LifeKindOK, Apart, FreedByTheLast, FreedOnce, NotUsedFreed, NothingLost, InUse
  <1> QED
    BY <1>1, <1>2, <1>3, <1>4

LEMMA TimedOutInv ==
  ASSUME LifeInv, NEW c \in Callers, TimedOut(c)
  PROVE  LifeInv'
  <1> USE DEF LifeInv, LifeTypeOK, TimedOut
  <1>1. LifeTypeOK'
    OBVIOUS
  <1>2. LifeKindOK'
    BY DEF LifeKindOK, Apart
  <1>3. Apart'
    BY DEF LifeKindOK, Apart
  <1>4. FreedByTheLast'
    BY DEF LifeKindOK, Apart, FreedByTheLast, FreedOnce, NotUsedFreed, NothingLost, InUse
  <1> QED
    BY <1>1, <1>2, <1>3, <1>4

LEMMA HeardInv ==
  ASSUME LifeInv, NEW c \in Callers, Heard(c)
  PROVE  LifeInv'
  <1> USE DEF LifeInv, LifeTypeOK, Heard
  <1>1. LifeTypeOK'
    OBVIOUS
  <1>2. LifeKindOK'
    BY DEF LifeKindOK, Apart
  <1>3. Apart'
    BY DEF LifeKindOK, Apart
  <1>4. FreedByTheLast'
    BY DEF LifeKindOK, Apart, FreedByTheLast, FreedOnce, NotUsedFreed, NothingLost, InUse
  <1> QED
    BY <1>1, <1>2, <1>3, <1>4

LEMMA WriteOutInv ==
  ASSUME LifeInv, NEW m \in Msgs, WriteOut(m)
  PROVE  LifeInv'
  <1> USE DEF LifeInv, LifeTypeOK, WriteOut, Free
  <1>1. LifeTypeOK'
    OBVIOUS
  <1>2. LifeKindOK'
    BY DEF LifeKindOK, Apart
  <1>3. Apart'
    BY DEF LifeKindOK, Apart
  <1>4. FreedByTheLast'
    BY DEF LifeKindOK, Apart, FreedByTheLast, FreedOnce, NotUsedFreed, NothingLost, InUse
  <1> QED
    BY <1>1, <1>2, <1>3, <1>4

LEMMA EndInv ==
  ASSUME LifeInv, End
  PROVE  LifeInv'
  <1> USE DEF LifeInv, LifeTypeOK, End
  <1>1. LifeTypeOK'
    OBVIOUS
  <1>2. LifeKindOK'
    BY DEF LifeKindOK, Apart
  <1>3. Apart'
    BY DEF LifeKindOK, Apart
  <1>4. FreedByTheLast'
    BY DEF LifeKindOK, Apart, FreedByTheLast, FreedOnce, NotUsedFreed, NothingLost, InUse
  <1> QED
    BY <1>1, <1>2, <1>3, <1>4

LEMMA ReconnectInv ==
  ASSUME LifeInv, Reconnect
  PROVE  LifeInv'
  <1> USE DEF LifeInv, LifeTypeOK, Reconnect
  <1>1. LifeTypeOK'
    OBVIOUS
  <1>2. LifeKindOK'
    BY DEF LifeKindOK, Apart
  <1>3. Apart'
    BY DEF LifeKindOK, Apart
  <1>4. FreedByTheLast'
    BY DEF LifeKindOK, Apart, FreedByTheLast, FreedOnce, NotUsedFreed, NothingLost, InUse
  <1> QED
    BY <1>1, <1>2, <1>3, <1>4

LEMMA ArriveInv ==
  ASSUME LifeInv, NEW m \in Msgs, Arrive(m)
  PROVE  LifeInv'
  <1> USE DEF LifeInv, LifeTypeOK, Arrive, New
  <1>1. LifeTypeOK'
    OBVIOUS
  <1>2. LifeKindOK'
    BY DEF LifeKindOK, Apart
  <1>3. Apart'
    BY DEF LifeKindOK, Apart
  <1>4. FreedByTheLast'
    BY DEF LifeKindOK, Apart, FreedByTheLast, FreedOnce, NotUsedFreed, NothingLost, InUse
  <1> QED
    BY <1>1, <1>2, <1>3, <1>4

LEMMA IgnoreInv ==
  ASSUME LifeInv, Ignore
  PROVE  LifeInv'
  <1> USE DEF LifeInv, LifeTypeOK, Ignore, Free
  <1>1. LifeTypeOK'
    BY DEF Apart
  <1>2. LifeKindOK'
    BY DEF LifeKindOK, Apart
  <1>3. Apart'
    BY DEF LifeKindOK, Apart
  <1>4. FreedByTheLast'
    BY DEF LifeKindOK, Apart, FreedByTheLast, FreedOnce, NotUsedFreed, NothingLost, InUse
  <1> QED
    BY <1>1, <1>2, <1>3, <1>4

LEMMA InvalidInv ==
  ASSUME LifeInv, Invalid
  PROVE  LifeInv'
  <1> USE DEF LifeInv, LifeTypeOK, Invalid
  <1>1. LifeTypeOK'
    BY DEF Apart
  <1>2. LifeKindOK'
    BY DEF LifeKindOK, Apart
  <1>3. Apart'
    BY DEF LifeKindOK, Apart
  <1>4. FreedByTheLast'
    BY DEF LifeKindOK, Apart, FreedByTheLast, FreedOnce, NotUsedFreed, NothingLost, InUse
  <1> QED
    BY <1>1, <1>2, <1>3, <1>4

LEMMA HandleInv ==
  ASSUME LifeInv, Handle
  PROVE  LifeInv'
  <1> USE DEF LifeInv, LifeTypeOK, Handle, New, Free
  <1>1. LifeTypeOK'
    BY DEF Apart
  <1>2. LifeKindOK'
    BY DEF LifeKindOK, Apart
  <1>3. Apart'
    BY DEF LifeKindOK, Apart
  <1>4. FreedByTheLast'
    BY DEF LifeKindOK, Apart, FreedByTheLast, FreedOnce, NotUsedFreed, NothingLost, InUse
  <1> QED
    BY <1>1, <1>2, <1>3, <1>4

LEMMA HandleCEAInv ==
  ASSUME LifeInv, HandleCEA
  PROVE  LifeInv'
  <1> USE DEF LifeInv, LifeTypeOK, HandleCEA, Free
  <1>1. LifeTypeOK'
    BY DEF Apart
  <1>2. LifeKindOK'
    BY DEF LifeKindOK, Apart
  <1>3. Apart'
    BY DEF LifeKindOK, Apart
  <1>4. FreedByTheLast'
    BY DEF LifeKindOK, Apart, FreedByTheLast, FreedOnce, NotUsedFreed, NothingLost, InUse
  <1> QED
    BY <1>1, <1>2, <1>3, <1>4

LEMMA QueueInv ==
  ASSUME LifeInv, Queue
  PROVE  LifeInv'
  <1> USE DEF LifeInv, LifeTypeOK, Queue
  <1>1. LifeTypeOK'
    BY DEF Apart
  <1>2. LifeKindOK'
    BY DEF LifeKindOK, Apart
  <1>3. Apart'
    BY DEF LifeKindOK, Apart
  <1>4. FreedByTheLast'
    BY DEF LifeKindOK, Apart, FreedByTheLast, FreedOnce, NotUsedFreed, NothingLost, InUse
  <1> QED
    BY <1>1, <1>2, <1>3, <1>4

LEMMA LateInv ==
  ASSUME LifeInv, Late
  PROVE  LifeInv'
  <1> USE DEF LifeInv, LifeTypeOK, Late
  <1>1. LifeTypeOK'
    OBVIOUS
  <1>2. LifeKindOK'
    BY DEF LifeKindOK, Apart
  <1>3. Apart'
    BY DEF LifeKindOK, Apart
  <1>4. FreedByTheLast'
    BY DEF LifeKindOK, Apart, FreedByTheLast, FreedOnce, NotUsedFreed, NothingLost, InUse
  <1> QED
    BY <1>1, <1>2, <1>3, <1>4

LEMMA RefuseInv ==
  ASSUME LifeInv, Refuse
  PROVE  LifeInv'
  <1> USE DEF LifeInv, LifeTypeOK, Refuse, Free
  <1>1. LifeTypeOK'
    BY DEF Apart
  <1>2. LifeKindOK'
    BY DEF LifeKindOK, Apart
  <1>3. Apart'
    BY DEF LifeKindOK, Apart
  <1>4. FreedByTheLast'
    BY DEF LifeKindOK, Apart, FreedByTheLast, FreedOnce, NotUsedFreed, NothingLost, InUse
  <1> QED
    BY <1>1, <1>2, <1>3, <1>4

LEMMA TakeInv ==
  ASSUME LifeInv, NEW w \in Workers, Take(w)
  PROVE  LifeInv'
  <1> USE DEF LifeInv, LifeTypeOK, Take
  <1>1. LifeTypeOK'
    OBVIOUS
  <1>2. LifeKindOK'
    BY DEF LifeKindOK, Apart
  <1>3. Apart'
    BY DEF LifeKindOK, Apart
  <1>4. FreedByTheLast'
    BY DEF LifeKindOK, Apart, FreedByTheLast, FreedOnce, NotUsedFreed, NothingLost, InUse
  <1> QED
    BY <1>1, <1>2, <1>3, <1>4

LEMMA ApiInv ==
  ASSUME LifeInv, NEW w \in Workers, Api(w)
  PROVE  LifeInv'
  <1> USE DEF LifeInv, LifeTypeOK, Api
  <1>1. LifeTypeOK'
    OBVIOUS
  <1>2. LifeKindOK'
    BY DEF LifeKindOK, Apart
  <1>3. Apart'
    BY DEF LifeKindOK, Apart
  <1>4. FreedByTheLast'
    BY DEF LifeKindOK, Apart, FreedByTheLast, FreedOnce, NotUsedFreed, NothingLost, InUse
  <1> QED
    BY <1>1, <1>2, <1>3, <1>4

LEMMA IncomingInv ==
  ASSUME LifeInv, NEW w \in Workers, Incoming(w)
  PROVE  LifeInv'
  <1> USE DEF LifeInv, LifeTypeOK, Incoming, Sent, NotSent, New, Free, Serving
  <1>1. LifeTypeOK'
    OBVIOUS
  <1>2. LifeKindOK'
    BY DEF LifeKindOK, Apart
  <1>3. Apart'
    BY DEF LifeKindOK, Apart
  <1>4. FreedByTheLast'
    BY DEF LifeKindOK, Apart, FreedByTheLast, FreedOnce, NotUsedFreed, NothingLost, InUse
  <1> QED
    BY <1>1, <1>2, <1>3, <1>4

LEMMA DoneInv ==
  ASSUME LifeInv, NEW w \in Workers, Done(w)
  PROVE  LifeInv'
  <1> USE DEF LifeInv, LifeTypeOK, Done, Free
  <1>1. LifeTypeOK'
    OBVIOUS
  <1>2. LifeKindOK'
    BY DEF LifeKindOK, Apart
  <1>3. Apart'
    BY DEF LifeKindOK, Apart
  <1>4. FreedByTheLast'
    BY DEF LifeKindOK, Apart, FreedByTheLast, FreedOnce, NotUsedFreed, NothingLost, InUse
  <1> QED
    BY <1>1, <1>2, <1>3, <1>4

LEMMA BeginShutdownInv ==
  ASSUME LifeInv, BeginShutdown
  PROVE  LifeInv'
  <1> USE DEF LifeInv, LifeTypeOK, BeginShutdown
  <1>1. LifeTypeOK'
    OBVIOUS
  <1>2. LifeKindOK'
    BY DEF LifeKindOK, Apart
  <1>3. Apart'
    BY DEF LifeKindOK, Apart
  <1>4. FreedByTheLast'
    BY DEF LifeKindOK, Apart, FreedByTheLast, FreedOnce, NotUsedFreed, NothingLost, InUse
  <1> QED
    BY <1>1, <1>2, <1>3, <1>4

LEMMA DestroyInv ==
  ASSUME LifeInv, Destroy
  PROVE  LifeInv'
  <1> USE DEF LifeInv, LifeTypeOK, Destroy
  <1>1. LifeTypeOK'
    OBVIOUS
  <1>2. LifeKindOK'
    BY DEF LifeKindOK, Apart
  <1>3. Apart'
    BY DEF LifeKindOK, Apart
  <1>4. FreedByTheLast'
    BY DEF LifeKindOK, Apart, FreedByTheLast, FreedOnce, NotUsedFreed, NothingLost, InUse
  <1> QED
    BY <1>1, <1>2, <1>3, <1>4

LEMMA LifeStepInv ==
    LifeInv /\ [LifeNext]_lifeVars => LifeInv'
  <1> SUFFICES ASSUME LifeInv, [LifeNext]_lifeVars PROVE LifeInv'
    OBVIOUS
  <1>1. CASE UNCHANGED lifeVars
    BY <1>1 DEF lifeVars, LifeInv, LifeTypeOK, LifeKindOK, Apart, FreedByTheLast, FreedOnce,
                NotUsedFreed, NothingLost, InUse
  <1>2. CASE LifeNext
    BY <1>2, AskInv, TimedOutInv, HeardInv, WriteOutInv, EndInv, ReconnectInv, ArriveInv,
       IgnoreInv, InvalidInv, HandleInv, HandleCEAInv, QueueInv, LateInv, RefuseInv,
       TakeInv, ApiInv, IncomingInv, DoneInv, BeginShutdownInv, DestroyInv
    DEF LifeNext
  <1> QED
    BY <1>1, <1>2

THEOREM LifeInductive == LifeSpec => []LifeInv
  BY LifeInitInv, LifeStepInv, PTL DEF LifeSpec

\* Every variable keeps its type.
THEOREM LifeTypeCorrect == LifeSpec => []LifeTypeOK
  <1>1. LifeInv => LifeTypeOK
    BY DEF LifeInv
  <1> QED
    BY <1>1, LifeInductive, PTL

\* Whoever frees a message (receiver.c select_recv and receive_message, worker.c
\* worker_process and worker_destroy, diameter_api.c on errors, the handlers of
\* peerstatemachine.c) is the last to use it, and somebody does, for any number of
\* messages, callers and workers.
THEOREM FreedOnceByTheLast == LifeSpec => []FreedByTheLast
  <1>1. LifeInv => FreedByTheLast
    BY DEF LifeInv
  <1> QED
    BY <1>1, LifeInductive, PTL

HIDE LifeAssumption

(***************************************************************************)
(* An open peer is known, and whoever reads it without its lock learns the *)
(* truth (Capabilities), for any applications, names and memory. While     *)
(* save_peer_applications runs, the entries and the AVPs that are left     *)
(* name what the other side offers, and the peer is not open; a look       *)
(* without the lock sees one exchange, unless another begins meanwhile.    *)
(***************************************************************************)

PeerStates == {"closed", "wait", "returns", "open"}

Avps == {Avp(app) : app \in Apps}

CapTypeOK ==
  /\ remote \in Remotes /\ local \in Names /\ origin \in Names /\ local # origin
  /\ state \in PeerStates /\ then \in PeerStates
  /\ step \in {"idle", "free", "null", "zero", "alloc", "add"}
  /\ todo \in Seq(Avps)
  /\ apps \in AppBlocks \cup {NoApps} /\ seenApps \in AppBlocks \cup {NoApps}
  /\ cnt \in Nat /\ seenCnt \in Nat /\ entry \in Nat
  /\ mem \in [AppBlocks -> Seq(Apps)] /\ size \in [AppBlocks -> Nat]
  /\ used \subseteq AppBlocks
  /\ asking \in {"idle", "test", "loop", "yes", "no", "dead"}
  /\ renewed \in BOOLEAN

\* The entries that are counted lie in the block, and in the memory allocated for it.
CountOK == apps # NoApps => cnt <= Len(mem[apps]) /\ cnt <= size[apps]

\* What was saved of the applications of the other side, each of them once.
KnownApps == {mem[apps][i] : i \in 1 .. cnt}

EachOnce == \A i, j \in 1 .. cnt : mem[apps][i] = mem[apps][j] => i = j

IsKnown == apps \in used /\ KnownApps = ToSet(remote) /\ EachOnce

InCommon == ToSet(remote) \cap ToSet(Local) # {}

\* What a list of AVPs names.
AllNamed(avps) == {Named(avps[i]) : i \in DOMAIN avps}

\* An exchange begins with all of the AVPs, and those that are left name what is missing.
SavingOK ==
  /\ step \in {"free", "null", "zero", "alloc"} => todo = Offered(remote)
  /\ step = "add" =>
       /\ apps \in used /\ EachOnce /\ cnt + Len(todo) <= size[apps]
       /\ KnownApps \cup AllNamed(todo) = ToSet(remote)

\* While an exchange runs the peer is not open, and it opens only with something in common.
OpenOK ==
  /\ step # "idle" => state # "open" /\ (then = "open" => InCommon)
  /\ state = "open" => IsKnown /\ InCommon

\* Whoever looks without a lock finds what was there when it looked at the state.
LookOK ==
  ~renewed =>
    /\ asking \in {"test", "loop"} => step = "idle" /\ IsKnown
    /\ asking = "test" => entry = 1
    /\ asking = "loop" =>
         /\ seenApps = apps /\ seenCnt = cnt /\ entry \in 1 .. cnt + 1
         /\ \A i \in 1 .. entry - 1 : ~Matches(mem[apps][i])

CapIInv == CapTypeOK /\ CountOK /\ SavingOK /\ OpenOK /\ LookOK /\ ReaderIsRight

LEMMA NamedAvp ==
  ASSUME NEW a \in Apps
  PROVE  Avp(a) \in Avps /\ Named(Avp(a)) = a
<1>1. Avp(a) \in Avps
  BY DEF Avps
<1>2. CASE a.vendor = 0
  <2>1. Avp(a) = [code |-> a.type, id |-> a.id]
    BY <1>2 DEF Avp
  <2>2. a.type # "group"
    BY DEF Apps
  <2> QED BY <1>1, <1>2, <2>1, <2>2 DEF Named, App, Apps
<1>3. CASE a.vendor # 0
  <2>1. Avp(a) = [code |-> "group", vendor |-> a.vendor,
                  member |-> [code |-> a.type, id |-> a.id]]
    BY <1>3 DEF Avp
  <2> QED BY <1>1, <2>1 DEF Named, App, Apps
<1> QED BY <1>2, <1>3

\* What a side offers names its applications.
LEMMA OfferedIs ==
  ASSUME NEW config \in Seq(Apps)
  PROVE  /\ Offered(config) \in Seq(Avps) /\ Len(Offered(config)) = Len(config)
         /\ \A i \in 1 .. Len(config) : Named(Offered(config)[i]) = config[i]
         /\ AllNamed(Offered(config)) = ToSet(config)
<1>1. \A i \in 1 .. Len(config) : /\ Avp(config[i]) \in Avps
                                  /\ Named(Avp(config[i])) = config[i]
  BY NamedAvp
<1>2. DOMAIN config = 1 .. Len(config) /\ Len(config) \in Nat
  OBVIOUS
<1>3. Offered(config) \in Seq(Avps) /\ Len(Offered(config)) = Len(config)
  BY <1>1, <1>2 DEF Offered
<1>4. /\ DOMAIN Offered(config) = 1 .. Len(config)
      /\ \A i \in 1 .. Len(config) : Named(Offered(config)[i]) = config[i]
  BY <1>1, <1>2 DEF Offered
<1> QED BY <1>2, <1>3, <1>4 DEF ToSet, AllNamed

\* A side finds an application in common exactly if there is one.
LEMMA CommonIs ==
  ASSUME NEW mine \in Seq(Apps), NEW theirs \in Seq(Apps)
  PROVE  Common(mine, Offered(theirs)) <=> ToSet(theirs) \cap ToSet(mine) # {}
<1>1. /\ DOMAIN Offered(theirs) = 1 .. Len(theirs)
      /\ \A i \in 1 .. Len(theirs) : Named(Offered(theirs)[i]) = theirs[i]
  BY OfferedIs
<1>2. DOMAIN mine = 1 .. Len(mine) /\ DOMAIN theirs = 1 .. Len(theirs)
  OBVIOUS
<1> QED BY <1>1, <1>2 DEF Common, ToSet

LEMMA FrontIs ==
  ASSUME NEW S, NEW a \in Seq(S), NEW b \in Seq(S)
  PROVE  /\ a \o b \in Seq(S) /\ Len(a) \in Nat /\ Len(a) <= Len(a \o b)
         /\ \A i \in 1 .. Len(a) : (a \o b)[i] = a[i]
  OBVIOUS

\* The entries of a block after add_peer_application.
WithApp(s, n, a) == Added(SubSeq(s, 1, n), a)

\* add_peer_application finds the application or puts it behind the others.
LEMMA AddedIs ==
  ASSUME NEW s \in Seq(Apps), NEW n \in Nat, n <= Len(s), NEW a \in Apps
  PROVE  LET list == WithApp(s, n, a) IN
         /\ list \in Seq(Apps)
         /\ \A i \in 1 .. n : list[i] = s[i]
         /\ (\E i \in 1 .. n : s[i] = a) => Len(list) = n
         /\ ~(\E i \in 1 .. n : s[i] = a) => Len(list) = n + 1 /\ list[n + 1] = a
<1>1. /\ SubSeq(s, 1, n) \in Seq(Apps) /\ Len(SubSeq(s, 1, n)) = n
      /\ \A i \in 1 .. n : SubSeq(s, 1, n)[i] = s[i]
  OBVIOUS
<1>2. Contains(SubSeq(s, 1, n), a) <=> \E i \in 1 .. n : s[i] = a
  BY <1>1 DEF Contains
<1> QED BY <1>1, <1>2 DEF Added, WithApp

\* The block keeps what lies behind the entries.
LEMMA WrittenIs ==
  ASSUME NEW s \in Seq(Apps), NEW list \in Seq(Apps)
  PROVE  LET t == list \o SubSeq(s, Len(list) + 1, Len(s)) IN
         /\ t \in Seq(Apps) /\ Len(list) \in Nat /\ Len(list) <= Len(t)
         /\ \A i \in 1 .. Len(list) : t[i] = list[i]
<1>1. Len(list) + 1 \in Nat /\ Len(s) \in Nat
  OBVIOUS
<1>2. SubSeq(s, Len(list) + 1, Len(s)) \in Seq(Apps)
  BY <1>1
<1> QED BY <1>2, FrontIs

LEMMA NoneLess ==
  ASSUME NEW S \in SUBSET Nat, S # {}
  PROVE  \E x \in S : \A y \in S : x <= y
<1>1. PICK x \in S : \A y \in S : ~(<<y, x>> \in OpToRel(<, Nat))
  BY NatLessThanWellFounded, WFMin
<1>2. \A y \in S : ~(y < x)
  BY <1>1 DEF OpToRel
<1> QED BY <1>2

\* Of two different names one wins, whoever compares them.
LEMMA OneIsElected ==
  ASSUME NEW mine \in Seq(Nat), NEW theirs \in Seq(Nat), mine # theirs
  PROVE  Elect(mine, theirs) # Elect(theirs, mine)
<1> DEFINE Shorter(a, b) == CHOOSE k \in {Len(a), Len(b)} : k <= Len(a) /\ k <= Len(b)
           m == Shorter(mine, theirs)
           o == Shorter(theirs, mine)
           differ == {i \in 1 .. m : mine[i] # theirs[i]}
<1>1. Len(mine) \in Nat /\ Len(theirs) \in Nat
  OBVIOUS
<1>2. m \in {Len(mine), Len(theirs)} /\ m <= Len(mine) /\ m <= Len(theirs)
  <2>1. \E k \in {Len(mine), Len(theirs)} : k <= Len(mine) /\ k <= Len(theirs)
    BY <1>1
  <2> QED BY <2>1
<1>3. o \in {Len(mine), Len(theirs)} /\ o <= Len(mine) /\ o <= Len(theirs)
  <2>1. \E k \in {Len(theirs), Len(mine)} : k <= Len(theirs) /\ k <= Len(mine)
    BY <1>1
  <2> QED BY <2>1
<1>4. /\ Elect(mine, theirs) \in BOOLEAN
      /\ Elect(mine, theirs) <=>
           \/ differ = {} /\ Len(mine) > Len(theirs)
           \/ \E i \in differ : (\A j \in differ : i <= j) /\ mine[i] > theirs[i]
  BY DEF Elect
<1>5. /\ Elect(theirs, mine) \in BOOLEAN
      /\ Elect(theirs, mine) <=>
           \/ {i \in 1 .. o : theirs[i] # mine[i]} = {} /\ Len(theirs) > Len(mine)
           \/ \E i \in {i \in 1 .. o : theirs[i] # mine[i]} :
                (\A j \in {j \in 1 .. o : theirs[j] # mine[j]} : i <= j) /\ theirs[i] > mine[i]
  BY DEF Elect
<1> HIDE DEF m, o
<1>6. m = o
  BY <1>1, <1>2, <1>3
<1>7. m \in Nat /\ \A i \in 1 .. m : mine[i] \in Nat /\ theirs[i] \in Nat
  BY <1>1, <1>2
<1>8. {i \in 1 .. o : theirs[i] # mine[i]} = differ
  BY <1>6
<1>9. Elect(theirs, mine) <=>
        \/ differ = {} /\ Len(theirs) > Len(mine)
        \/ \E i \in differ : (\A j \in differ : i <= j) /\ theirs[i] > mine[i]
  BY <1>5, <1>8
<1>10. CASE differ = {}
  <2>1. \A i \in 1 .. m : mine[i] = theirs[i]
    BY <1>10
  <2>2. ASSUME Len(mine) = Len(theirs)
        PROVE  FALSE
    <3>1. m = Len(mine) /\ m = Len(theirs)
      BY <1>2, <2>2
    <3>2. mine = theirs
      BY <2>1, <3>1, SeqEqual
    <3> QED BY <3>2
  <2>3. Len(mine) > Len(theirs) <=> ~(Len(theirs) > Len(mine))
    BY <1>1, <2>2
  <2> QED BY <2>3, <1>4, <1>5, <1>9, <1>10
<1>11. CASE differ # {}
  <2>1. differ \in SUBSET Nat
    BY <1>7
  <2>2. PICK i \in differ : \A j \in differ : i <= j
    BY <2>1, <1>11, NoneLess
  <2>3. \A j \in differ : (\A k \in differ : j <= k) => j = i
    BY <2>1, <2>2
  <2>4. mine[i] > theirs[i] <=> ~(theirs[i] > mine[i])
    BY <2>2, <1>7
  <2> HIDE DEF differ
  <2> QED BY <2>2, <2>3, <2>4, <1>4, <1>5, <1>9, <1>11
<1> QED BY <1>10, <1>11

LEMMA HeadAndTail ==
  ASSUME NEW avps \in Seq(Avps), avps # <<>>
  PROVE  /\ Named(Head(avps)) \in Apps
         /\ Tail(avps) \in Seq(Avps) /\ Len(Tail(avps)) = Len(avps) - 1
         /\ AllNamed(avps) = {Named(Head(avps))} \cup AllNamed(Tail(avps))
<1>1. /\ Head(avps) = avps[1] /\ Tail(avps) \in Seq(Avps)
      /\ Len(avps) \in Nat /\ Len(avps) >= 1 /\ Len(Tail(avps)) = Len(avps) - 1
      /\ \A i \in 1 .. Len(avps) - 1 : Tail(avps)[i] = avps[i + 1]
      /\ DOMAIN avps = 1 .. Len(avps) /\ DOMAIN Tail(avps) = 1 .. Len(avps) - 1
      /\ Head(avps) \in Avps
  OBVIOUS
<1>2. Named(Head(avps)) \in Apps
  BY <1>1, NamedAvp DEF Avps
<1>3. ASSUME NEW i \in 1 .. Len(avps), i # 1
      PROVE  i - 1 \in 1 .. Len(avps) - 1 /\ avps[i] = Tail(avps)[i - 1]
  <2>1. i - 1 \in 1 .. Len(avps) - 1 /\ (i - 1) + 1 = i
    BY <1>1, <1>3
  <2>2. Tail(avps)[i - 1] = avps[(i - 1) + 1]
    BY <1>1, <2>1
  <2> QED BY <2>1, <2>2
<1>4. \A i \in 1 .. Len(avps) - 1 : i + 1 \in 1 .. Len(avps)
  BY <1>1
<1>5. 1 \in 1 .. Len(avps)
  BY <1>1
<1> QED BY <1>1, <1>2, <1>3, <1>4, <1>5 DEF AllNamed

USE CapAssumption

LEMMA AddIs ==
  ASSUME CapTypeOK, CountOK, SavingOK, Add
  PROVE  LET app == Named(Head(todo)) IN
         /\ app \in Apps /\ apps \in used /\ apps \in AppBlocks
         /\ mem' \in [AppBlocks -> Seq(Apps)]
         /\ todo' \in Seq(Avps) /\ Len(todo') = Len(todo) - 1
         /\ AllNamed(todo) = {app} \cup AllNamed(todo')
         /\ cnt' \in Nat /\ cnt' <= Len(mem'[apps])
         /\ \A i \in 1 .. cnt : mem'[apps][i] = mem[apps][i]
         /\ (\E i \in 1 .. cnt : mem[apps][i] = app) => cnt' = cnt
         /\ ~(\E i \in 1 .. cnt : mem[apps][i] = app) => cnt' = cnt + 1 /\ mem'[apps][cnt + 1] = app
<1> DEFINE app == Named(Head(todo))
           s == mem[apps]
           list == WithApp(s, cnt, app)
<1>1. /\ app \in Apps /\ todo' \in Seq(Avps) /\ Len(todo') = Len(todo) - 1
      /\ AllNamed(todo) = {app} \cup AllNamed(todo')
  BY HeadAndTail DEF Add, CapTypeOK
<1>2. /\ apps \in used /\ apps \in AppBlocks /\ apps # NoApps
      /\ s \in Seq(Apps) /\ cnt \in Nat /\ cnt <= Len(s)
  BY DEF Add, CapTypeOK, CountOK, SavingOK
<1>3. /\ cnt' = Len(list)
      /\ mem' = [mem EXCEPT ![apps] = list \o SubSeq(s, Len(list) + 1, Len(s))]
  BY DEF Add, WithApp
<1> HIDE DEF app, s
<1>4. /\ list \in Seq(Apps)
      /\ \A i \in 1 .. cnt : list[i] = s[i]
      /\ (\E i \in 1 .. cnt : s[i] = app) => Len(list) = cnt
      /\ ~(\E i \in 1 .. cnt : s[i] = app) => Len(list) = cnt + 1 /\ list[cnt + 1] = app
  BY <1>1, <1>2, AddedIs
<1> DEFINE t == list \o SubSeq(s, Len(list) + 1, Len(s))
<1>5. /\ t \in Seq(Apps) /\ Len(list) \in Nat /\ Len(list) <= Len(t)
      /\ \A i \in 1 .. Len(list) : t[i] = list[i]
  BY <1>2, <1>4, WrittenIs
<1>6. mem' = [mem EXCEPT ![apps] = t]
  BY <1>3
<1> HIDE DEF t, list
<1>7. mem'[apps] = t /\ mem' \in [AppBlocks -> Seq(Apps)]
  BY <1>2, <1>5, <1>6 DEF CapTypeOK
<1>8. \A i \in 1 .. cnt : i \in 1 .. Len(list)
  BY <1>2, <1>4, <1>5
<1>9. Len(list) = cnt + 1 => cnt + 1 \in 1 .. Len(list)
  BY <1>2
<1>10. \A i \in 1 .. cnt : mem'[apps][i] = mem[apps][i]
  BY <1>4, <1>5, <1>7, <1>8 DEF s
<1>11. /\ (\E i \in 1 .. cnt : mem[apps][i] = app) => cnt' = cnt
       /\ ~(\E i \in 1 .. cnt : mem[apps][i] = app) => cnt' = cnt + 1 /\ mem'[apps][cnt + 1] = app
  BY <1>3, <1>4, <1>5, <1>7, <1>9 DEF s
<1>12. cnt' \in Nat /\ cnt' <= Len(mem'[apps])
  BY <1>3, <1>5, <1>7
<1> QED BY <1>1, <1>2, <1>7, <1>10, <1>11, <1>12 DEF app

\* add_peer_application keeps the entries apart and takes one name off the list.
LEMMA AddKeeps ==
  ASSUME CapTypeOK, CountOK, SavingOK, Add
  PROVE  CapTypeOK' /\ CountOK' /\ SavingOK'
<1> DEFINE app == Named(Head(todo))
<1>1. /\ app \in Apps /\ apps \in used /\ apps \in AppBlocks
      /\ mem' \in [AppBlocks -> Seq(Apps)]
      /\ todo' \in Seq(Avps) /\ Len(todo') = Len(todo) - 1
      /\ AllNamed(todo) = {app} \cup AllNamed(todo')
      /\ cnt' \in Nat /\ cnt' <= Len(mem'[apps])
      /\ \A i \in 1 .. cnt : mem'[apps][i] = mem[apps][i]
      /\ (\E i \in 1 .. cnt : mem[apps][i] = app) => cnt' = cnt
      /\ ~(\E i \in 1 .. cnt : mem[apps][i] = app) => cnt' = cnt + 1 /\ mem'[apps][cnt + 1] = app
  BY AddIs
<1> HIDE DEF app
<1>2. /\ UNCHANGED <<sideVars, state, then, step, apps, size, used, readVars, renewed>>
      /\ step = "add" /\ todo # <<>>
  BY DEF Add
<1>3. CapTypeOK'
  BY <1>1, <1>2 DEF CapTypeOK, sideVars, readVars
<1>4. /\ EachOnce /\ cnt + Len(todo) <= size[apps] /\ cnt \in Nat /\ Len(todo) \in Nat
      /\ size[apps] \in Nat /\ Len(todo) >= 1
      /\ KnownApps \cup AllNamed(todo) = ToSet(remote)
  <2>1. todo \in Seq(Avps) /\ cnt \in Nat /\ size[apps] \in Nat
    BY <1>1 DEF CapTypeOK
  <2>2. Len(todo) \in Nat /\ Len(todo) >= 1
    BY <1>2, <2>1
  <2> QED BY <1>2, <2>1, <2>2 DEF SavingOK
<1>5. cnt' + Len(todo') <= size'[apps'] /\ cnt' <= size'[apps']
  BY <1>1, <1>2, <1>4
<1>6. CountOK'
  BY <1>1, <1>2, <1>5 DEF CountOK
<1>7. EachOnce'
  <2>1. CASE \E i \in 1 .. cnt : mem[apps][i] = app
    BY <2>1, <1>1, <1>2, <1>4 DEF EachOnce
  <2>2. CASE ~\E i \in 1 .. cnt : mem[apps][i] = app
    <3>1. \A i \in 1 .. cnt + 1 : i \in 1 .. cnt \/ i = cnt + 1
      BY <1>4
    <3> QED BY <2>2, <3>1, <1>1, <1>2, <1>4 DEF EachOnce
  <2> QED BY <2>1, <2>2
<1>8. KnownApps' = KnownApps \cup {app}
  <2>1. CASE \E i \in 1 .. cnt : mem[apps][i] = app
    BY <2>1, <1>1, <1>2 DEF KnownApps
  <2>2. CASE ~\E i \in 1 .. cnt : mem[apps][i] = app
    <3>1. 1 .. cnt + 1 = 1 .. cnt \cup {cnt + 1}
      BY <1>4
    <3> QED BY <2>2, <3>1, <1>1, <1>2 DEF KnownApps
  <2> QED BY <2>1, <2>2
<1>9. ToSet(remote)' = ToSet(remote)
  BY <1>2 DEF sideVars
<1>10. KnownApps' \cup AllNamed(todo)' = ToSet(remote)'
  BY <1>1, <1>4, <1>8, <1>9
<1> QED BY <1>1, <1>2, <1>3, <1>5, <1>6, <1>7, <1>10 DEF SavingOK, AllNamed

\* What was saved stays known while its block does.
LEMMA KnownStays ==
  ASSUME UNCHANGED <<remote, apps, cnt, mem>>
  PROVE  /\ (used' = used => (IsKnown' <=> IsKnown))
         /\ (EachOnce' <=> EachOnce) /\ KnownApps' = KnownApps
         /\ (InCommon' <=> InCommon)
BY DEF IsKnown, EachOnce, KnownApps, InCommon

LEMMA CapInitOK == CapInit => CapIInv
<1> SUFFICES ASSUME CapInit PROVE CapIInv
  OBVIOUS
<1>1. <<>> \in Seq(Avps) /\ <<>> \in Seq(Apps)
  OBVIOUS
<1>2. CapTypeOK
  BY <1>1 DEF CapInit, CapTypeOK, PeerStates
<1> QED
  BY <1>2 DEF CapInit, CapIInv, CountOK, SavingOK, OpenOK, LookOK, ReaderIsRight

\* What begins an exchange.
LEMMA BeginIs ==
  ASSUME CapIInv, ReceiveCER \/ LoseElection \/ ReceiveCEA
  PROVE  /\ UNCHANGED <<sideVars, apps, cnt, mem, size, used, readVars>>
         /\ step = "idle" /\ state # "open" /\ state' \in PeerStates \ {"open"}
         /\ \/ step' = "free" /\ todo' = Offered(remote) /\ renewed' = TRUE /\ then' \in PeerStates
               /\ (then' = "open" => InCommon)
            \/ UNCHANGED <<then, step, todo, renewed>>
<1>1. remote \in Seq(Apps) /\ Local \in Seq(Apps)
  BY DEF CapIInv, CapTypeOK
<1>2. /\ Common(Local, Offered(remote)) <=> InCommon
      /\ Common(remote, Offered(Local)) <=> InCommon
  BY <1>1, CommonIs DEF InCommon
<1>3. CASE ReceiveCER
  BY <1>2, <1>3 DEF ReceiveCER, Saves, CapIInv, CapTypeOK, PeerStates
<1>4. CASE LoseElection
  BY <1>2, <1>4 DEF LoseElection, Saves, CapIInv, CapTypeOK, PeerStates
<1>5. CASE ReceiveCEA
  BY <1>2, <1>5 DEF ReceiveCEA, Saves, CapIInv, CapTypeOK, PeerStates
<1> QED BY <1>3, <1>4, <1>5

LEMMA BeginKeeps ==
  ASSUME CapIInv, ReceiveCER \/ LoseElection \/ ReceiveCEA
  PROVE  CapIInv'
<1>1. /\ UNCHANGED <<sideVars, apps, cnt, mem, size, used, readVars>>
      /\ step = "idle" /\ state # "open" /\ state' \in PeerStates \ {"open"}
      /\ \/ step' = "free" /\ todo' = Offered(remote) /\ renewed' = TRUE /\ then' \in PeerStates
            /\ (then' = "open" => InCommon)
         \/ UNCHANGED <<then, step, todo, renewed>>
  BY BeginIs
<1>2. UNCHANGED <<remote, local, origin, apps, cnt, mem, size, used, asking, entry, seenApps,
                  seenCnt>>
  BY <1>1 DEF sideVars, readVars
<1>3. Offered(remote) \in Seq(Avps)
  BY OfferedIs DEF CapIInv, CapTypeOK
<1>4. CapTypeOK'
  BY <1>1, <1>2, <1>3 DEF CapIInv, CapTypeOK
<1>5. CountOK' /\ SavingOK'
  BY <1>1, <1>2 DEF CapIInv, CountOK, SavingOK
<1>6. OpenOK'
  BY <1>1, <1>2, KnownStays DEF CapIInv, OpenOK
<1>7. LookOK' /\ ReaderIsRight'
  BY <1>1, <1>2, KnownStays DEF CapIInv, LookOK, ReaderIsRight, Matches
<1> QED BY <1>4, <1>5, <1>6, <1>7 DEF CapIInv

LEMMA SaveKeeps ==
  ASSUME CapIInv, FreeApps \/ SetNull \/ SetZero \/ Allocate \/ Add \/ Saved
  PROVE  CapIInv'
<1>1. /\ UNCHANGED <<sideVars, readVars, renewed, then>>
      /\ step # "idle" /\ (step' # "idle" => state' = state)
      /\ ~(step' = "idle" /\ ~Saved)
  BY DEF FreeApps, SetNull, SetZero, Allocate, Add, Saved
<1>2. UNCHANGED <<remote, local, origin, asking, entry, seenApps, seenCnt>>
  BY <1>1 DEF sideVars, readVars
<1>3. LookOK' /\ ReaderIsRight'
  BY <1>1, <1>2 DEF CapIInv, LookOK, ReaderIsRight, Matches
<1>4. CapTypeOK' /\ CountOK' /\ SavingOK'
  <2>1. CASE FreeApps
    BY <2>1, <1>1, <1>2 DEF FreeApps, CapIInv, CapTypeOK, CountOK, SavingOK
  <2>2. CASE SetNull
    BY <2>2, <1>1, <1>2 DEF SetNull, CapIInv, CapTypeOK, CountOK, SavingOK
  <2>3. CASE SetZero
    BY <2>3, <1>1, <1>2 DEF SetZero, CapIInv, CapTypeOK, CountOK, SavingOK
  <2>4. CASE Allocate
    <3>1. /\ cnt' = 0 /\ step = "alloc" /\ step' = "add" /\ UNCHANGED <<state, todo, mem>>
          /\ apps' \in AppBlocks /\ apps' \in used' /\ used' \subseteq AppBlocks
          /\ size' = [size EXCEPT ![apps'] = 2 * Len(todo)]
      BY <2>4 DEF Allocate, CapIInv, CapTypeOK
    <3>2. todo = Offered(remote) /\ todo \in Seq(Avps) /\ Len(todo) \in Nat
      BY <3>1 DEF CapIInv, CapTypeOK, SavingOK
    <3>3. CapTypeOK'
      BY <1>1, <1>2, <3>1, <3>2 DEF CapIInv, CapTypeOK
    <3>4. size'[apps'] = 2 * Len(todo)
      BY <3>1 DEF CapIInv, CapTypeOK
    <3>5. CountOK'
      BY <3>1, <3>2, <3>3, <3>4 DEF CountOK, CapTypeOK
    <3>6. EachOnce' /\ KnownApps' = {}
      BY <3>1 DEF EachOnce, KnownApps
    <3>7. AllNamed(todo)' = ToSet(remote)'
      BY <1>2, <3>1, <3>2, OfferedIs DEF CapIInv, CapTypeOK
    <3> QED BY <3>1, <3>2, <3>3, <3>4, <3>5, <3>6, <3>7 DEF SavingOK
  <2>5. CASE Add
    BY <2>5, AddKeeps DEF CapIInv
  <2>6. CASE Saved
    BY <2>6, <1>1, <1>2 DEF Saved, saveVars, CapIInv, CapTypeOK, CountOK, SavingOK
  <2> QED BY <2>1, <2>2, <2>3, <2>4, <2>5, <2>6
<1>5. OpenOK'
  <2>1. InCommon' <=> InCommon
    BY <1>2 DEF InCommon
  <2>2. CASE Saved
    <3>1. /\ step = "add" /\ todo = <<>> /\ state' = then /\ step' = "idle"
          /\ UNCHANGED <<todo, apps, cnt, mem, size, used>>
      BY <2>2 DEF Saved, saveVars
    <3>2. AllNamed(todo) = {}
      BY <3>1 DEF AllNamed
    <3>3. IsKnown
      BY <3>1, <3>2 DEF CapIInv, SavingOK, IsKnown
    <3> QED BY <1>1, <1>2, <2>1, <3>1, <3>3, KnownStays DEF CapIInv, OpenOK
  <2>3. CASE ~Saved
    BY <1>1, <2>1, <2>3 DEF CapIInv, OpenOK
  <2> QED BY <2>2, <2>3
<1> QED BY <1>3, <1>4, <1>5 DEF CapIInv

LEMMA ConnectKeeps ==
  ASSUME CapIInv, ConnectPeer \/ DisconnectPeer
  PROVE  CapIInv'
<1>1. /\ step = "idle" /\ state' \in {"wait", "closed"}
      /\ UNCHANGED <<sideVars, then, step, saveVars, readVars, renewed>>
  BY DEF ConnectPeer, DisconnectPeer
<1>2. UNCHANGED <<remote, local, origin, then, step, todo, apps, cnt, mem, size, used,
                  asking, entry, seenApps, seenCnt, renewed>>
  BY <1>1 DEF sideVars, saveVars, readVars
<1>3. CapTypeOK' /\ CountOK' /\ SavingOK'
  BY <1>1, <1>2 DEF CapIInv, CapTypeOK, CountOK, SavingOK, PeerStates
<1>4. OpenOK'
  BY <1>1, <1>2 DEF CapIInv, OpenOK
<1>5. LookOK' /\ ReaderIsRight'
  BY <1>1, <1>2, KnownStays DEF CapIInv, LookOK, ReaderIsRight, Matches
<1> QED BY <1>3, <1>4, <1>5 DEF CapIInv

\* The answer is true of what is known.
LEMMA AnswerIs ==
  ASSUME KnownApps = ToSet(remote)
  PROVE  (\E i \in DOMAIN remote : Matches(remote[i]))
           <=> \E i \in 1 .. cnt : Matches(mem[apps][i])
<1>1. (\E i \in DOMAIN remote : Matches(remote[i])) <=> \E a \in ToSet(remote) : Matches(a)
  BY DEF ToSet
<1>2. (\E i \in 1 .. cnt : Matches(mem[apps][i])) <=> \E a \in KnownApps : Matches(a)
  BY DEF KnownApps
<1> QED BY <1>1, <1>2

LEMMA LookKeeps ==
  ASSUME CapIInv, Look \/ TestApps \/ NextApp
  PROVE  CapIInv'
<1>1. UNCHANGED <<sideVars, state, then, step, saveVars>>
  BY DEF Look, TestApps, NextApp
<1>2. UNCHANGED <<remote, local, origin, state, then, step, todo, apps, cnt, mem, size, used>>
  BY <1>1 DEF sideVars, saveVars
<1>3. /\ asking' \in {"test", "loop", "yes", "no", "dead"} /\ entry' \in Nat
      /\ seenApps' \in AppBlocks \cup {NoApps} /\ seenCnt' \in Nat /\ renewed' \in BOOLEAN
  <2>1. CASE Look
    BY <2>1 DEF Look, CapIInv, CapTypeOK
  <2>2. CASE TestApps
    BY <2>2 DEF TestApps, CapIInv, CapTypeOK
  <2>3. CASE NextApp
    <3>1. entry + 1 \in Nat /\ asking' \in {"yes", "no", "loop", "dead"}
      BY <2>3 DEF NextApp, CapIInv, CapTypeOK
    <3>2. /\ entry' \in {entry, entry + 1}
          /\ UNCHANGED <<seenApps, seenCnt, renewed>>
      BY <2>3 DEF NextApp
    <3> QED BY <3>1, <3>2 DEF CapIInv, CapTypeOK
  <2> QED BY <2>1, <2>2, <2>3
<1>4. CapTypeOK'
  BY <1>2, <1>3 DEF CapIInv, CapTypeOK
<1>5. CountOK' /\ SavingOK'
  BY <1>2 DEF CapIInv, CountOK, SavingOK, EachOnce, KnownApps
<1>6. OpenOK'
  BY <1>2, KnownStays DEF CapIInv, OpenOK
<1>7. LookOK' /\ ReaderIsRight'
  <2> SUFFICES ASSUME renewed' = FALSE
               PROVE  LookOK' /\ ReaderIsRight'
    BY <1>3 DEF LookOK, ReaderIsRight
  <2>1. CASE Look
    <3>1. state = "open" /\ asking' = "test" /\ entry' = 1
      BY <2>1 DEF Look
    <3>2. IsKnown' /\ step' = "idle"
      BY <1>2, <3>1, KnownStays DEF CapIInv, OpenOK
    <3> QED BY <3>1, <3>2 DEF LookOK, ReaderIsRight
  <2>2. CASE TestApps
    <3>1. /\ asking = "test" /\ renewed = FALSE /\ entry' = entry
          /\ asking' = (IF apps = NoApps \/ cnt = 0 THEN "no" ELSE "loop")
          /\ seenApps' = apps /\ seenCnt' = cnt
      BY <2>2 DEF TestApps
    <3>2. IsKnown /\ step = "idle" /\ entry = 1 /\ apps # NoApps
      BY <3>1 DEF CapIInv, LookOK, IsKnown, CapTypeOK
    <3>3. IsKnown' /\ step' = "idle"
      BY <1>2, <3>2, KnownStays
    <3>4. CASE cnt = 0
      <4>1. ~\E i \in DOMAIN remote : Matches(remote[i])
        BY <3>2, <3>4, AnswerIs DEF IsKnown
      <4> QED BY <1>2, <3>1, <3>4, <4>1 DEF LookOK, ReaderIsRight, Matches
    <3>5. CASE cnt # 0
      <4>1. asking' = "loop" /\ cnt' \in Nat /\ cnt' = cnt
        BY <1>2, <3>1, <3>2, <3>5 DEF CapIInv, CapTypeOK
      <4>2. entry' \in 1 .. cnt' + 1 /\ entry' = 1
        BY <3>1, <3>2, <4>1
      <4> QED BY <1>2, <3>1, <3>3, <4>1, <4>2 DEF LookOK, ReaderIsRight
    <3> QED BY <3>4, <3>5
  <2>3. CASE NextApp
    <3>1. /\ asking = "loop" /\ renewed = FALSE /\ seenApps' = seenApps /\ seenCnt' = seenCnt
      BY <2>3 DEF NextApp
    <3>2. /\ IsKnown /\ step = "idle" /\ seenApps = apps /\ seenCnt = cnt
          /\ entry \in 1 .. cnt + 1 /\ \A i \in 1 .. entry - 1 : ~Matches(mem[apps][i])
      BY <3>1 DEF CapIInv, LookOK
    <3>3. IsKnown' /\ step' = "idle"
      BY <1>2, <3>2, KnownStays
    <3>4. /\ apps \in used /\ apps # NoApps /\ cnt \in Nat /\ cnt <= Len(mem[apps])
          /\ Len(mem[apps]) \in Nat
      BY <3>2 DEF IsKnown, CapIInv, CapTypeOK, CountOK
    <3>5. \/ entry > cnt /\ asking' = "no" /\ entry' = entry
          \/ entry <= cnt /\ Matches(mem[apps][entry]) /\ asking' = "yes" /\ entry' = entry
          \/ entry <= cnt /\ ~Matches(mem[apps][entry]) /\ asking' = "loop" /\ entry' = entry + 1
      <4>1. entry <= cnt => entry <= Len(mem[apps])
        BY <3>2, <3>4
      <4> QED BY <2>3, <3>2, <3>4, <4>1 DEF NextApp
    <3>6. (\E i \in DOMAIN remote : Matches(remote[i]))
             <=> \E i \in 1 .. cnt : Matches(mem[apps][i])
      BY <3>2, AnswerIs DEF IsKnown
    <3>7. CASE entry > cnt /\ asking' = "no" /\ entry' = entry
      <4>1. \A i \in 1 .. cnt : ~Matches(mem[apps][i])
        BY <3>2, <3>4, <3>7
      <4> QED BY <1>2, <3>6, <3>7, <4>1 DEF LookOK, ReaderIsRight, Matches
    <3>8. CASE entry <= cnt /\ Matches(mem[apps][entry]) /\ asking' = "yes" /\ entry' = entry
      <4>1. entry \in 1 .. cnt
        BY <3>2, <3>4, <3>8
      <4> QED BY <1>2, <3>6, <3>8, <4>1 DEF LookOK, ReaderIsRight, Matches
    <3>9. CASE entry <= cnt /\ ~Matches(mem[apps][entry]) /\ asking' = "loop" /\ entry' = entry + 1
      <4>1. entry' \in 1 .. cnt + 1
        BY <3>2, <3>4, <3>9
      <4>2. \A i \in 1 .. entry' - 1 : i \in 1 .. entry - 1 \/ i = entry
        BY <3>2, <3>4, <3>9
      <4>3. \A i \in 1 .. entry' - 1 : ~Matches(mem[apps][i])
        BY <3>2, <3>9, <4>2
      <4> QED BY <1>2, <3>1, <3>2, <3>3, <3>9, <4>1, <4>3 DEF LookOK, ReaderIsRight, Matches
    <3> QED BY <3>5, <3>7, <3>8, <3>9
  <2> QED BY <2>1, <2>2, <2>3
<1> QED BY <1>4, <1>5, <1>6, <1>7 DEF CapIInv

LEMMA CapStepOK == CapIInv /\ [CapNext]_capVars => CapIInv'
<1> SUFFICES ASSUME CapIInv, [CapNext]_capVars
             PROVE  CapIInv'
  OBVIOUS
<1>1. CASE UNCHANGED capVars
  <2>1. UNCHANGED <<remote, local, origin, state, then, step, todo, apps, cnt, mem, size, used,
                    asking, entry, seenApps, seenCnt, renewed>>
    BY <1>1 DEF capVars, sideVars, saveVars, readVars
  <2>2. CapTypeOK' /\ CountOK'
    BY <2>1 DEF CapIInv, CapTypeOK, CountOK
  <2>3. SavingOK' /\ OpenOK'
    BY <2>1, KnownStays DEF CapIInv, SavingOK, OpenOK
  <2>4. LookOK' /\ ReaderIsRight'
    BY <2>1, KnownStays DEF CapIInv, LookOK, ReaderIsRight, Matches
  <2> QED BY <2>2, <2>3, <2>4 DEF CapIInv
<1>2. CASE ConnectPeer \/ DisconnectPeer
  BY <1>2, ConnectKeeps
<1>3. CASE ReceiveCER \/ LoseElection \/ ReceiveCEA
  BY <1>3, BeginKeeps
<1>4. CASE FreeApps \/ SetNull \/ SetZero \/ Allocate \/ Add \/ Saved
  BY <1>4, SaveKeeps
<1>5. CASE Look \/ TestApps \/ NextApp
  BY <1>5, LookKeeps
<1> QED BY <1>1, <1>2, <1>3, <1>4, <1>5 DEF CapNext

LEMMA CapInvariant == CapSpec => []CapIInv
<1> QED BY CapInitOK, CapStepOK, PTL DEF CapSpec

\* Every variable of the exchange of capabilities keeps its type.
THEOREM CapTypeCorrect == CapSpec => []CapTypeOK
<1>1. CapIInv => CapTypeOK
  BY DEF CapIInv
<1> QED BY <1>1, CapInvariant, PTL

\* save_peer_applications: an open peer has an application in common, and all of its
\* applications are known, each once.
THEOREM PeersAreKnown == CapSpec => []PeerIsKnown
<1>1. ASSUME CapIInv
      PROVE  PeerIsKnown
  <2>1. CapTypeOK /\ CountOK /\ OpenOK
    BY <1>1 DEF CapIInv
  <2>2. Elect(local, origin) # Elect(origin, local)
    BY <2>1, OneIsElected DEF CapTypeOK
  <2>3. apps # NoApps => cnt <= size[apps]
    BY <2>1 DEF CountOK
  <2>4. ASSUME state = "open"
        PROVE  /\ ToSet(remote) \cap ToSet(Local) # {}
               /\ apps \in used /\ ToSet(SubSeq(mem[apps], 1, cnt)) = ToSet(remote)
               /\ IsInjective(SubSeq(mem[apps], 1, cnt))
    <3>1. IsKnown /\ InCommon
      BY <2>1, <2>4 DEF OpenOK
    <3>2. mem[apps] \in Seq(Apps) /\ cnt \in Nat /\ cnt <= Len(mem[apps])
      BY <2>1, <3>1 DEF IsKnown, CapTypeOK, CountOK
    <3>3. /\ DOMAIN SubSeq(mem[apps], 1, cnt) = 1 .. cnt
          /\ \A i \in 1 .. cnt : SubSeq(mem[apps], 1, cnt)[i] = mem[apps][i]
      BY <3>2
    <3>4. ToSet(SubSeq(mem[apps], 1, cnt)) = KnownApps
      BY <3>3 DEF ToSet, KnownApps
    <3>5. IsInjective(SubSeq(mem[apps], 1, cnt))
      BY <3>1, <3>3 DEF IsKnown, EachOnce, IsInjective
    <3> QED BY <3>1, <3>4, <3>5 DEF IsKnown, InCommon
  <2> QED BY <2>2, <2>3, <2>4 DEF PeerIsKnown
<1> QED BY <1>1, CapInvariant, PTL

\* peer_handles_application: whoever looks without the lock learns the truth, unless
\* another exchange has begun.
THEOREM ReadersAreRight == CapSpec => []ReaderIsRight
<1>1. CapIInv => ReaderIsRight
  BY DEF CapIInv
<1> QED BY <1>1, CapInvariant, PTL

HIDE CapAssumption

(***************************************************************************)
(* What is said is heard, for any names, numbers and identities. The       *)
(* buffer is followed from one AVP to the next: Placed says where each one *)
(* of a message stands in it and Reads what AAAUngroupAVPS makes of the    *)
(* words from any place on, so AAATranslateMessage gives back what         *)
(* AAABuildMsgBuffer was given (WhatIsSentIsReceived). A name ends where   *)
(* it should because its padding, or the code of the AVP behind it, which  *)
(* is below 2^24, begins with a zero (CStringIs, ZeroFollows). WireInv     *)
(* says of each moment of a conversation which message is under way and    *)
(* what its receiver will find in it.                                      *)
(***************************************************************************)

\* A set of numbers with 0 and every successor has them all.
LEMMA Steps ==
  ASSUME NEW S \in SUBSET Nat, 0 \in S, \A n \in S : n + 1 \in S
  PROVE  \A n \in Nat : n \in S
  <1> DEFINE R == OpToRel(<, Nat)
             T == Nat \ S
  <1> SUFFICES ASSUME T # {} PROVE FALSE
    OBVIOUS
  <1>1. PICK x \in T : \A y \in T : ~(<<y, x>> \in R)
    BY NatLessThanWellFounded, WFMin
  <1> HIDE DEF R
  <1>2. x \in Nat /\ x # 0 /\ x - 1 \in Nat /\ x - 1 < x /\ (x - 1) + 1 = x
    <2>1. x \in Nat /\ x \notin S
      OBVIOUS
    <2> QED
      BY <2>1
  <1>3. <<x - 1, x>> \in R
    <2>1. <<x - 1, x>> \in Nat \X Nat /\ <<x - 1, x>>[1] = x - 1 /\ <<x - 1, x>>[2] = x
      BY <1>2
    <2> QED
      BY <1>2, <2>1 DEF OpToRel, R
  <1>4. x - 1 \in S
    BY <1>1, <1>2, <1>3
  <1> QED
    BY <1>1, <1>2, <1>4

\* What set_4bytes writes, get_4bytes reads.
LEMMA ValueOfWord ==
  ASSUME NEW n \in Nat
  PROVE  Word(n).hi \in Nat /\ Word(n).lo \in Nat /\ Value(Word(n)) = n
  BY DEF Value, Word

AnyWord == [hi : Nat, lo : Nat]

LEMMA WordIs ==
  ASSUME NEW n \in Nat
  PROVE  Word(n) \in AnyWord
  BY ValueOfWord DEF Word, AnyWord

(************************** Sequences of sequences ***********************)

LEMMA JoinTwo ==
  ASSUME NEW A, NEW a \in Seq(A), NEW b \in Seq(A)
  PROVE  /\ a \o b \in Seq(A) /\ Len(a) \in Nat /\ Len(b) \in Nat
         /\ Len(a \o b) = Len(a) + Len(b) /\ Len(a) <= Len(a \o b)
         /\ \A k \in 1 .. Len(a) : (a \o b)[k] = a[k]
         /\ \A k \in 1 .. Len(b) : (a \o b)[Len(a) + k] = b[k]
  BY ConcatProperties, LenProperties

\* f[i] joins the first i sequences of s.
Joins(s, f) ==
  f = [i \in 1 .. Len(s) |-> IF i = 1 THEN s[i] ELSE f[i - 1] \o s[i]]

LEMMA FlattenIs ==
  ASSUME NEW s, Len(s) # 0
  PROVE  FlattenSeq(s) = (CHOOSE f : Joins(s, f))[Len(s)]
  BY DEF FlattenSeq, Joins

\* The recursion of FlattenSeq has a solution.
LEMMA JoinsExist ==
  ASSUME NEW A, NEW s \in Seq(Seq(A))
  PROVE  \E f : Joins(s, f)
  <1> DEFINE Upto(n, f) == f = [i \in 1 .. n |-> IF i = 1 THEN s[i] ELSE f[i - 1] \o s[i]]
             N == {n \in Nat : \E f : Upto(n, f)}
  <1>1. 0 \in N
    <2>1. Upto(0, [i \in 1 .. 0 |-> IF i = 1 THEN s[i] ELSE <<>>])
      OBVIOUS
    <2> QED
      BY <2>1
  <1>2. ASSUME NEW n \in N PROVE n + 1 \in N
    <2>1. PICK f : Upto(n, f)
      OBVIOUS
    <2> DEFINE g == [i \in 1 .. n + 1 |->
                      IF i = n + 1 THEN IF i = 1 THEN s[i] ELSE f[i - 1] \o s[i] ELSE f[i]]
    <2>2. ASSUME NEW i \in 1 .. n + 1
          PROVE  g[i] = IF i = 1 THEN s[i] ELSE g[i - 1] \o s[i]
      <3>1. CASE i = n + 1
        BY <3>1
      <3>2. CASE i # n + 1
        <4>1. i \in 1 .. n /\ g[i] = f[i]
          BY <3>2
        <4>2. f[i] = IF i = 1 THEN s[i] ELSE f[i - 1] \o s[i]
          BY <2>1, <4>1
        <4>3. i # 1 => g[i - 1] = f[i - 1]
          BY <4>1
        <4> QED
          BY <4>1, <4>2, <4>3
      <3> QED
        BY <3>1, <3>2
    <2> HIDE DEF g
    <2>3. g = [i \in 1 .. n + 1 |-> g[i]]
      BY DEF g
    <2>4. Upto(n + 1, g)
      BY <2>2, <2>3
    <2> HIDE DEF Upto
    <2> QED
      BY <2>4
  <1> HIDE DEF N
  <1>3. \A n \in Nat : n \in N
    BY <1>1, <1>2, Steps DEF N
  <1>4. Len(s) \in N
    BY <1>3
  <1> QED
    BY <1>4 DEF N, Joins

\* Where the sequences of s begin and end once they are joined: s[i] fills the places
\* behind ends[i] up to ends[i + 1].
Ends(s, joined, ends) ==
  /\ ends \in [1 .. Len(s) + 1 -> Nat] /\ ends[1] = 0 /\ ends[Len(s) + 1] = Len(joined)
  /\ \A i \in 1 .. Len(s) :
       /\ ends[i + 1] = ends[i] + Len(s[i]) /\ ends[i + 1] <= Len(joined)
       /\ \A k \in 1 .. Len(s[i]) : joined[ends[i] + k] = s[i][k]

LEMMA FlattenSound ==
  ASSUME NEW A, NEW s \in Seq(Seq(A)), Len(s) # 0
  PROVE  FlattenSeq(s) \in Seq(A) /\ \E ends : Ends(s, FlattenSeq(s), ends)
  <1> DEFINE f == CHOOSE g : Joins(s, g)
  <1>1. Joins(s, f)
    BY JoinsExist
  <1> HIDE DEF f
  <1>2. Len(s) \in Nat /\ \A i \in 1 .. Len(s) : s[i] \in Seq(A) /\ Len(s[i]) \in Nat
    BY LenProperties, ElementOfSeq
  <1>3. f[1] = s[1]
    BY <1>1, <1>2 DEF Joins
  <1>4. ASSUME NEW i \in Nat, i + 1 \in 1 .. Len(s), i # 0 PROVE f[i + 1] = f[i] \o s[i + 1]
    <2>1. f[i + 1] = IF i + 1 = 1 THEN s[i + 1] ELSE f[(i + 1) - 1] \o s[i + 1]
      BY <1>1, <1>4 DEF Joins
    <2>2. i + 1 # 1 /\ (i + 1) - 1 = i
      BY <1>4
    <2> QED
      BY ONLY <2>1, <2>2
  <1> DEFINE \* i sequences are joined one behind the other.
             P(i) == /\ f[i] \in Seq(A)
                     /\ \A j \in 1 .. i : /\ Len(f[j]) \in Nat /\ Len(f[j]) <= Len(f[i])
                                          /\ \A k \in 1 .. Len(f[j]) : f[i][k] = f[j][k]
             N == {n \in Nat : n < Len(s) => P(n + 1)}
  <1>5. P(1)
    <2>1. f[1] \in Seq(A) /\ Len(f[1]) \in Nat
      BY <1>2, <1>3
    <2> QED
      BY <2>1
  <1>6. ASSUME NEW n \in Nat, n > 0, n < Len(s), P(n) PROVE P(n + 1)
    <2> DEFINE a == f[n]
               b == s[n + 1]
    <2>1. n + 1 \in 1 .. Len(s) /\ n # 0
      BY <1>2, <1>6
    <2>2. f[n + 1] = a \o b
      BY ONLY <1>4, <2>1
    <2>3. a \in Seq(A) /\ b \in Seq(A)
      BY <1>2, <1>6, <2>1
    <2>4. \A j \in 1 .. n : /\ Len(f[j]) \in Nat /\ Len(f[j]) <= Len(a)
                            /\ \A k \in 1 .. Len(f[j]) : a[k] = f[j][k]
      BY <1>6
    <2> HIDE DEF a, b, P
    <2>5. /\ a \o b \in Seq(A) /\ Len(a) \in Nat /\ Len(a \o b) \in Nat
          /\ Len(a) <= Len(a \o b) /\ \A k \in 1 .. Len(a) : (a \o b)[k] = a[k]
      BY <2>3, JoinTwo, LenProperties
    <2>6. ASSUME NEW j \in 1 .. n + 1
          PROVE  /\ Len(f[j]) \in Nat /\ Len(f[j]) <= Len(a \o b)
                 /\ \A k \in 1 .. Len(f[j]) : (a \o b)[k] = f[j][k]
      <3>1. CASE j = n + 1
        <4>1. f[j] = a \o b
          BY <2>2, <3>1
        <4> QED
          BY ONLY <2>5, <4>1
      <3>2. CASE j \in 1 .. n
        <4> DEFINE e == f[j]
        <4>1. Len(e) \in Nat /\ Len(e) <= Len(a) /\ \A k \in 1 .. Len(e) : a[k] = e[k]
          BY <2>4, <3>2
        <4> HIDE DEF e
        <4>2. Len(e) <= Len(a \o b) /\ \A k \in 1 .. Len(e) : (a \o b)[k] = e[k]
          BY ONLY <2>5, <4>1
        <4> QED
          BY <4>1, <4>2 DEF e
      <3> QED
        BY <3>1, <3>2
    <2> QED
      BY <2>2, <2>5, <2>6 DEF P
  <1> HIDE DEF P
  <1>7. \A n \in Nat : n \in N
    <2>1. 0 \in N
      BY <1>5
    <2>2. ASSUME NEW n \in N PROVE n + 1 \in N
      <3> SUFFICES ASSUME n + 1 < Len(s) PROVE P((n + 1) + 1)
        BY DEF N
      <3>1. n + 1 \in Nat /\ n + 1 > 0 /\ P(n + 1)
        BY <1>2
      <3> QED
        BY <1>6, <3>1
    <2> HIDE DEF N
    <2> QED
      BY <2>1, <2>2, Steps DEF N
  <1>8. ASSUME NEW i \in 1 .. Len(s) PROVE P(i)
    <2>1. i - 1 \in Nat /\ i - 1 < Len(s) /\ (i - 1) + 1 = i
      BY <1>2
    <2>2. i - 1 \in N
      BY <1>7, <2>1
    <2> QED
      BY <2>1, <2>2
  <1> DEFINE joined == f[Len(s)]
             ends == [i \in 1 .. Len(s) + 1 |-> IF i = 1 THEN 0 ELSE Len(f[i - 1])]
  <1>9. FlattenSeq(s) = joined
    BY FlattenIs DEF f
  <1>10. /\ joined \in Seq(A) /\ Len(joined) \in Nat
         /\ \A j \in 1 .. Len(s) : /\ Len(f[j]) \in Nat /\ Len(f[j]) <= Len(joined)
                                   /\ \A k \in 1 .. Len(f[j]) : joined[k] = f[j][k]
    BY <1>2, <1>8 DEF P
  <1>11. ends \in [1 .. Len(s) + 1 -> Nat] /\ ends[1] = 0 /\ ends[Len(s) + 1] = Len(joined)
    BY <1>2, <1>10
  <1>12. ASSUME NEW i \in 1 .. Len(s)
         PROVE  /\ ends[i + 1] = ends[i] + Len(s[i]) /\ ends[i + 1] <= Len(joined)
                /\ \A k \in 1 .. Len(s[i]) : joined[ends[i] + k] = s[i][k]
    <2>1. ends[i + 1] = Len(f[i]) /\ Len(s[i]) \in Nat
      BY <1>2
    <2>2. Len(f[i]) <= Len(joined) /\ \A k \in 1 .. Len(f[i]) : joined[k] = f[i][k]
      BY <1>10
    <2> DEFINE e == f[i]
    <2>3. CASE i = 1
      <3>1. ends[i] = 0 /\ e = s[i]
        BY <1>2, <1>3, <2>3
      <3> HIDE DEF ends, e
      <3>2. \A k \in 1 .. Len(s[i]) : joined[0 + k] = s[i][k]
        BY <2>2, <3>1 DEF e
      <3> QED
        BY <2>1, <2>2, <3>1, <3>2 DEF e
    <2>4. CASE i # 1
      <3> DEFINE a == f[i - 1]
                 b == s[i]
      <3>1. i - 1 \in Nat /\ (i - 1) + 1 = i /\ i - 1 # 0 /\ i - 1 \in 1 .. Len(s)
        BY <1>2, <2>4
      <3>2. e = a \o b
        <4>1. f[(i - 1) + 1] = f[i - 1] \o s[(i - 1) + 1]
          BY ONLY <1>4, <3>1
        <4> QED
          BY <3>1, <4>1
      <3>3. ends[i] = Len(a)
        BY <1>2, <2>4
      <3>4. a \in Seq(A) /\ b \in Seq(A)
        BY <1>2, <1>8, <3>1 DEF P
      <3> HIDE DEF e, ends, a, b
      <3>5. /\ Len(a) \in Nat /\ Len(b) \in Nat /\ Len(e) = Len(a) + Len(b)
            /\ \A k \in 1 .. Len(b) : e[Len(a) + k] = b[k]
        BY <3>2, <3>4, JoinTwo
      <3>6. \A k \in 1 .. Len(e) : joined[k] = e[k]
        BY <2>2 DEF e
      <3>7. \A k \in 1 .. Len(b) : joined[Len(a) + k] = b[k]
        BY ONLY <3>5, <3>6
      <3> QED
        BY <2>1, <2>2, <3>3, <3>5, <3>7 DEF b, e
    <2> QED
      BY <2>3, <2>4
  <1> HIDE DEF ends
  <1>13. Ends(s, joined, ends)
    BY <1>11, <1>12 DEF Ends
  <1> QED
    BY <1>9, <1>10, <1>13

(****************************** One AVP **********************************)

AnyData ==
  {d \in [len : Nat \ {0}, words : Seq(AnyWord)] : Len(d.words) = Padded(d.len)}

\* AVPs as CreateAVP leaves them.
AnyAVP ==
  {a \in [code : Nat, flags : Nat, vendor : Nat, data : AnyData] :
    /\ AvpFlags(a.code, a.flags) = a.flags
    /\ ~HasVendor(a.flags) => a.vendor = 0}

LEMMA AvpIs ==
  ASSUME NEW a \in AnyAVP
  PROVE  /\ a.code \in Nat /\ a.flags \in Nat /\ a.vendor \in Nat
         /\ AvpFlags(a.code, a.flags) = a.flags
         /\ ~HasVendor(a.flags) => a.vendor = 0
         /\ a = [code |-> a.code, flags |-> a.flags, vendor |-> a.vendor, data |-> a.data]
         /\ a.data = [len |-> a.data.len, words |-> a.data.words]
         /\ a.data.len \in Nat /\ a.data.len > 0 /\ a.data.words \in Seq(AnyWord)
         /\ Len(a.data.words) = Padded(a.data.len)
         /\ Padded(a.data.len) \in Nat /\ Padded(a.data.len) > 0
         /\ a.data.len <= 4 * Padded(a.data.len)
         /\ Header(a.flags) \in {2, 3}
         /\ HasVendor(a.flags) <=> Header(a.flags) = 3
  <1>1. a \in [code : Nat, flags : Nat, vendor : Nat, data : AnyData]
    BY DEF AnyAVP
  <1>2. a.data \in [len : Nat \ {0}, words : Seq(AnyWord)] /\ Len(a.data.words) = Padded(a.data.len)
    BY <1>1 DEF AnyData
  <1>3. a.data.len \in Nat /\ a.data.len > 0
    BY <1>2
  <1>4. /\ Padded(a.data.len) \in Nat /\ Padded(a.data.len) > 0
        /\ a.data.len <= 4 * Padded(a.data.len)
    BY <1>3 DEF Padded
  <1>5. Header(a.flags) \in {2, 3} /\ (HasVendor(a.flags) <=> Header(a.flags) = 3)
    BY DEF Header
  <1>6. AvpFlags(a.code, a.flags) = a.flags /\ (~HasVendor(a.flags) => a.vendor = 0)
    BY DEF AnyAVP
  <1> QED
    BY <1>1, <1>2, <1>3, <1>4, <1>5, <1>6

\* How many words an AVP fills.
Size(a) == Header(a.flags) + Padded(a.data.len)

\* The words of an AVP, one by one.
Written(a, e) ==
  /\ e[1] = Word(a.code)
  /\ e[2] = [hi |-> a.flags, lo |-> 4 * Header(a.flags) + a.data.len]
  /\ HasVendor(a.flags) => e[3] = Word(a.vendor)
  /\ \A k \in 1 .. Padded(a.data.len) : e[Header(a.flags) + k] = a.data.words[k]

LEMMA EncodedIs ==
  ASSUME NEW a \in AnyAVP
  PROVE  Encoded(a) \in Seq(AnyWord) /\ Len(Encoded(a)) = Size(a) /\ Written(a, Encoded(a))
  <1> DEFINE second == [hi |-> a.flags, lo |-> 4 * Header(a.flags) + a.data.len]
             first == <<Word(a.code), second>>
             vendor == IF HasVendor(a.flags) THEN <<Word(a.vendor)>> ELSE <<>>
             head == first \o vendor
             words == a.data.words
  <1>1. second \in AnyWord
    <2>1. a.flags \in Nat /\ Header(a.flags) \in {2, 3} /\ a.data.len \in Nat
      BY AvpIs
    <2>2. 4 * Header(a.flags) + a.data.len \in Nat
      BY ONLY <2>1
    <2> QED
      BY <2>1, <2>2 DEF AnyWord
  <1>2. Word(a.code) \in AnyWord /\ Word(a.vendor) \in AnyWord
    BY AvpIs, WordIs
  <1>3. words \in Seq(AnyWord) /\ Len(words) = Padded(a.data.len)
    BY AvpIs
  <1>4. Encoded(a) = head \o words
    BY DEF Encoded
  <1> HIDE DEF second, words
  <1>5. first \in Seq(AnyWord) /\ Len(first) = 2 /\ first[1] = Word(a.code) /\ first[2] = second
    BY <1>1, <1>2
  <1>6. /\ vendor \in Seq(AnyWord) /\ Len(vendor) = Header(a.flags) - 2
        /\ HasVendor(a.flags) => vendor[1] = Word(a.vendor) /\ Len(vendor) = 1
    BY <1>2 DEF Header
  <1> HIDE DEF first, vendor
  <1>7. /\ head \in Seq(AnyWord) /\ Len(head) = Header(a.flags)
        /\ head[1] = Word(a.code) /\ head[2] = second
        /\ HasVendor(a.flags) => head[3] = Word(a.vendor)
    <2>1. first \in Seq(AnyWord) /\ vendor \in Seq(AnyWord)
      BY <1>5, <1>6
    <2>2. /\ head \in Seq(AnyWord) /\ Len(head) = 2 + Len(vendor)
          /\ \A k \in 1 .. 2 : head[k] = first[k]
          /\ \A k \in 1 .. Len(vendor) : head[2 + k] = vendor[k]
      <3>1. /\ head \in Seq(AnyWord) /\ Len(head) = Len(first) + Len(vendor)
            /\ \A k \in 1 .. Len(first) : head[k] = first[k]
            /\ \A k \in 1 .. Len(vendor) : head[Len(first) + k] = vendor[k]
        BY ONLY <2>1, JoinTwo DEF head
      <3> QED
        BY <1>5, <3>1
    <2> HIDE DEF head
    <2>3. head[1] = Word(a.code) /\ head[2] = second
      BY <1>5, <2>2
    <2>4. HasVendor(a.flags) => head[3] = Word(a.vendor)
      <3> SUFFICES ASSUME HasVendor(a.flags) PROVE head[3] = Word(a.vendor)
        OBVIOUS
      <3>1. 1 \in 1 .. Len(vendor) /\ 2 + 1 = 3
        BY <1>6
      <3>2. head[2 + 1] = vendor[1]
        BY <2>2, <3>1
      <3> QED
        BY <1>6, <3>1, <3>2
    <2>5. Len(head) = Header(a.flags)
      <3>1. Header(a.flags) \in {2, 3} /\ Len(head) = 2 + Len(vendor) /\ Len(vendor) = Header(a.flags) - 2
        BY <1>6, <2>2, AvpIs
      <3> QED
        BY ONLY <3>1
    <2> QED
      BY <2>2, <2>3, <2>4, <2>5
  <1> HIDE DEF head
  <1>8. head \in Seq(AnyWord) /\ words \in Seq(AnyWord)
    BY <1>3, <1>7
  <1>9. /\ head \o words \in Seq(AnyWord) /\ Len(head \o words) = Len(head) + Len(words)
        /\ \A k \in 1 .. Len(head) : (head \o words)[k] = head[k]
        /\ \A k \in 1 .. Len(words) : (head \o words)[Len(head) + k] = words[k]
    BY ONLY <1>8, JoinTwo
  <1>10. 1 \in 1 .. Len(head) /\ 2 \in 1 .. Len(head) /\ (HasVendor(a.flags) => 3 \in 1 .. Len(head))
    <2>1. Len(head) \in {2, 3} /\ (HasVendor(a.flags) => Len(head) = 3)
      BY <1>7, AvpIs
    <2> QED
      BY ONLY <2>1
  <1> QED
    BY <1>3, <1>4, <1>7, <1>9, <1>10 DEF Written, Size, words, second

\* a stands in buf behind place p.
StandsAt(buf, p, a) ==
  /\ p \in Nat /\ p + Size(a) <= Len(buf)
  /\ \A k \in 1 .. Size(a) : buf[p + k] = Encoded(a)[k]

\* An AVP is read as it was written, and the next one is looked for behind it.
LEMMA DecodedIs ==
  ASSUME NEW buf \in Seq(AnyWord), NEW a \in AnyAVP, NEW p, StandsAt(buf, p, a)
  PROVE  /\ p + 3 <= Len(buf) /\ Fits(buf, p + 1) /\ NextAVP(buf, p + 1) = p + Size(a) + 1
         /\ Decoded(buf, p + 1) =
              [code |-> a.code, flags |-> a.flags, vendor |-> a.vendor, data |-> a.data,
               rest |-> SubSeq(buf, p + 1 + Header(a.flags), Len(buf))]
  <1> DEFINE h == Header(a.flags)
             n == Padded(a.data.len)
             e == Encoded(a)
  <1>1. /\ h \in {2, 3} /\ n \in Nat /\ n > 0 /\ Size(a) = h + n
        /\ HasVendor(a.flags) <=> h = 3
    BY AvpIs DEF Size
  <1>2. Len(buf) \in Nat /\ p \in Nat /\ p + h + n <= Len(buf)
    BY <1>1, LenProperties DEF StandsAt
  <1>3. \A k \in 1 .. h + n : buf[p + k] = e[k]
    BY <1>1 DEF StandsAt
  <1>4. Written(a, e)
    BY EncodedIs
  <1>5. a.data.len \in Nat /\ a.data.len > 0 /\ a.data.len <= 4 * n
    BY AvpIs
  <1> HIDE DEF e
  <1>w. /\ e[1] = Word(a.code) /\ e[2] = [hi |-> a.flags, lo |-> 4 * h + a.data.len]
        /\ HasVendor(a.flags) => e[3] = Word(a.vendor)
    BY <1>4 DEF Written
  <1>a. 1 \in 1 .. h + n /\ 2 \in 1 .. h + n /\ (HasVendor(a.flags) => 3 \in 1 .. h + n)
    BY <1>1
  <1>b. buf[p + 1] = Word(a.code)
    BY ONLY <1>3, <1>a, <1>w
  <1>c. buf[p + 2].hi = a.flags /\ buf[p + 2].lo = 4 * h + a.data.len
    <2>1. e[2].hi = a.flags /\ e[2].lo = 4 * h + a.data.len
      BY ONLY <1>w
    <2>2. buf[p + 2] = e[2]
      BY ONLY <1>3, <1>a
    <2> QED
      BY ONLY <2>1, <2>2
  <1>d. HasVendor(a.flags) => buf[p + 3] = Word(a.vendor)
    BY ONLY <1>3, <1>a, <1>w
  <1>7. ASSUME NEW k \in 1 .. n PROVE buf[p + h + k] = a.data.words[k]
    <2>0. h \in Nat /\ n \in Nat /\ p \in Nat /\ k \in 1 .. n
      BY <1>1, <1>2
    <2> HIDE DEF h, n
    <2>1. h + k \in 1 .. h + n /\ p + (h + k) = p + h + k
      BY ONLY <2>0
    <2> USE DEF h, n
    <2> QED
      BY <1>3, <1>4, <2>1 DEF Written
  <1>8. /\ (p + 1) + 1 = p + 2 /\ (p + 1) + 2 = p + 3 /\ (p + 1) + h = p + 1 + h
        /\ (4 * h + a.data.len) - 4 * h = a.data.len
    BY <1>1, <1>2, <1>5
  <1>9. buf[(p + 1) + 1].hi = a.flags /\ buf[(p + 1) + 1].lo - 4 * h = a.data.len
    BY <1>c, <1>8
  <1>10. p + 3 <= Len(buf)
    BY <1>1, <1>2
  <1>11. Fits(buf, p + 1)
    <2>1. buf[p + 2].lo = 4 * h + a.data.len
      BY ONLY <1>c
    <2>2. buf[(p + 1) + 1].lo > 4 * h
      <3> DEFINE lo == buf[p + 2].lo
                 len == a.data.len
      <3>1. lo = 4 * h + len /\ buf[(p + 1) + 1].lo = lo
        BY <1>8, <2>1
      <3>2. h \in Nat /\ len \in Nat /\ len > 0
        BY <1>1, <1>5
      <3> HIDE DEF lo, len, h
      <3> QED
        BY ONLY <3>1, <3>2
    <2>3. a.data.len <= 4 * (Len(buf) + 1 - (p + 1) - h)
      <3> DEFINE len == a.data.len
                 l == Len(buf)
      <3>1. len \in Nat /\ len <= 4 * n /\ n \in Nat /\ h \in Nat
        BY <1>1, <1>5
      <3>2. l \in Nat /\ p \in Nat /\ p + h + n <= l
        BY <1>2
      <3> HIDE DEF len, l, h, n
      <3>3. len <= 4 * (l + 1 - (p + 1) - h)
        BY ONLY <3>1, <3>2, SMT
      <3> QED
        BY <3>3 DEF len, l
    <2>4. Header(buf[(p + 1) + 1].hi) = h
      BY <1>9
    <2>5. buf[(p + 1) + 1].lo - 4 * h <= 4 * (Len(buf) + 1 - (p + 1) - h)
      BY ONLY <1>9, <2>3
    <2> QED
      BY ONLY <2>2, <2>4, <2>5 DEF Fits
  <1>12. NextAVP(buf, p + 1) = p + Size(a) + 1
    <2>0. h \in Nat /\ n \in Nat /\ p \in Nat
      BY <1>1, <1>2
    <2> HIDE DEF h, n
    <2>1. (p + 1) + h + n = p + (h + n) + 1
      BY ONLY <2>0
    <2> USE DEF h, n
    <2>2. Header(buf[(p + 1) + 1].hi) = h /\ Padded(buf[(p + 1) + 1].lo - 4 * h) = n
      BY ONLY <1>9
    <2>3. NextAVP(buf, p + 1) = (p + 1) + h + n
      BY ONLY <2>2 DEF NextAVP
    <2> QED
      BY ONLY <1>1, <2>1, <2>3
  <1>13. SubSeq(buf, p + 1 + h, p + 1 + h + n - 1) = a.data.words
    <2>1. a.data.words \in Seq(AnyWord) /\ Len(a.data.words) = n
      BY AvpIs
    <2>2. ASSUME NEW i \in p + 1 + h .. p + 1 + h + n - 1 PROVE buf[i] \in AnyWord
      <3>1. i \in 1 .. Len(buf)
        BY <1>1, <1>2
      <3> QED
        BY <3>1, ElementOfSeq
    <2> DEFINE lo == p + 1 + h
               hi == p + 1 + h + n - 1
    <2>8. h \in Nat /\ n \in Nat /\ n > 0 /\ p \in Nat
      BY <1>1, <1>2
    <2> HIDE DEF n, h
    <2>3. lo \in Int /\ hi \in Int /\ hi - lo + 1 = n /\ lo <= hi
      BY ONLY <2>8
    <2>7. \A k \in 1 .. n : lo + k - 1 = p + h + k
      BY ONLY <2>8
    <2> HIDE DEF lo, hi
    <2>4. /\ SubSeq(buf, lo, hi) \in Seq(AnyWord) /\ Len(SubSeq(buf, lo, hi)) = n
          /\ \A k \in 1 .. n : SubSeq(buf, lo, hi)[k] = buf[lo + k - 1]
      BY <2>2, <2>3, SubSeqProperties DEF lo, hi
    <2>5. \A k \in 1 .. n : SubSeq(buf, lo, hi)[k] = a.data.words[k]
      BY <1>7, <2>4, <2>7
    <2> HIDE DEF n
    <2>6. SubSeq(buf, lo, hi) = a.data.words
      BY <2>1, <2>4, <2>5, SeqEqual
    <2> QED
      BY <2>6 DEF lo, hi, n, h
  <1>14. Value(buf[p + 1]) = a.code
    BY <1>b, ValueOfWord, AvpIs
  <1>15. (IF HasVendor(a.flags) THEN Value(buf[(p + 1) + 2]) ELSE 0) = a.vendor
    BY <1>d, <1>8, ValueOfWord, AvpIs
  <1>16. AvpFlags(a.code, a.flags) = a.flags /\ a.data = [len |-> a.data.len, words |-> a.data.words]
    BY AvpIs
  <1>17. Decoded(buf, p + 1) =
           [code |-> a.code, flags |-> a.flags, vendor |-> a.vendor, data |-> a.data,
            rest |-> SubSeq(buf, p + 1 + h, Len(buf))]
    BY <1>8, <1>9, <1>13, <1>14, <1>15, <1>16 DEF Decoded
  <1> QED
    BY <1>10, <1>11, <1>12, <1>17

(************************** AVPs in a buffer *****************************)

\* What is read from place i on, when g says so for the places behind.
From(buf, g, i) ==
  IF i > Len(buf) THEN [avps |-> <<>>, ok |-> TRUE]
  ELSE IF i + 2 > Len(buf) \/ ~Fits(buf, i) THEN [avps |-> <<>>, ok |-> FALSE]
  ELSE [avps |-> <<Decoded(buf, i)>> \o g[NextAVP(buf, i)].avps, ok |-> g[NextAVP(buf, i)].ok]

Reads(buf, g) == g = [i \in 1 .. Len(buf) + 4 |-> From(buf, g, i)]

LEMMA UngroupIs ==
  ASSUME NEW buf
  PROVE  UngroupAVPS(buf) = (CHOOSE g : Reads(buf, g))[1]
  BY DEF UngroupAVPS, Reads, From

\* The next AVP is behind this one and at most one word behind the buffer.
LEMMA NextIsBehind ==
  ASSUME NEW buf \in Seq(AnyWord), NEW i \in 1 .. Len(buf), i + 2 <= Len(buf), Fits(buf, i)
  PROVE  NextAVP(buf, i) \in i + 1 .. Len(buf) + 1
  <1> DEFINE h == Header(buf[i + 1].hi)
             lo == buf[i + 1].lo
  <1>1. Len(buf) \in Nat /\ i + 1 \in 1 .. Len(buf)
    BY LenProperties
  <1>2. buf[i + 1] \in AnyWord
    BY <1>1, ElementOfSeq
  <1>3. lo \in Nat /\ h \in {2, 3}
    BY <1>2 DEF AnyWord, Header
  <1>4. lo > 4 * h /\ lo - 4 * h <= 4 * (Len(buf) + 1 - i - h)
    BY DEF Fits
  <1>5. NextAVP(buf, i) = i + h + (lo - 4 * h + 3) \div 4
    BY DEF NextAVP, Padded
  <1> HIDE DEF h, lo
  <1>6. i + h + (lo - 4 * h + 3) \div 4 \in i + 1 .. Len(buf) + 1
    <2> DEFINE d == lo - 4 * h
    <2>1. d \in Nat /\ d > 0 /\ d <= 4 * (Len(buf) + 1 - i - h)
      BY <1>1, <1>3, <1>4
    <2> HIDE DEF d
    <2>2. (d + 3) \div 4 \in Nat /\ (d + 3) \div 4 <= Len(buf) + 1 - i - h
      BY <1>1, <1>3, <2>1
    <2>3. i + h + (d + 3) \div 4 \in i + 1 .. Len(buf) + 1
      BY <1>1, <1>3, <2>2
    <2> QED
      BY <2>3 DEF d
  <1> QED
    BY <1>5, <1>6

LEMMA FromSame ==
  ASSUME NEW buf \in Seq(AnyWord), NEW i \in Nat \ {0}, NEW g, NEW h,
         \A j \in i + 1 .. Len(buf) + 1 : g[j] = h[j]
  PROVE  From(buf, g, i) = From(buf, h, i)
  <1>1. CASE i > Len(buf) \/ i + 2 > Len(buf) \/ ~Fits(buf, i)
    BY <1>1 DEF From
  <1>2. CASE ~(i > Len(buf) \/ i + 2 > Len(buf) \/ ~Fits(buf, i))
    <2>1. i \in 1 .. Len(buf) /\ i + 2 <= Len(buf) /\ Fits(buf, i)
      BY <1>2, LenProperties
    <2>2. g[NextAVP(buf, i)] = h[NextAVP(buf, i)]
      BY <2>1, NextIsBehind
    <2> QED
      BY <2>2 DEF From
  <1> QED
    BY <1>1, <1>2

\* The recursion of AAAUngroupAVPS has a solution: it ends for every buffer.
LEMMA ReadsExist ==
  ASSUME NEW buf \in Seq(AnyWord)
  PROVE  \E g : Reads(buf, g)
  <1> DEFINE Top == Len(buf) + 4
             Solves(n, g) == \A i \in Top - n + 1 .. Top : g[i] = From(buf, g, i)
             N == {n \in Nat : n <= Top => \E g : Solves(n, g)}
  <1>1. Top \in Nat /\ Len(buf) \in Nat /\ Len(buf) + 1 <= Top
    BY LenProperties
  <1>2. 0 \in N
    BY <1>1
  <1>3. ASSUME NEW n \in N PROVE n + 1 \in N
    <2> SUFFICES ASSUME n + 1 <= Top PROVE \E g : Solves(n + 1, g)
      OBVIOUS
    <2>1. n <= Top /\ Top - n \in Nat \ {0} /\ Top - (n + 1) + 1 = Top - n
      BY <1>1
    <2>2. PICK g : Solves(n, g)
      BY <2>1
    <2> DEFINE first == Top - n
               h == [i \in first .. Top |-> IF i = first THEN From(buf, g, i) ELSE g[i]]
    <2>3. \A j \in first + 1 .. Top : h[j] = g[j]
      BY <1>1, <2>1
    <2>4. h[first] = From(buf, g, first)
      BY <1>1, <2>1
    <2> HIDE DEF h
    <2>5. ASSUME NEW i \in first .. Top PROVE h[i] = From(buf, h, i)
      <3>1. \A j \in i + 1 .. Len(buf) + 1 : h[j] = g[j]
        BY <1>1, <2>1, <2>3
      <3>2. i \in Nat \ {0}
        BY <2>1
      <3>3. From(buf, h, i) = From(buf, g, i)
        BY <3>1, <3>2, FromSame
      <3>4. h[i] = From(buf, g, i)
        <4>1. CASE i = first
          BY <2>4, <4>1
        <4>2. CASE i # first
          <5>1. i \in Top - n + 1 .. Top /\ i \in first + 1 .. Top
            BY <2>1, <4>2
          <5> QED
            BY <2>2, <2>3, <5>1
        <4> QED
          BY <4>1, <4>2
      <3> QED
        BY <3>3, <3>4
    <2>6. Solves(n + 1, h)
      BY <2>1, <2>5
    <2> HIDE DEF Solves
    <2> QED
      BY <2>6
  <1> HIDE DEF N
  <1>4. \A n \in Nat : n \in N
    BY <1>2, <1>3, Steps DEF N
  <1>5. Top \in N
    BY <1>1, <1>4
  <1>6. PICK g : Solves(Top, g)
    BY <1>5 DEF N
  <1> DEFINE h == [i \in 1 .. Top |-> g[i]]
  <1>7. ASSUME NEW i \in 1 .. Top PROVE g[i] = From(buf, h, i)
    <2>1. g[i] = From(buf, g, i)
      BY <1>1, <1>6
    <2>2. \A j \in i + 1 .. Len(buf) + 1 : g[j] = h[j]
      BY <1>1
    <2> HIDE DEF h
    <2>3. From(buf, g, i) = From(buf, h, i)
      BY <1>1, <2>2, FromSame
    <2> QED
      BY <2>1, <2>3
  <1>8. h = [i \in 1 .. Top |-> From(buf, h, i)]
    <2>1. h = [i \in 1 .. Top |-> g[i]]
      OBVIOUS
    <2> HIDE DEF h
    <2> QED
      BY <1>7, <2>1
  <1>9. Reads(buf, h)
    <2> HIDE DEF h
    <2> QED
      BY <1>8 DEF Reads
  <1> QED
    BY <1>9

\* The AVPs fill the buffer one behind the other: ends[i] is the place behind which the
\* i-th stands.
Placed(buf, avps, ends) ==
  /\ ends \in [1 .. Len(avps) + 1 -> Nat]
  /\ ends[1] = 0 /\ ends[Len(avps) + 1] = Len(buf)
  /\ \A i \in 1 .. Len(avps) :
       StandsAt(buf, ends[i], avps[i]) /\ ends[i + 1] = ends[i] + Size(avps[i])

LEMMA GroupedIs ==
  ASSUME NEW avps \in Seq(AnyAVP), Len(avps) # 0
  PROVE  /\ GroupAVPS(avps) \in Seq(AnyWord)
         /\ \E ends : Placed(GroupAVPS(avps), avps, ends)
  <1> DEFINE s == [i \in 1 .. Len(avps) |-> Encoded(avps[i])]
             buf == FlattenSeq(s)
  <1>1. Len(avps) \in Nat /\ DOMAIN avps = 1 .. Len(avps) /\ \A i \in 1 .. Len(avps) : avps[i] \in AnyAVP
    BY LenProperties, ElementOfSeq
  <1>2. GroupAVPS(avps) = buf
    BY <1>1 DEF GroupAVPS
  <1>3. \A i \in 1 .. Len(avps) :
          /\ Encoded(avps[i]) \in Seq(AnyWord) /\ Len(Encoded(avps[i])) = Size(avps[i])
    BY <1>1, EncodedIs
  <1>4. s \in Seq(Seq(AnyWord)) /\ Len(s) = Len(avps) /\ \A i \in 1 .. Len(avps) : s[i] = Encoded(avps[i])
    BY <1>1, <1>3
  <1> HIDE DEF s
  <1>5. buf \in Seq(AnyWord) /\ \E ends : Ends(s, buf, ends)
    BY <1>4, FlattenSound
  <1>6. PICK ends : Ends(s, buf, ends)
    BY <1>5
  <1> HIDE DEF buf
  <1>7. /\ ends \in [1 .. Len(avps) + 1 -> Nat]
        /\ ends[1] = 0 /\ ends[Len(avps) + 1] = Len(buf)
    BY <1>4, <1>6 DEF Ends
  <1>8. ASSUME NEW i \in 1 .. Len(avps)
        PROVE  StandsAt(buf, ends[i], avps[i]) /\ ends[i + 1] = ends[i] + Size(avps[i])
    <2>1. /\ ends[i + 1] = ends[i] + Len(s[i]) /\ ends[i + 1] <= Len(buf)
          /\ \A k \in 1 .. Len(s[i]) : buf[ends[i] + k] = s[i][k]
      BY <1>4, <1>6 DEF Ends
    <2>2. s[i] = Encoded(avps[i]) /\ Len(s[i]) = Size(avps[i])
      BY <1>3, <1>4
    <2>3. ends[i] \in Nat
      BY <1>1, <1>7
    <2> QED
      BY <2>1, <2>2, <2>3 DEF StandsAt
  <1>9. Placed(buf, avps, ends)
    BY <1>7, <1>8 DEF Placed
  <1> QED
    BY <1>2, <1>5, <1>9

\* An AVP that was read: rest is what follows its first byte in the buffer.
ReadAs(a, rest) ==
  [code |-> a.code, flags |-> a.flags, vendor |-> a.vendor, data |-> a.data, rest |-> rest]

RestOf(buf, p, a) == SubSeq(buf, p + 1 + Header(a.flags), Len(buf))

\* AAAUngroupAVPS undoes what AAABuildMsgBuffer and AAAGroupAVPS did.
LEMMA UngroupedIs ==
  ASSUME NEW avps \in Seq(AnyAVP), Len(avps) # 0, NEW buf \in Seq(AnyWord), NEW ends,
         Placed(buf, avps, ends)
  PROVE  UngroupAVPS(buf) =
           [avps |-> [i \in 1 .. Len(avps) |->
                       ReadAs(avps[i], RestOf(buf, ends[i], avps[i]))],
            ok |-> TRUE]
  <1> DEFINE n == Len(avps)
             g == CHOOSE f : Reads(buf, f)
             D(i) == Decoded(buf, ends[i] + 1)
             A == {D(i) : i \in 1 .. n}
             Behind(m) == [j \in 1 .. m |-> D(n - m + j)]
             N == {m \in Nat : m <= n =>
                    g[ends[n - m + 1] + 1] = [avps |-> Behind(m), ok |-> TRUE]}
  <1>1. n \in Nat /\ n # 0 /\ Len(buf) \in Nat /\ \A i \in 1 .. n : avps[i] \in AnyAVP
    BY LenProperties, ElementOfSeq
  <1>2. Reads(buf, g)
    BY ReadsExist
  <1> HIDE DEF g
  <1>3. \A i \in 1 .. Len(buf) + 4 : g[i] = From(buf, g, i)
    BY <1>2 DEF Reads
  <1>4. /\ \A i \in 1 .. n + 1 : ends[i] \in Nat
        /\ ends[1] = 0 /\ ends[n + 1] = Len(buf)
        /\ \A i \in 1 .. n : StandsAt(buf, ends[i], avps[i]) /\ ends[i + 1] = ends[i] + Size(avps[i])
    BY <1>1 DEF Placed
  <1>5. ASSUME NEW i \in 1 .. n
        PROVE  /\ g[ends[i] + 1] = [avps |-> <<D(i)>> \o g[ends[i + 1] + 1].avps,
                                 ok |-> g[ends[i + 1] + 1].ok]
               /\ D(i) = ReadAs(avps[i], RestOf(buf, ends[i], avps[i]))
    <2> DEFINE p == ends[i]
               a == avps[i]
    <2>1. StandsAt(buf, p, a) /\ a \in AnyAVP /\ p \in Nat /\ ends[i + 1] = p + Size(a)
      BY <1>1, <1>4
    <2>2. /\ p + 3 <= Len(buf) /\ Fits(buf, p + 1) /\ NextAVP(buf, p + 1) = p + Size(a) + 1
          /\ Decoded(buf, p + 1) = ReadAs(a, RestOf(buf, p, a))
      BY <2>1, DecodedIs DEF ReadAs, RestOf
    <2> HIDE DEF p, a
    <2>3. p + 1 \in 1 .. Len(buf) + 4 /\ ~(p + 1 > Len(buf)) /\ ~((p + 1) + 2 > Len(buf))
      BY <1>1, <2>1, <2>2
    <2>4. g[p + 1] = [avps |-> <<Decoded(buf, p + 1)>> \o g[p + Size(a) + 1].avps,
                      ok |-> g[p + Size(a) + 1].ok]
      BY <1>3, <2>2, <2>3 DEF From
    <2> QED
      BY <2>1, <2>2, <2>4 DEF p, a
  <1>6. /\ \A i \in 1 .. n : <<D(i)>> \in Seq(A) /\ Len(<<D(i)>>) = 1 /\ <<D(i)>>[1] = D(i)
        /\ \A m \in 0 .. n :
             /\ Behind(m) \in Seq(A) /\ Len(Behind(m)) = m
             /\ \A j \in 1 .. m : Behind(m)[j] = D(n - m + j)
    <2> HIDE DEF D
    <2>1. \A i \in 1 .. n : D(i) \in A
      OBVIOUS
    <2> HIDE DEF A
    <2>2. ASSUME NEW i \in 1 .. n
          PROVE  <<D(i)>> \in Seq(A) /\ Len(<<D(i)>>) = 1 /\ <<D(i)>>[1] = D(i)
      BY <2>1
    <2>3. ASSUME NEW m \in 0 .. n
          PROVE  /\ Behind(m) \in Seq(A) /\ Len(Behind(m)) = m
                 /\ \A j \in 1 .. m : Behind(m)[j] = D(n - m + j)
      <3>1. \A j \in 1 .. m : n - m + j \in 1 .. n
        BY <1>1
      <3>2. m \in Nat /\ \A j \in 1 .. m : D(n - m + j) \in A
        BY <1>1, <2>1, <3>1
      <3> QED
        BY <3>2
    <2> QED
      BY <2>2, <2>3
  <1> HIDE DEF D, Behind, A
  <1>7. 0 \in N
    <2>1. ends[n - 0 + 1] + 1 = Len(buf) + 1 /\ Len(buf) + 1 \in 1 .. Len(buf) + 4
          /\ Len(buf) + 1 > Len(buf)
      BY <1>1, <1>4
    <2>2. g[Len(buf) + 1] = [avps |-> <<>>, ok |-> TRUE]
      BY <1>3, <2>1 DEF From
    <2>3. Behind(0) = <<>>
      BY DEF Behind
    <2> QED
      BY <2>1, <2>2, <2>3
  <1>8. ASSUME NEW m \in N PROVE m + 1 \in N
    <2>1. m \in Nat /\ m + 1 \in Nat
      OBVIOUS
    <2> SUFFICES ASSUME m + 1 <= n
                 PROVE  g[ends[n - (m + 1) + 1] + 1] = [avps |-> Behind(m + 1), ok |-> TRUE]
      BY <2>1
    <2> DEFINE i == n - m
    <2>2. i \in 1 .. n /\ n - (m + 1) + 1 = i /\ n - m + 1 = i + 1 /\ m <= n
          /\ m \in 0 .. n /\ m + 1 \in 0 .. n
      BY <1>1, <2>1
    <2>3. g[ends[i + 1] + 1] = [avps |-> Behind(m), ok |-> TRUE]
      BY <2>2
    <2> HIDE DEF i, N
    <2>4. g[ends[i] + 1] = [avps |-> <<D(i)>> \o g[ends[i + 1] + 1].avps,
                                 ok |-> g[ends[i + 1] + 1].ok]
      BY <1>5, <2>2
    <2>5. g[ends[i] + 1] = [avps |-> <<D(i)>> \o Behind(m), ok |-> TRUE]
      <3> DEFINE r == g[ends[i + 1] + 1]
      <3>1. r.avps = Behind(m) /\ r.ok = TRUE
        BY <2>3
      <3> QED
        BY <2>4, <3>1
    <2>6. <<D(i)>> \o Behind(m) = Behind(m + 1)
      <3>1. <<D(i)>> \in Seq(A) /\ Len(<<D(i)>>) = 1 /\ <<D(i)>>[1] = D(i)
        BY <1>6, <2>2
      <3>2. Behind(m) \in Seq(A) /\ Len(Behind(m)) = m /\ \A j \in 1 .. m : Behind(m)[j] = D(n - m + j)
        BY <1>6, <2>2
      <3>3. /\ Behind(m + 1) \in Seq(A) /\ Len(Behind(m + 1)) = m + 1
            /\ \A j \in 1 .. m + 1 : Behind(m + 1)[j] = D(n - (m + 1) + j)
        BY <1>6, <2>2
      <3> DEFINE one == <<D(i)>>
                 others == Behind(m)
                 all == Behind(m + 1)
      <3> HIDE DEF one, others, all
      <3>4. /\ one \o others \in Seq(A) /\ Len(one \o others) = Len(one) + Len(others)
            /\ \A k \in 1 .. Len(one) : (one \o others)[k] = one[k]
            /\ \A k \in 1 .. Len(others) : (one \o others)[Len(one) + k] = others[k]
        BY <3>1, <3>2, JoinTwo DEF one, others
      <3>5. ASSUME NEW j \in 1 .. m + 1 PROVE (one \o others)[j] = all[j]
        <4>1. all[j] = D(n - (m + 1) + j)
          BY <3>3 DEF all
        <4>2. CASE j = 1
          <5>1. n - (m + 1) + j = i
            BY <1>1, <2>1, <2>2, <4>2 DEF i
          <5>2. (one \o others)[1] = D(i)
            BY <3>1, <3>4 DEF one
          <5> QED
            BY <4>1, <4>2, <5>1, <5>2
        <4>3. CASE j # 1
          <5>1. j - 1 \in 1 .. m /\ 1 + (j - 1) = j /\ n - m + (j - 1) = n - (m + 1) + j
            BY <1>1, <2>1, <4>3
          <5>2. (one \o others)[1 + (j - 1)] = others[j - 1]
            BY <3>1, <3>2, <3>4, <5>1 DEF one, others
          <5>3. others[j - 1] = D(n - m + (j - 1))
            BY <3>2, <5>1 DEF others
          <5> QED
            BY <4>1, <5>1, <5>2, <5>3
        <4> QED
          BY <4>2, <4>3
      <3>6. Len(one \o others) = m + 1 /\ Len(all) = m + 1 /\ all \in Seq(A)
        BY <2>1, <3>1, <3>2, <3>3, <3>4 DEF one, others, all
      <3>7. one \o others = all
        BY <3>4, <3>5, <3>6, SeqEqual
      <3> QED
        BY <3>7 DEF one, others, all
    <2> QED
      BY <2>2, <2>5, <2>6
  <1>9. g[1] = [avps |-> [i \in 1 .. n |-> D(i)], ok |-> TRUE]
    <2>1. \A m \in Nat : m \in N
      <3> HIDE DEF N
      <3> QED
        BY <1>7, <1>8, Steps DEF N
    <2>2. n \in N /\ n <= n /\ n - n + 1 = 1 /\ ends[1] + 1 = 1
      BY <1>1, <1>4, <2>1
    <2>3. g[ends[n - n + 1] + 1] = [avps |-> Behind(n), ok |-> TRUE]
      BY <2>2
    <2>4. Behind(n) = [i \in 1 .. n |-> D(i)]
      <3>1. \A j \in 1 .. n : n - n + j = j
        BY <1>1
      <3> QED
        BY <3>1 DEF Behind
    <2> QED
      BY <2>2, <2>3, <2>4
  <1>10. UngroupAVPS(buf) = g[1]
    BY UngroupIs DEF g
  <1> QED
    BY <1>5, <1>9, <1>10

(****************************** Messages *********************************)

AnyAVPs == {avps \in Seq(AnyAVP) : Len(avps) # 0}

AnyMessage ==
  [code : Nat, flags : Nat, app : Nat, hopbyhop : Nat, endtoend : Nat, avps : AnyAVPs]

\* AAATranslateMessage undoes AAABuildMsgBuffer; what it adds is where the data of each AVP
\* lies in the buffer.
LEMMA TranslatedIs ==
  ASSUME NEW m \in AnyMessage
  PROVE  LET buf == GroupAVPS(m.avps)
         IN /\ buf \in Seq(AnyWord)
            /\ \E ends :
                 /\ Placed(buf, m.avps, ends)
                 /\ TranslateMessage(BuildMsgBuffer(m)) =
                      [code |-> m.code, flags |-> m.flags, app |-> m.app,
                       hopbyhop |-> m.hopbyhop, endtoend |-> m.endtoend,
                       avps |-> [i \in 1 .. Len(m.avps) |->
                         ReadAs(m.avps[i], RestOf(buf, ends[i], m.avps[i]))]]
  <1> DEFINE body == GroupAVPS(m.avps)
             head == <<[hi |-> 1, lo |-> 4 * (5 + Len(body))],
                       [hi |-> m.flags, lo |-> m.code],
                       Word(m.app), Word(m.hopbyhop), Word(m.endtoend)>>
             buf == head \o body
  <1>1. /\ m.code \in Nat /\ m.flags \in Nat /\ m.app \in Nat /\ m.hopbyhop \in Nat
        /\ m.endtoend \in Nat /\ m.avps \in Seq(AnyAVP) /\ Len(m.avps) # 0
    BY DEF AnyMessage, AnyAVPs
  <1>2. body \in Seq(AnyWord)
    BY <1>1, GroupedIs
  <1>3. PICK ends : Placed(body, m.avps, ends)
    BY <1>1, GroupedIs
  <1>4. UngroupAVPS(body) =
          [avps |-> [i \in 1 .. Len(m.avps) |->
                      ReadAs(m.avps[i], RestOf(body, ends[i], m.avps[i]))],
           ok |-> TRUE]
    BY <1>1, <1>2, <1>3, UngroupedIs
  <1>5. BuildMsgBuffer(m) = buf
    BY DEF BuildMsgBuffer
  <1> HIDE DEF body
  <1>6. Len(body) \in Nat
    BY <1>2, LenProperties
  <1>7. /\ head \in Seq(AnyWord) /\ Len(head) = 5
        /\ head[1] = [hi |-> 1, lo |-> 4 * (5 + Len(body))]
        /\ head[2] = [hi |-> m.flags, lo |-> m.code]
        /\ head[3] = Word(m.app) /\ head[4] = Word(m.hopbyhop) /\ head[5] = Word(m.endtoend)
    <2>1. /\ [hi |-> 1, lo |-> 4 * (5 + Len(body))] \in AnyWord
          /\ [hi |-> m.flags, lo |-> m.code] \in AnyWord
      BY <1>1, <1>6 DEF AnyWord
    <2>2. Word(m.app) \in AnyWord /\ Word(m.hopbyhop) \in AnyWord /\ Word(m.endtoend) \in AnyWord
      BY <1>1, WordIs
    <2> HIDE DEF AnyWord
    <2> QED
      BY <2>1, <2>2
  <1> HIDE DEF head
  <1>8. /\ buf \in Seq(AnyWord) /\ Len(buf) = 5 + Len(body)
        /\ \A k \in 1 .. 5 : buf[k] = head[k]
        /\ \A k \in 1 .. Len(body) : buf[5 + k] = body[k]
    <2>1. head \in Seq(AnyWord)
      BY <1>7
    <2>2. /\ buf \in Seq(AnyWord) /\ Len(buf) = Len(head) + Len(body)
          /\ \A k \in 1 .. Len(head) : buf[k] = head[k]
          /\ \A k \in 1 .. Len(body) : buf[Len(head) + k] = body[k]
      BY ONLY <1>2, <2>1, JoinTwo DEF buf
    <2> QED
      BY <1>7, <2>2
  <1> HIDE DEF buf
  <1>9. /\ buf[1].hi = 1 /\ buf[1].lo = 4 * (5 + Len(body))
        /\ buf[2].hi = m.flags /\ buf[2].lo = m.code
        /\ buf[3] = Word(m.app) /\ buf[4] = Word(m.hopbyhop) /\ buf[5] = Word(m.endtoend)
    BY <1>7, <1>8
  <1>10. Value(buf[3]) = m.app /\ Value(buf[4]) = m.hopbyhop /\ Value(buf[5]) = m.endtoend
    BY <1>1, <1>9, ValueOfWord
  <1>11. SubSeq(buf, 6, buf[1].lo \div 4) = body
    <2>1. buf[1].lo \div 4 = 5 + Len(body)
      BY <1>6, <1>9
    <2> DEFINE last == 5 + Len(body)
    <2>2. last \in Int /\ last - 6 + 1 = Len(body) /\ (IF 6 <= last THEN last - 6 + 1 ELSE 0) = Len(body)
      BY <1>6
    <2>3. ASSUME NEW i \in 6 .. last PROVE buf[i] \in AnyWord
      <3>1. i \in 1 .. Len(buf)
        BY <1>6, <1>8
      <3> QED
        BY <1>8, <3>1, ElementOfSeq
    <2>4. ASSUME NEW k \in 1 .. Len(body) PROVE 6 + k - 1 = 5 + k
      BY <1>6
    <2> HIDE DEF last
    <2>5. /\ SubSeq(buf, 6, last) \in Seq(AnyWord)
          /\ Len(SubSeq(buf, 6, last)) = IF 6 <= last THEN last - 6 + 1 ELSE 0
          /\ \A k \in 1 .. last - 6 + 1 : SubSeq(buf, 6, last)[k] = buf[6 + k - 1]
      BY <2>2, <2>3, SubSeqProperties
    <2>6. \A k \in 1 .. Len(body) : SubSeq(buf, 6, last)[k] = body[k]
      BY <1>8, <2>2, <2>4, <2>5
    <2>7. SubSeq(buf, 6, last) = body
      BY <1>2, <2>2, <2>5, <2>6, SeqEqual
    <2> QED
      BY <2>1, <2>7 DEF last
  <1>12. ~(Len(buf) < 5 \/ buf[1].hi # 1 \/ buf[1].lo > 4 * Len(buf))
    BY <1>6, <1>8, <1>9
  <1>13. UngroupAVPS(body).ok
    BY <1>4
  <1>14. TranslateMessage(buf) =
           [code |-> m.code, flags |-> m.flags, app |-> m.app,
            hopbyhop |-> m.hopbyhop, endtoend |-> m.endtoend, avps |-> UngroupAVPS(body).avps]
    BY <1>9, <1>10, <1>11, <1>12, <1>13 DEF TranslateMessage
  <1>15. UngroupAVPS(body).avps =
           [i \in 1 .. Len(m.avps) |-> ReadAs(m.avps[i], RestOf(body, ends[i], m.avps[i]))]
    BY <1>4
  <1> QED
    BY <1>2, <1>3, <1>5, <1>14, <1>15 DEF body

\* The first AVP of its code is the one that is found.
LEMMA FindIs ==
  ASSUME NEW avps, NEW n \in Nat, DOMAIN avps = 1 .. n, NEW code, NEW i \in 1 .. n,
         avps[i].code = code, avps[i].vendor = 0, \A j \in 1 .. i - 1 : avps[j].code # code
  PROVE  Has(avps, code, 0) /\ FindAVP(avps, code, 0) = avps[i]
  <1> DEFINE found == FindsAVP(avps, code, 0)
  <1>1. found \subseteq 1 .. n /\ i \in found
    BY DEF FindsAVP
  <1>2. \A j \in found : i <= j
    BY <1>1 DEF FindsAVP
  <1> HIDE DEF found
  <1>3. ASSUME NEW k \in found, \A j \in found : k <= j PROVE k = i
    BY <1>1, <1>2, <1>3
  <1>4. (CHOOSE k \in found : \A j \in found : k <= j) = i
    BY <1>1, <1>2, <1>3
  <1> QED
    BY <1>1, <1>4 DEF Has, FindAVP, found

\* What the receiver of a message has of it.
Got(m) == TranslateMessage(BuildMsgBuffer(m))

\* The i-th AVP is the first of its code and has this data.
Carries(avps, i, code, data) ==
  /\ i \in 1 .. Len(avps)
  /\ avps[i].code = code /\ avps[i].vendor = 0 /\ avps[i].data = data
  /\ \A j \in 1 .. i - 1 : avps[j].code # code

\* The receiver finds it.
LEMMA FoundIs ==
  ASSUME NEW m \in AnyMessage, NEW i, NEW code, NEW data, Carries(m.avps, i, code, data)
  PROVE  /\ GroupAVPS(m.avps) \in Seq(AnyWord) /\ m.avps[i] \in AnyAVP /\ data \in AnyData
         /\ \E ends :
              /\ Placed(GroupAVPS(m.avps), m.avps, ends)
              /\ Has(Got(m).avps, code, 0)
              /\ FindAVP(Got(m).avps, code, 0) =
                   ReadAs(m.avps[i], RestOf(GroupAVPS(m.avps), ends[i], m.avps[i]))
  <1> DEFINE avps == m.avps
             buf == GroupAVPS(avps)
             AsGot(e) == [j \in 1 .. Len(avps) |-> ReadAs(avps[j], RestOf(buf, e[j], avps[j]))]
  <1>1. avps \in Seq(AnyAVP) /\ Len(avps) \in Nat /\ \A j \in 1 .. Len(avps) : avps[j] \in AnyAVP
    BY LenProperties, ElementOfSeq DEF AnyMessage, AnyAVPs
  <1>2. /\ i \in 1 .. Len(avps)
        /\ avps[i].code = code /\ avps[i].vendor = 0 /\ avps[i].data = data
        /\ \A j \in 1 .. i - 1 : avps[j].code # code
    BY DEF Carries
  <1>3. buf \in Seq(AnyWord)
    BY TranslatedIs
  <1>4. PICK ends :
          /\ Placed(buf, avps, ends)
          /\ Got(m) =
               [code |-> m.code, flags |-> m.flags, app |-> m.app,
                hopbyhop |-> m.hopbyhop, endtoend |-> m.endtoend, avps |-> AsGot(ends)]
    BY TranslatedIs DEF Got
  <1>5. Got(m).avps = AsGot(ends)
    BY <1>4
  <1>6. data \in AnyData
    BY <1>1, <1>2 DEF AnyAVP
  <1> DEFINE rest == RestOf(buf, ends[i], avps[i])
  <1> HIDE DEF avps, buf
  <1>7. Has(AsGot(ends), code, 0) /\ FindAVP(AsGot(ends), code, 0) = ReadAs(avps[i], rest)
    <2>1. \A j \in 1 .. Len(avps) :
            AsGot(ends)[j].code = avps[j].code /\ AsGot(ends)[j].vendor = avps[j].vendor
      BY DEF ReadAs
    <2>2. DOMAIN AsGot(ends) = 1 .. Len(avps) /\ AsGot(ends)[i] = ReadAs(avps[i], rest)
      BY <1>2
    <2>3. \A j \in 1 .. i - 1 : j \in 1 .. Len(avps)
      BY <1>1, <1>2
    <2> HIDE DEF AsGot
    <2> QED
      BY <1>1, <1>2, <2>1, <2>2, <2>3, FindIs
  <1> QED
    BY <1>1, <1>2, <1>3, <1>4, <1>5, <1>6, <1>7 DEF avps, buf

LEMMA HearsData ==
  ASSUME NEW m \in AnyMessage, NEW i, NEW code, NEW data, Carries(m.avps, i, code, data)
  PROVE  /\ Has(Got(m).avps, code, 0) /\ FindAVP(Got(m).avps, code, 0).data = data
         /\ data \in AnyData
  <1>1. data \in AnyData /\ m.avps[i].data = data
    BY FoundIs DEF Carries
  <1>2. PICK rest : /\ Has(Got(m).avps, code, 0)
                    /\ FindAVP(Got(m).avps, code, 0) = ReadAs(m.avps[i], rest)
    BY FoundIs
  <1> QED
    BY <1>1, <1>2 DEF ReadAs

\* The words of the data and a byte of zero behind them.
Shows(rest, words) ==
  /\ rest \in Seq(AnyWord) /\ Len(rest) > Len(words)
  /\ \A k \in 1 .. Len(words) : rest[k] = words[k]
  /\ rest[Len(words) + 1].hi = 0

\* Behind the data in the buffer is a byte of zero, the first of the next AVP's code, if
\* no padding comes before.
LEMMA HearsRest ==
  ASSUME NEW m \in AnyMessage, NEW i, NEW code, NEW data, Carries(m.avps, i, code, data),
         i + 1 \in 1 .. Len(m.avps), Word(m.avps[i + 1].code).hi = 0
  PROVE  Shows(FindAVP(Got(m).avps, code, 0).rest, data.words)
  <1> DEFINE avps == m.avps
             buf == GroupAVPS(avps)
  <1>1. avps \in Seq(AnyAVP) /\ Len(avps) \in Nat /\ \A j \in 1 .. Len(avps) : avps[j] \in AnyAVP
    BY LenProperties, ElementOfSeq DEF AnyMessage, AnyAVPs
  <1>2. avps[i].data = data /\ i \in 1 .. Len(avps) /\ Word(avps[i + 1].code).hi = 0
    BY DEF Carries
  <1>3. buf \in Seq(AnyWord)
    BY FoundIs
  <1>4. PICK ends :
          /\ Placed(buf, avps, ends)
          /\ FindAVP(Got(m).avps, code, 0) = ReadAs(avps[i], RestOf(buf, ends[i], avps[i]))
    BY FoundIs
  <1> DEFINE p == ends[i]
             a == avps[i]
             b == avps[i + 1]
             rest == RestOf(buf, p, a)
  <1>5. i \in 1 .. Len(avps) /\ i + 1 \in 1 .. Len(avps)
    BY <1>2
  <1>6. a \in AnyAVP /\ b \in AnyAVP
    BY <1>1, <1>5
  <1>7. /\ StandsAt(buf, p, a) /\ StandsAt(buf, ends[i + 1], b) /\ ends[i + 1] = p + Size(a)
    BY <1>1, <1>4, <1>5 DEF Placed
  <1> HIDE DEF avps, buf
  <1>9. FindAVP(Got(m).avps, code, 0).rest = rest
    BY <1>4 DEF ReadAs
  <1> DEFINE h == Header(a.flags)
             n == Len(data.words)
  <1>11. h \in {2, 3} /\ n = Padded(a.data.len) /\ n \in Nat /\ Size(a) = h + n /\ n > 0
    BY <1>2, <1>6, AvpIs DEF Size
  <1>12. Written(a, Encoded(a)) /\ Written(b, Encoded(b)) /\ Size(b) \in Nat /\ Size(b) >= 1
    <2>1. Header(b.flags) \in {2, 3} /\ Padded(b.data.len) \in Nat
      BY <1>6, AvpIs
    <2>2. Size(b) \in Nat /\ Size(b) >= 1
      BY <2>1 DEF Size
    <2> QED
      BY <1>6, <2>2, EncodedIs
  <1>13. Len(buf) \in Nat /\ p \in Nat /\ p + h + n + 1 <= Len(buf)
    <2>1. Len(buf) \in Nat /\ p \in Nat /\ (p + Size(a)) + Size(b) <= Len(buf)
      BY <1>3, <1>7, LenProperties DEF StandsAt
    <2>2. Size(a) = h + n /\ h \in Nat /\ n \in Nat
      BY <1>11
    <2> HIDE DEF h, n, p
    <2> QED
      BY <1>12, <2>1, <2>2
  <1> HIDE DEF h, n, p, a, b
  <1>14. /\ rest \in Seq(AnyWord) /\ Len(rest) > n
         /\ \A k \in 1 .. n + 1 : rest[k] = buf[p + h + k]
    <2> DEFINE first == p + 1 + h
    <2>1. first \in Int /\ Len(buf) \in Int /\ first <= Len(buf) /\ Len(buf) - first + 1 > n
      BY <1>11, <1>13
    <2>2. ASSUME NEW k \in first .. Len(buf) PROVE buf[k] \in AnyWord
      <3>1. k \in 1 .. Len(buf)
        BY <1>11, <1>13
      <3> QED
        BY <1>3, <3>1, ElementOfSeq
    <2>3. \A k \in 1 .. n + 1 : k \in 1 .. Len(buf) - first + 1 /\ first + k - 1 = p + h + k
      BY <1>11, <1>13
    <2>4. rest = SubSeq(buf, first, Len(buf))
      BY DEF RestOf, h
    <2> HIDE DEF first
    <2>5. /\ SubSeq(buf, first, Len(buf)) \in Seq(AnyWord)
          /\ Len(SubSeq(buf, first, Len(buf))) = IF first <= Len(buf) THEN Len(buf) - first + 1 ELSE 0
          /\ \A k \in 1 .. Len(buf) - first + 1 : SubSeq(buf, first, Len(buf))[k] = buf[first + k - 1]
      BY <2>1, <2>2, SubSeqProperties
    <2> HIDE DEF rest
    <2> QED
      BY <1>11, <2>1, <2>3, <2>4, <2>5
  <1> HIDE DEF rest
  <1>15. ASSUME NEW k \in 1 .. n PROVE rest[k] = data.words[k]
    <2>1. h + k \in 1 .. Size(a) /\ p + (h + k) = p + h + k /\ k \in 1 .. n + 1
      BY <1>11, <1>13
    <2>2. buf[p + (h + k)] = Encoded(a)[h + k]
      BY <1>7, <2>1 DEF StandsAt
    <2>3. Encoded(a)[h + k] = data.words[k]
      BY <1>2, <1>11, <1>12 DEF Written, a, h
    <2> QED
      BY <1>14, <2>1, <2>2, <2>3
  <1>16. rest[n + 1].hi = 0
    <2>1. buf[ends[i + 1] + 1] = Encoded(b)[1]
      BY <1>7, <1>12 DEF StandsAt
    <2>2. Encoded(b)[1] = Word(b.code)
      BY <1>12 DEF Written
    <2>4. Word(b.code).hi = 0
      BY <1>2 DEF b
    <2>5. ends[i + 1] + 1 = p + h + (n + 1) /\ n + 1 \in 1 .. n + 1
      BY <1>7, <1>11, <1>13
    <2> QED
      BY <1>14, <2>1, <2>2, <2>4, <2>5
  <1> QED
    BY <1>9, <1>14, <1>15, <1>16 DEF n, Shows

(************************** Numbers and strings **************************)

LEMMA IntegerIs ==
  ASSUME NEW n \in Nat
  PROVE  Integer32(n) \in AnyData /\ Integer32(n).words = <<Word(n)>>
  <1>1. Word(n) \in AnyWord
    BY WordIs
  <1> HIDE DEF AnyWord
  <1>2. <<Word(n)>> \in Seq(AnyWord) /\ Len(<<Word(n)>>) = 1
    BY <1>1
  <1>3. Padded(4) = 1
    BY DEF Padded
  <1> HIDE DEF AnyWord
  <1>4. Integer32(n) = [len |-> 4, words |-> <<Word(n)>>]
    BY DEF Integer32
  <1>5. Integer32(n) \in [len : Nat \ {0}, words : Seq(AnyWord)]
    BY <1>2, <1>4
  <1>6. Integer32(n).len = 4 /\ Integer32(n).words = <<Word(n)>>
    BY <1>4
  <1> QED
    BY <1>2, <1>3, <1>5, <1>6 DEF AnyData

\* A name, as MessagesAssumption has it.
AnyName == {user \in Seq(1 .. 255) : Len(user) \in Nat \ {0}}

\* The word that the q-th four characters fill.
Four(user, q) ==
  [hi |-> Byte(user, 4 * q - 3),
   lo |-> Byte(user, 4 * q - 2) * 65536 + Byte(user, 4 * q - 1) * 256 + Byte(user, 4 * q)]

LEMMA ByteIs ==
  ASSUME NEW user \in AnyName, NEW j \in Nat \ {0}
  PROVE  Byte(user, j) \in 0 .. 255 /\ Byte(user, j) \in Nat /\ (Byte(user, j) = 0 <=> j > Len(user))
  <1>1. user \in Seq(1 .. 255) /\ Len(user) \in Nat
    BY DEF AnyName
  <1>2. j <= Len(user) => user[j] \in 1 .. 255
    BY <1>1, ElementOfSeq
  <1>3. CASE j <= Len(user)
    <2>1. Byte(user, j) = user[j] /\ user[j] \in 1 .. 255
      BY <1>2, <1>3 DEF Byte
    <2> DEFINE v == Byte(user, j)
    <2>2. v \in 1 .. 255
      BY <2>1
    <2> HIDE DEF v
    <2>3. v \in 0 .. 255 /\ v \in Nat /\ v # 0 /\ ~(j > Len(user))
      BY <1>1, <1>3, <2>2
    <2> QED
      BY <2>3 DEF v
  <1>4. CASE ~(j <= Len(user))
    <2>1. Byte(user, j) = 0
      BY <1>4 DEF Byte
    <2> QED
      BY <1>1, <1>4, <2>1
  <1> QED
    BY <1>3, <1>4

LEMMA TextIs ==
  ASSUME NEW user \in AnyName
  PROVE  /\ Text(user) \in AnyData /\ Len(Text(user).words) = Padded(Len(user))
         /\ \A q \in 1 .. Padded(Len(user)) : Text(user).words[q] = Four(user, q)
  <1> DEFINE n == Padded(Len(user))
             words == [q \in 1 .. n |-> Four(user, q)]
  <1>1. Len(user) \in Nat \ {0} /\ n \in Nat
    BY DEF AnyName, Padded
  <1>2. Text(user) = [len |-> Len(user), words |-> words]
    BY DEF Text, Four
  <1>3. ASSUME NEW q \in 1 .. n PROVE Four(user, q) \in AnyWord
    <2>1. /\ 4 * q - 3 \in Nat \ {0} /\ 4 * q - 2 \in Nat \ {0} /\ 4 * q - 1 \in Nat \ {0}
          /\ 4 * q \in Nat \ {0}
      BY <1>1
    <2>2. /\ Byte(user, 4 * q - 3) \in Nat /\ Byte(user, 4 * q - 2) \in Nat
          /\ Byte(user, 4 * q - 1) \in Nat /\ Byte(user, 4 * q) \in Nat
      BY <2>1, ByteIs
    <2> DEFINE hi == Byte(user, 4 * q - 3)
               b == Byte(user, 4 * q - 2)
               c == Byte(user, 4 * q - 1)
               d == Byte(user, 4 * q)
    <2>3. Four(user, q) = [hi |-> hi, lo |-> b * 65536 + c * 256 + d]
      BY DEF Four
    <2>5. hi \in Nat /\ b \in Nat /\ c \in Nat /\ d \in Nat
      BY <2>2
    <2> HIDE DEF hi, b, c, d
    <2>4. hi \in Nat /\ b * 65536 + c * 256 + d \in Nat
      BY ONLY <2>5
    <2> QED
      BY <2>3, <2>4 DEF AnyWord
  <1> HIDE DEF n
  <1>4. words \in Seq(AnyWord) /\ Len(words) = n /\ \A q \in 1 .. n : words[q] = Four(user, q)
    BY <1>1, <1>3
  <1> HIDE DEF words
  <1> QED
    BY <1>1, <1>2, <1>4 DEF AnyData, n

\* The bytes of a word are those it was made of.
LEMMA FourBytes ==
  ASSUME NEW user \in AnyName, NEW q \in Nat \ {0}
  PROVE  Bytes(Four(user, q)) =
           <<Byte(user, 4 * q - 3), Byte(user, 4 * q - 2), Byte(user, 4 * q - 1), Byte(user, 4 * q)>>
  <1> DEFINE a == Byte(user, 4 * q - 3)
             b == Byte(user, 4 * q - 2)
             c == Byte(user, 4 * q - 1)
             d == Byte(user, 4 * q)
             lo == b * 65536 + c * 256 + d
  <1>1. /\ 4 * q - 3 \in Nat \ {0} /\ 4 * q - 2 \in Nat \ {0} /\ 4 * q - 1 \in Nat \ {0}
        /\ 4 * q \in Nat \ {0}
    OBVIOUS
  <1>2. b \in 0 .. 255 /\ c \in 0 .. 255 /\ d \in 0 .. 255
    BY <1>1, ByteIs
  <1>3. Four(user, q) = [hi |-> a, lo |-> lo]
    BY DEF Four
  <1> HIDE DEF a, b, c, d
  <1>4. lo \div 65536 = b /\ (lo \div 256) % 256 = c /\ lo % 256 = d
    <2>1. lo \div 256 = b * 256 + c /\ (b * 256 + c) % 256 = c
      BY ONLY <1>2 DEF lo
    <2>2. lo \div 65536 = b /\ lo % 256 = d
      BY ONLY <1>2 DEF lo
    <2> QED
      BY <2>1, <2>2
  <1> HIDE DEF lo
  <1>5. Bytes([hi |-> a, lo |-> lo]) = <<a, b, c, d>>
    BY <1>4 DEF Bytes
  <1> QED
    BY <1>3, <1>5 DEF a, b, c, d

\* strcpy takes a name out of a buffer if a zero follows it there.
LEMMA CStringIs ==
  ASSUME NEW user \in AnyName, NEW rest \in Seq(AnyWord), Len(rest) > Padded(Len(user)),
         \A q \in 1 .. Padded(Len(user)) : rest[q] = Four(user, q),
         rest[Padded(Len(user)) + 1].hi = 0
  PROVE  CString(rest) = user
  <1> DEFINE n == Padded(Len(user))
             l == Len(user)
             bytes == [j \in 1 .. 4 * Len(rest) |->
                        Bytes(rest[(j + 3) \div 4])[((j - 1) % 4) + 1]]
             ends == {i \in DOMAIN bytes : bytes[i] = 0}
  <1>1. l \in Nat /\ l > 0 /\ n \in Nat /\ l <= 4 * n /\ user \in Seq(1 .. 255)
    BY DEF AnyName, Padded
  <1>2. Len(rest) \in Nat /\ Len(rest) > n /\ rest[n + 1].hi = 0
    BY LenProperties
  <1>14. \A q \in 1 .. n : rest[q] = Four(user, q)
    OBVIOUS
  <1>15. \A j \in 1 .. 4 * Len(rest) : bytes[j] = Bytes(rest[(j + 3) \div 4])[((j - 1) % 4) + 1]
    OBVIOUS
  <1>5. DOMAIN bytes = 1 .. 4 * Len(rest)
    OBVIOUS
  <1> HIDE DEF n, bytes
  <1>3. ASSUME NEW j \in 1 .. 4 * n PROVE bytes[j] = Byte(user, j)
    <2> DEFINE q == (j + 3) \div 4
               s == ((j - 1) % 4) + 1
    <2>1. q \in 1 .. n /\ s \in 1 .. 4 /\ j = 4 * q - 4 + s /\ q \in Nat
      BY <1>1
    <2>8. j \in 1 .. 4 * Len(rest)
      BY <1>1, <1>2
    <2>2. bytes[j] = Bytes(rest[q])[s]
      BY <1>15, <2>8
    <2> HIDE DEF q, s
    <2>3. rest[q] = Four(user, q)
      BY <1>14, <2>1
    <2>9. q \in Nat \ {0}
      BY <2>1
    <2>5. Bytes(Four(user, q)) =
            <<Byte(user, 4 * q - 3), Byte(user, 4 * q - 2), Byte(user, 4 * q - 1), Byte(user, 4 * q)>>
      BY <2>9, FourBytes
    <2>6. /\ s = 1 => j = 4 * q - 3
          /\ s = 2 => j = 4 * q - 2
          /\ s = 3 => j = 4 * q - 1
          /\ s = 4 => j = 4 * q
      BY <2>1
    <2>7. s = 1 \/ s = 2 \/ s = 3 \/ s = 4
      BY <2>1
    <2> QED
      BY <2>2, <2>3, <2>5, <2>6, <2>7
  <1>4. bytes[4 * n + 1] = 0
    <2>1. 4 * n + 1 \in 1 .. 4 * Len(rest)
      BY <1>1, <1>2
    <2> DEFINE j == 4 * n + 1
    <2>2. (j + 3) \div 4 = n + 1 /\ ((j - 1) % 4) + 1 = 1
      BY <1>1
    <2>5. bytes[j] = Bytes(rest[(j + 3) \div 4])[((j - 1) % 4) + 1]
      BY <1>15, <2>1
    <2> HIDE DEF j
    <2>3. bytes[j] = Bytes(rest[n + 1])[1]
      BY ONLY <2>2, <2>5
    <2>4. Bytes(rest[n + 1])[1] = rest[n + 1].hi
      BY DEF Bytes
    <2> QED
      BY <1>2, <2>3, <2>4 DEF j
  <1>6. l + 1 \in 1 .. 4 * Len(rest) /\ bytes[l + 1] = 0
    <2>1. CASE l + 1 <= 4 * n
      <3>1. l + 1 \in 1 .. 4 * n /\ l + 1 \in Nat \ {0} /\ l + 1 > l /\ 4 * n <= 4 * Len(rest)
        BY <1>1, <1>2, <2>1
      <3>2. Byte(user, l + 1) = 0
        BY <3>1, ByteIs
      <3>3. l + 1 \in 1 .. 4 * Len(rest)
        BY <1>1, <1>2, <2>1
      <3> QED
        BY <1>3, <3>1, <3>2, <3>3
    <2>2. CASE ~(l + 1 <= 4 * n)
      <3>1. l + 1 = 4 * n + 1 /\ l + 1 \in 1 .. 4 * Len(rest)
        BY <1>1, <1>2, <2>2
      <3> QED
        BY <1>4, <3>1
    <2> QED
      BY <2>1, <2>2
  <1>7. ASSUME NEW j \in 1 .. l PROVE bytes[j] = user[j] /\ bytes[j] # 0
    <2>1. j \in 1 .. 4 * n /\ j \in Nat \ {0} /\ ~(j > l) /\ j <= l
      BY <1>1
    <2>2. Byte(user, j) # 0 /\ Byte(user, j) = user[j]
      BY <2>1, ByteIs DEF Byte
    <2> QED
      BY <1>3, <2>1, <2>2
  <1>8. l + 1 \in ends /\ \A i \in ends : l + 1 <= i
    <2>1. l + 1 \in ends
      BY <1>5, <1>6
    <2>2. ASSUME NEW i \in ends PROVE l + 1 <= i
      <3>1. i \in 1 .. 4 * Len(rest) /\ bytes[i] = 0
        BY <1>5
      <3>2. i \notin 1 .. l
        BY <1>7, <3>1
      <3> QED
        BY <1>1, <1>2, <3>1, <3>2
    <2> QED
      BY <2>1, <2>2
  <1>9. \A i \in ends : i \in Nat
    BY <1>2, <1>5
  <1> HIDE DEF ends
  <1>10. (CHOOSE i \in ends : \A j \in ends : i <= j) = l + 1
    <2>1. \A i \in ends : (\A j \in ends : i <= j) => i = l + 1
      BY <1>1, <1>8, <1>9
    <2>2. \E i \in ends : \A j \in ends : i <= j
      BY <1>8
    <2> QED
      BY ONLY <2>1, <2>2
  <1>11. SubSeq(bytes, 1, l) = user
    <2>1. \A j \in 1 .. l : bytes[j] \in 1 .. 255
      BY <1>1, <1>7, ElementOfSeq
    <2>2. 1 \in Int /\ l \in Int /\ l - 1 + 1 = l /\ (IF 1 <= l THEN l - 1 + 1 ELSE 0) = l
          /\ \A j \in 1 .. l : 1 + j - 1 = j
      BY <1>1
    <2>3. /\ SubSeq(bytes, 1, l) \in Seq(1 .. 255) /\ Len(SubSeq(bytes, 1, l)) = l
          /\ \A j \in 1 .. l : SubSeq(bytes, 1, l)[j] = bytes[j]
      BY <2>1, <2>2, SubSeqProperties
    <2>4. \A j \in 1 .. l : SubSeq(bytes, 1, l)[j] = user[j]
      BY <1>7, <2>3
    <2> QED
      BY <1>1, <2>3, <2>4, SeqEqual
  <1>12. CString(rest) = IF ends = {} THEN Append(bytes, Beyond)
                         ELSE SubSeq(bytes, 1, (CHOOSE i \in ends : \A j \in ends : i <= j) - 1)
    BY DEF CString, bytes, ends
  <1>13. (l + 1) - 1 = l /\ ends # {}
    BY <1>1, <1>8
  <1> QED
    BY <1>10, <1>11, <1>12, <1>13

\* A number and a name are understood as they were said.
LEMMA HearsInteger ==
  ASSUME NEW m \in AnyMessage, NEW i, NEW code, NEW n \in Nat,
         Carries(m.avps, i, code, Integer32(n))
  PROVE  Has(Got(m).avps, code, 0) /\ IntegerOf(Got(m), code) = n
  <1>1. Has(Got(m).avps, code, 0) /\ FindAVP(Got(m).avps, code, 0).data = Integer32(n)
    BY HearsData
  <1>2. Integer32(n).words = <<Word(n)>>
    BY IntegerIs
  <1>3. FindAVP(Got(m).avps, code, 0).data.words[1] = Word(n)
    BY <1>1, <1>2
  <1> QED
    BY <1>1, <1>3, ValueOfWord DEF IntegerOf

LEMMA HearsString ==
  ASSUME NEW m \in AnyMessage, NEW i, NEW code, NEW user \in AnyName,
         Carries(m.avps, i, code, Text(user)),
         i + 1 \in 1 .. Len(m.avps), Word(m.avps[i + 1].code).hi = 0
  PROVE  Has(Got(m).avps, code, 0) /\ StringOf(Got(m), code) = user
  <1> DEFINE rest == FindAVP(Got(m).avps, code, 0).rest
             text == Text(user)
             words == text.words
  <1>1. Shows(rest, words)
    <2>1. Carries(m.avps, i, code, text)
      OBVIOUS
    <2> HIDE DEF text
    <2> QED
      BY <2>1, HearsRest
  <1>2. Len(words) = Padded(Len(user)) /\ \A q \in 1 .. Padded(Len(user)) : words[q] = Four(user, q)
    BY TextIs
  <1>3. Has(Got(m).avps, code, 0)
    BY HearsData
  <1> HIDE DEF rest, words
  <1>4. CString(rest) = user
    BY <1>1, <1>2, CStringIs DEF Shows
  <1> QED
    BY <1>3, <1>4 DEF StringOf, rest

LEMMA HearsHeader ==
  ASSUME NEW m \in AnyMessage
  PROVE  /\ Got(m).code = m.code /\ Got(m).flags = m.flags /\ Got(m).app = m.app
         /\ Got(m).hopbyhop = m.hopbyhop /\ Got(m).endtoend = m.endtoend
  <1>1. PICK avps : Got(m) =
          [code |-> m.code, flags |-> m.flags, app |-> m.app,
           hopbyhop |-> m.hopbyhop, endtoend |-> m.endtoend, avps |-> avps]
    BY TranslatedIs DEF Got
  <1> QED
    BY <1>1

\* AAATranslateMessage gives back what AAABuildMsgBuffer was given.
LEMMA WireKeepsAll ==
  ASSUME NEW m \in AnyMessage
  PROVE  [Got(m) EXCEPT !.avps = [i \in DOMAIN @ |->
            [code |-> @[i].code, flags |-> @[i].flags, vendor |-> @[i].vendor,
             data |-> @[i].data]]] = m
  <1>1. PICK ends : Got(m) =
          [code |-> m.code, flags |-> m.flags, app |-> m.app,
           hopbyhop |-> m.hopbyhop, endtoend |-> m.endtoend,
           avps |-> [i \in 1 .. Len(m.avps) |->
             ReadAs(m.avps[i], RestOf(GroupAVPS(m.avps), ends[i], m.avps[i]))]]
    BY TranslatedIs DEF Got
  <1> DEFINE got == [i \in 1 .. Len(m.avps) |->
                      ReadAs(m.avps[i], RestOf(GroupAVPS(m.avps), ends[i], m.avps[i]))]
             view == [i \in DOMAIN got |->
                       [code |-> got[i].code, flags |-> got[i].flags, vendor |-> got[i].vendor,
                        data |-> got[i].data]]
  <1>2. m = [code |-> m.code, flags |-> m.flags, app |-> m.app,
             hopbyhop |-> m.hopbyhop, endtoend |-> m.endtoend, avps |-> m.avps]
    BY DEF AnyMessage
  <1>3. view = m.avps
    <2>1. m.avps \in Seq(AnyAVP)
      BY DEF AnyMessage, AnyAVPs
    <2>2. \A i \in 1 .. Len(m.avps) :
            m.avps[i] = [code |-> m.avps[i].code, flags |-> m.avps[i].flags,
                         vendor |-> m.avps[i].vendor, data |-> m.avps[i].data]
      BY <2>1, ElementOfSeq, AvpIs
    <2>3. m.avps = [i \in 1 .. Len(m.avps) |-> m.avps[i]]
      BY <2>1, LenProperties
    <2>4. \A i \in 1 .. Len(m.avps) :
            [code |-> got[i].code, flags |-> got[i].flags, vendor |-> got[i].vendor,
             data |-> got[i].data] = m.avps[i]
      BY <2>2 DEF ReadAs
    <2>5. view = [i \in 1 .. Len(m.avps) |->
                   [code |-> got[i].code, flags |-> got[i].flags, vendor |-> got[i].vendor,
                    data |-> got[i].data]]
      OBVIOUS
    <2> HIDE DEF got, view
    <2>6. view = [i \in 1 .. Len(m.avps) |-> m.avps[i]]
      BY <2>4, <2>5
    <2> QED
      BY <2>3, <2>6
  <1>4. Got(m).avps = got
    BY <1>1
  <1> HIDE DEF got
  <1>5. [Got(m) EXCEPT !.avps = view] = m
    BY <1>1, <1>2, <1>3
  <1> QED
    BY <1>4, <1>5

\* AAATranslateMessage gives back every message that AAABuildMsgBuffer was given: header and
\* AVPs, with data of any length, in their order.
THEOREM WhatIsSentIsReceived ==
  ASSUME NEW m \in AnyMessage
  PROVE  [TranslateMessage(BuildMsgBuffer(m)) EXCEPT !.avps = [i \in DOMAIN @ |->
            [code |-> @[i].code, flags |-> @[i].flags, vendor |-> @[i].vendor,
             data |-> @[i].data]]] = m
  BY WireKeepsAll DEF Got

(************************ What a message says ****************************)

\* A code and the data that goes with it.
Item == Nat \X AnyData

\* The AVPs of m are those of the script, made by CreateAVP without a vendor.
Spells(m, script) ==
  /\ m \in AnyMessage /\ script \in Seq(Item) /\ Len(m.avps) = Len(script)
  /\ \A i \in 1 .. Len(script) :
       m.avps[i].code = script[i][1] /\ m.avps[i].vendor = 0 /\ m.avps[i].data = script[i][2]

\* set_avp_fields leaves flags that it would leave alone.
LEMMA FlagsStay ==
  ASSUME NEW code \in Nat, NEW flags \in Nat
  PROVE  /\ AvpFlags(code, flags) \in Nat
         /\ AvpFlags(code, AvpFlags(code, flags)) = AvpFlags(code, flags)
  <1> DEFINE f == AvpFlags(code, flags)
  <1>1. PBit(flags) \in {0, 32} /\ PBit(64 + PBit(flags)) = PBit(flags) /\ PBit(0 + PBit(flags)) = PBit(flags)
    BY DEF PBit
  <1>2. CASE code \in BaseCodes
    <2>1. f = 64 + PBit(flags) /\ AvpFlags(code, f) = 64 + PBit(f)
      BY <1>2 DEF AvpFlags, Mandatory
    <2> QED
      BY <1>1, <2>1
  <1>3. CASE code \notin BaseCodes
    BY <1>1, <1>3 DEF AvpFlags, Mandatory
  <1> QED
    BY <1>2, <1>3

LEMMA CreateIs ==
  ASSUME NEW code \in Nat, NEW flags \in Nat, NEW data \in AnyData
  PROVE  LET a == CreateAVP(code, flags, 0, data)
         IN a \in AnyAVP /\ a.code = code /\ a.vendor = 0 /\ a.data = data
  <1> DEFINE f == AvpFlags(code, flags)
             a == [code |-> code, flags |-> f, vendor |-> 0, data |-> data]
  <1>1. f \in Nat /\ AvpFlags(code, f) = f
    BY FlagsStay
  <1>2. CreateAVP(code, flags, 0, data) = a
    BY DEF CreateAVP
  <1> HIDE DEF f
  <1>3. a \in [code : Nat, flags : Nat, vendor : Nat, data : AnyData]
    BY <1>1
  <1>4. a.code = code /\ a.flags = f /\ a.vendor = 0 /\ a.data = data
    OBVIOUS
  <1> HIDE DEF a
  <1>5. a \in AnyAVP
    BY <1>1, <1>3, <1>4 DEF AnyAVP
  <1> QED
    BY <1>2, <1>4, <1>5

\* Data of messages.
LEMMA DataIs ==
  ASSUME NEW data, IsData(data)
  PROVE  data \in AnyData
  <1>1. /\ data = [len |-> data.len, words |-> data.words] /\ data.words \in Seq(BufferWord)
        /\ data.len \in Nat \ {0} /\ Len(data.words) = Padded(data.len)
    BY DEF IsData
  <1>2. BufferWord \subseteq AnyWord
    BY SMT DEF BufferWord, AnyWord
  <1>3. data.words \in Seq(AnyWord) /\ data.len \in Nat \ {0}
    BY <1>1, <1>2, SeqMonotonic
  <1>4. data \in [len : Nat \ {0}, words : Seq(AnyWord)]
    BY <1>1, <1>3
  <1> QED
    BY <1>1, <1>4 DEF AnyData

\* Any number of AVPs behind those of m.
LEMMA SpellsMore ==
  ASSUME NEW m, NEW script, Spells(m, script), NEW pairs \in Seq(Item), NEW avps,
         Len(avps) = Len(pairs), avps \in Seq(AnyAVP),
         \A i \in 1 .. Len(pairs) :
           avps[i].code = pairs[i][1] /\ avps[i].vendor = 0 /\ avps[i].data = pairs[i][2]
  PROVE  Spells([m EXCEPT !.avps = @ \o avps], script \o pairs)
  <1> DEFINE old == m.avps
             all == old \o avps
             says == script \o pairs
  <1>1. /\ m \in AnyMessage /\ script \in Seq(Item) /\ Len(old) = Len(script)
        /\ old \in Seq(AnyAVP) /\ Len(old) # 0
        /\ \A i \in 1 .. Len(script) :
             old[i].code = script[i][1] /\ old[i].vendor = 0 /\ old[i].data = script[i][2]
    BY DEF Spells, AnyMessage, AnyAVPs
  <1> HIDE DEF old
  <1>2. /\ all \in Seq(AnyAVP) /\ Len(old) \in Nat /\ Len(avps) \in Nat
        /\ Len(all) = Len(old) + Len(avps)
        /\ \A k \in 1 .. Len(old) : all[k] = old[k]
        /\ \A k \in 1 .. Len(avps) : all[Len(old) + k] = avps[k]
    <2>1. old \in Seq(AnyAVP) /\ avps \in Seq(AnyAVP)
      BY <1>1
    <2> QED
      BY ONLY <2>1, JoinTwo DEF all
  <1>3. /\ says \in Seq(Item) /\ Len(says) = Len(script) + Len(pairs)
        /\ \A k \in 1 .. Len(script) : says[k] = script[k]
        /\ \A k \in 1 .. Len(pairs) : says[Len(script) + k] = pairs[k]
    BY <1>1, JoinTwo
  <1> HIDE DEF all, says
  <1>4. ASSUME NEW i \in 1 .. Len(says)
        PROVE  all[i].code = says[i][1] /\ all[i].vendor = 0 /\ all[i].data = says[i][2]
    <2>1. CASE i <= Len(script)
      <3>1. i \in 1 .. Len(script)
        BY <1>1, <1>2, <1>3, <2>1
      <3> QED
        BY <1>1, <1>2, <1>3, <3>1
    <2>2. CASE ~(i <= Len(script))
      <3> DEFINE k == i - Len(script)
      <3>1. k \in 1 .. Len(pairs) /\ i = Len(script) + k
        BY <1>1, <1>2, <1>3, <2>2
      <3> HIDE DEF k
      <3>2. all[i] = avps[k] /\ says[i] = pairs[k]
        BY <1>1, <1>2, <1>3, <3>1
      <3> QED
        BY <3>1, <3>2
    <2> QED
      BY <2>1, <2>2
  <1>5. all \in AnyAVPs
    BY <1>1, <1>2 DEF AnyAVPs
  <1>6. [m EXCEPT !.avps = all] \in AnyMessage /\ [m EXCEPT !.avps = all].avps = all
    BY <1>1, <1>5 DEF AnyMessage
  <1>8. Len(says) = Len(all)
    BY <1>1, <1>2, <1>3
  <1>7. Spells([m EXCEPT !.avps = all], says)
    BY <1>3, <1>4, <1>6, <1>8 DEF Spells
  <1> QED
    BY <1>7 DEF all, says, old

LEMMA AddSpells ==
  ASSUME NEW m, NEW script, Spells(m, script), NEW pairs \in Seq(Item)
  PROVE  Spells(AddAVPs(m, pairs), script \o pairs) /\ AddAVPs(m, pairs).app = m.app
  <1> DEFINE avps == [i \in 1 .. Len(pairs) |-> CreateAVP(pairs[i][1], Mandatory, 0, pairs[i][2])]
  <1>1. Len(pairs) \in Nat /\ DOMAIN pairs = 1 .. Len(pairs)
        /\ \A i \in 1 .. Len(pairs) : pairs[i][1] \in Nat /\ pairs[i][2] \in AnyData
    <2>1. \A i \in 1 .. Len(pairs) : pairs[i] \in Nat \X AnyData
      BY ElementOfSeq DEF Item
    <2> QED
      BY <2>1, LenProperties
  <1>2. AddAVPs(m, pairs) = [m EXCEPT !.avps = @ \o avps]
    BY <1>1 DEF AddAVPs
  <1>3. ASSUME NEW i \in 1 .. Len(pairs)
        PROVE  /\ CreateAVP(pairs[i][1], Mandatory, 0, pairs[i][2]) \in AnyAVP
               /\ CreateAVP(pairs[i][1], Mandatory, 0, pairs[i][2]).code = pairs[i][1]
               /\ CreateAVP(pairs[i][1], Mandatory, 0, pairs[i][2]).vendor = 0
               /\ CreateAVP(pairs[i][1], Mandatory, 0, pairs[i][2]).data = pairs[i][2]
    BY <1>1, CreateIs DEF Mandatory
  <1>4. /\ avps \in Seq(AnyAVP) /\ Len(avps) = Len(pairs)
        /\ \A i \in 1 .. Len(pairs) : avps[i] = CreateAVP(pairs[i][1], Mandatory, 0, pairs[i][2])
    BY <1>1, <1>3
  <1> HIDE DEF avps
  <1>5. \A i \in 1 .. Len(pairs) :
          avps[i].code = pairs[i][1] /\ avps[i].vendor = 0 /\ avps[i].data = pairs[i][2]
    BY <1>3, <1>4
  <1>6. Spells([m EXCEPT !.avps = @ \o avps], script \o pairs)
    BY <1>4, <1>5, SpellsMore
  <1>7. m \in AnyMessage
    BY DEF Spells
  <1>8. [m EXCEPT !.avps = @ \o avps].app = m.app
    BY <1>7 DEF AnyMessage
  <1> QED
    BY <1>2, <1>6, <1>8

LEMMA AddOneSpells ==
  ASSUME NEW m, NEW script, Spells(m, script), NEW code \in Nat, NEW data \in AnyData
  PROVE  /\ Spells(AddAVP(m, code, data), script \o <<<<code, data>>>>)
         /\ AddAVP(m, code, data).app = m.app
  <1> DEFINE pairs == <<<<code, data>>>>
             avp == CreateAVP(code, Mandatory, 0, data)
             avps == <<avp>>
  <1>1. avp \in AnyAVP /\ avp.code = code /\ avp.vendor = 0 /\ avp.data = data
    BY CreateIs DEF Mandatory
  <1>2. <<code, data>> \in Item
    BY DEF Item
  <1> HIDE DEF avp, Item
  <1>3. pairs \in Seq(Item) /\ Len(pairs) = 1 /\ pairs[1] = <<code, data>>
    BY <1>2
  <1>4. avps \in Seq(AnyAVP) /\ Len(avps) = 1 /\ avps[1] = avp
    BY <1>1
  <1>5. m \in AnyMessage /\ m.avps \in Seq(AnyAVP)
    BY DEF Spells, AnyMessage, AnyAVPs
  <1>6. Append(m.avps, avp) = m.avps \o avps
    BY <1>1, <1>5, AppendIsConcat
  <1>7. AddAVP(m, code, data) = [m EXCEPT !.avps = m.avps \o avps]
    BY <1>6 DEF AddAVP, avp
  <1> HIDE DEF pairs, avps
  <1>8. \A i \in 1 .. Len(pairs) :
          avps[i].code = pairs[i][1] /\ avps[i].vendor = 0 /\ avps[i].data = pairs[i][2]
    BY <1>1, <1>3, <1>4
  <1>9. Spells([m EXCEPT !.avps = @ \o avps], script \o pairs)
    BY <1>3, <1>4, <1>8, SpellsMore
  <1>10. [m EXCEPT !.avps = m.avps \o avps].app = m.app
    BY <1>5 DEF AnyMessage
  <1> QED
    BY <1>7, <1>9, <1>10 DEF pairs

LEMMA SpellsCarries ==
  ASSUME NEW m, NEW script, Spells(m, script), NEW i \in 1 .. Len(script), NEW code, NEW data,
         script[i][1] = code, script[i][2] = data, \A j \in 1 .. i - 1 : script[j][1] # code
  PROVE  Carries(m.avps, i, code, data)
  <1>1. Len(m.avps) = Len(script) /\ Len(script) \in Nat
    BY LenProperties DEF Spells
  <1>2. \A j \in 1 .. i - 1 : j \in 1 .. Len(script)
    BY <1>1
  <1>3. \A j \in 1 .. Len(script) :
          m.avps[j].code = script[j][1] /\ m.avps[j].vendor = 0 /\ m.avps[j].data = script[j][2]
    BY DEF Spells
  <1> QED
    BY <1>1, <1>2, <1>3 DEF Carries

(************************ The three requests *****************************)

\* What every message begins with.
Own(session, id) ==
  <<<<Session_Id, session>>, <<Origin_Host, id.host>>, <<Origin_Realm, id.realm>>>>

LEMMA OwnIs ==
  ASSUME NEW m, m.code \in Nat, m.flags \in Nat, m.app \in Nat, m.hopbyhop \in Nat,
         m.endtoend \in Nat, NEW session \in AnyData, NEW id,
         id.host \in AnyData, id.realm \in AnyData,
         m = [code |-> m.code, flags |-> m.flags, app |-> m.app, hopbyhop |-> m.hopbyhop,
              endtoend |-> m.endtoend, avps |-> OwnAVPs(session, id)]
  PROVE  Spells(m, Own(session, id))
  <1> DEFINE a == CreateAVP(Session_Id, 0, 0, session)
             b == CreateAVP(Origin_Host, 0, 0, id.host)
             c == CreateAVP(Origin_Realm, 0, 0, id.realm)
             script == Own(session, id)
             avps == <<a, b, c>>
  <1> DEFINE host == id.host
             realm == id.realm
  <1>0. /\ Session_Id \in Nat /\ Origin_Host \in Nat /\ Origin_Realm \in Nat
        /\ session \in AnyData /\ host \in AnyData /\ realm \in AnyData
    BY DEF Session_Id, Origin_Host, Origin_Realm
  <1> HIDE DEF host, realm
  <1>z. \A code \in Nat, data \in AnyData :
          LET e == CreateAVP(code, 0, 0, data)
          IN e \in AnyAVP /\ e.code = code /\ e.vendor = 0 /\ e.data = data
    <2> SUFFICES ASSUME NEW code \in Nat, NEW data \in AnyData
                 PROVE  LET e == CreateAVP(code, 0, 0, data)
                        IN e \in AnyAVP /\ e.code = code /\ e.vendor = 0 /\ e.data = data
      OBVIOUS
    <2>1. 0 \in Nat
      OBVIOUS
    <2> QED
      BY ONLY code \in Nat, data \in AnyData, <2>1, CreateIs
  <1>a. a \in AnyAVP /\ a.code = Session_Id /\ a.vendor = 0 /\ a.data = session
    BY ONLY <1>0, <1>z DEF a
  <1>b. b \in AnyAVP /\ b.code = Origin_Host /\ b.vendor = 0 /\ b.data = host
    BY ONLY <1>0, <1>z DEF b, host
  <1>c. c \in AnyAVP /\ c.code = Origin_Realm /\ c.vendor = 0 /\ c.data = realm
    BY ONLY <1>0, <1>z DEF c, realm
  <1> USE DEF host, realm
  <1>1. /\ a \in AnyAVP /\ a.code = Session_Id /\ a.vendor = 0 /\ a.data = session
        /\ b \in AnyAVP /\ b.code = Origin_Host /\ b.vendor = 0 /\ b.data = id.host
        /\ c \in AnyAVP /\ c.code = Origin_Realm /\ c.vendor = 0 /\ c.data = id.realm
    BY <1>a, <1>b, <1>c
  <1> HIDE DEF a, b, c
  <1>2. avps \in Seq(AnyAVP) /\ Len(avps) = 3 /\ avps[1] = a /\ avps[2] = b /\ avps[3] = c
    BY <1>1
  <1>3. /\ <<Session_Id, session>> \in Item /\ <<Origin_Host, id.host>> \in Item
        /\ <<Origin_Realm, id.realm>> \in Item
    BY DEF Item, Session_Id, Origin_Host, Origin_Realm
  <1> HIDE DEF Item
  <1>4. /\ script \in Seq(Item) /\ Len(script) = 3 /\ script[1] = <<Session_Id, session>>
        /\ script[2] = <<Origin_Host, id.host>> /\ script[3] = <<Origin_Realm, id.realm>>
    BY <1>3 DEF Own
  <1>5. m.avps = avps
    BY DEF OwnAVPs, a, b, c
  <1> HIDE DEF avps, script
  <1>6. avps \in AnyAVPs
    <2>1. Len(avps) # 0
      BY <1>2
    <2> QED
      BY <1>2, <2>1 DEF AnyAVPs
  <1>7. m \in AnyMessage
    BY <1>5, <1>6 DEF AnyMessage
  <1>8. ASSUME NEW i \in 1 .. 3
        PROVE  avps[i].code = script[i][1] /\ avps[i].vendor = 0 /\ avps[i].data = script[i][2]
    <2>1. i = 1 \/ i = 2 \/ i = 3
      OBVIOUS
    <2> QED
      BY <1>1, <1>2, <1>4, <2>1
  <1> QED
    BY <1>2, <1>4, <1>5, <1>7, <1>8 DEF Spells, script

LEMMA AddVendorSpells ==
  ASSUME NEW m, NEW script, Spells(m, script), NEW vendor \in Nat, NEW auth \in Nat
  PROVE  \E data \in AnyData :
           /\ Spells(AddVendorSpecificAppId(m, vendor, auth),
                     script \o <<<<Vendor_Specific_Application_Id, data>>>>)
           /\ AddVendorSpecificAppId(m, vendor, auth).app = m.app
  <1> DEFINE a == CreateAVP(Vendor_Id, Mandatory, 0, Integer32(vendor))
             b == CreateAVP(Auth_Application_Id, Mandatory, 0, Integer32(auth))
             avps == <<a, b>>
             group == GroupAVPS(avps)
             data == [len |-> 4 * Len(group), words |-> group]
  <1>1. a \in AnyAVP /\ b \in AnyAVP
    <2>1. Integer32(vendor) \in AnyData /\ Integer32(auth) \in AnyData
      BY IntegerIs
    <2> QED
      BY <2>1, CreateIs DEF Vendor_Id, Auth_Application_Id, Mandatory
  <1>2. AddVendorSpecificAppId(m, vendor, auth) = AddAVP(m, Vendor_Specific_Application_Id, data)
    BY DEF AddVendorSpecificAppId
  <1> HIDE DEF a, b
  <1>3. avps \in Seq(AnyAVP) /\ Len(avps) = 2 /\ avps[1] = a
    BY <1>1
  <1> HIDE DEF avps
  <1>4. group \in Seq(AnyWord)
    BY <1>3, GroupedIs
  <1>p. avps \in Seq(AnyAVP) /\ Len(avps) # 0
    BY <1>3
  <1>q. \E ends : Placed(group, avps, ends)
    BY ONLY <1>p, GroupedIs DEF group
  <1> HIDE DEF group
  <1>5. PICK ends : Placed(group, avps, ends)
    BY <1>q
  <1>6. StandsAt(group, ends[1], a) /\ ends[1] = 0
    BY <1>3, <1>5 DEF Placed
  <1>7. Header(a.flags) \in {2, 3} /\ Padded(a.data.len) \in Nat
    BY <1>1, AvpIs
  <1>8. Len(group) \in Nat /\ Len(group) # 0
    BY <1>4, <1>6, <1>7, LenProperties DEF StandsAt, Size
  <1>9. data \in AnyData
    <2>1. Padded(4 * Len(group)) = Len(group)
      BY <1>8 DEF Padded
    <2>2. 4 * Len(group) \in Nat \ {0}
      BY <1>8
    <2>3. data \in [len : Nat \ {0}, words : Seq(AnyWord)] /\ data.len = 4 * Len(group) /\ data.words = group
      BY <1>4, <2>2
    <2> QED
      BY <2>1, <2>3 DEF AnyData
  <1> HIDE DEF data
  <1>10. Vendor_Specific_Application_Id \in Nat
    BY DEF Vendor_Specific_Application_Id
  <1> QED
    BY <1>2, <1>9, <1>10, AddOneSpells

\* Its i-th AVP is the first of its code.
Leads(script, i, code) ==
  i \in 1 .. Len(script) /\ \A j \in 1 .. i - 1 : script[j][1] # code

\* The AVP behind the i-th begins with a byte of zero: its code is below 2^24.
ZeroFollows(script, i) == i + 1 \in 1 .. Len(script) /\ Word(script[i + 1][1]).hi = 0

\* Data, a number or a name that a message spells is what its receiver finds.
LEMMA SpelledData ==
  ASSUME NEW m, NEW script, Spells(m, script), NEW i, NEW code, NEW data,
         script[i] = <<code, data>>, Leads(script, i, code)
  PROVE  /\ Has(Got(m).avps, code, 0) /\ FindAVP(Got(m).avps, code, 0).data = data
         /\ data \in AnyData
  <1>1. Carries(m.avps, i, code, data)
    BY SpellsCarries DEF Leads
  <1>2. m \in AnyMessage
    BY DEF Spells
  <1> QED
    BY <1>1, <1>2, HearsData

LEMMA SpelledInteger ==
  ASSUME NEW m, NEW script, Spells(m, script), NEW i, NEW code, NEW n \in Nat,
         script[i] = <<code, Integer32(n)>>, Leads(script, i, code)
  PROVE  Has(Got(m).avps, code, 0) /\ IntegerOf(Got(m), code) = n
  <1> DEFINE data == Integer32(n)
  <1>1. script[i] = <<code, data>>
    OBVIOUS
  <1> HIDE DEF data
  <1>2. Carries(m.avps, i, code, data)
    BY <1>1, SpellsCarries DEF Leads
  <1>3. m \in AnyMessage
    BY DEF Spells
  <1> QED
    BY <1>2, <1>3, HearsInteger DEF data

LEMMA SpelledString ==
  ASSUME NEW m, NEW script, Spells(m, script), NEW i, NEW code, NEW user \in AnyName,
         script[i] = <<code, Text(user)>>, Leads(script, i, code),
         ZeroFollows(script, i)
  PROVE  Has(Got(m).avps, code, 0) /\ StringOf(Got(m), code) = user
  <1> DEFINE data == Text(user)
  <1>1. script[i] = <<code, data>>
    OBVIOUS
  <1> HIDE DEF data
  <1>2. Carries(m.avps, i, code, data)
    BY <1>1, SpellsCarries DEF Leads
  <1>3. m \in AnyMessage /\ Len(m.avps) = Len(script) /\ m.avps[i + 1].code = script[i + 1][1]
    BY DEF Spells, ZeroFollows
  <1>4. i + 1 \in 1 .. Len(m.avps) /\ Word(m.avps[i + 1].code).hi = 0
    BY <1>3 DEF ZeroFollows
  <1> QED
    BY <1>2, <1>3, <1>4, HearsString DEF data

LEMMA PairIs ==
  ASSUME NEW code \in Nat, NEW data \in AnyData
  PROVE  <<code, data>> \in Item /\ <<code, data>>[1] = code
  BY DEF Item

LEMMA NumberOf ==
  ASSUME NEW type \in {"START", "INTERIM", "STOP"}
  PROVE  /\ Number(CtfTypes, type) \in Nat /\ CtfTypes[Number(CtfTypes, type)] = type
         /\ Number(CdfTypes, type) \in Nat /\ CdfTypes[Number(CdfTypes, type)] = type
  <1>1. Number(CtfTypes, type) \in 1 .. 4 /\ CtfTypes[Number(CtfTypes, type)] = type
    <2>1. \E n \in 1 .. 4 : CtfTypes[n] = type
      <3>1. CtfTypes[1] = "START" /\ CtfTypes[2] = "INTERIM" /\ CtfTypes[3] = "STOP"
        BY DEF CtfTypes
      <3> QED
        BY <3>1
    <2>2. DOMAIN CtfTypes = 1 .. 4
      BY DEF CtfTypes
    <2> QED
      BY <2>1, <2>2 DEF Number
  <1>2. Number(CdfTypes, type) \in 1 .. 4 /\ CdfTypes[Number(CdfTypes, type)] = type
    <2>1. \E n \in 1 .. 4 : CdfTypes[n] = type
      <3>1. CdfTypes[2] = "START" /\ CdfTypes[3] = "INTERIM" /\ CdfTypes[4] = "STOP"
        BY DEF CdfTypes
      <3> QED
        BY <3>1
    <2>2. DOMAIN CdfTypes = 1 .. 4
      BY DEF CdfTypes
    <2> QED
      BY <2>1, <2>2 DEF Number
  <1> QED
    BY <1>1, <1>2

LEMMA TextIsData ==
  ASSUME NEW user \in AnyName
  PROVE  Text(user) \in AnyData
  BY TextIs

\* What MessagesAssumption says, as these proofs use it.
LEMMA GivenData ==
  /\ Session \in AnyData
  /\ \A p \in {"CTF", "OCS", "CDF"} : Identity[p].host \in AnyData /\ Identity[p].realm \in AnyData
  /\ Subscribers \subseteq AnyName
  /\ CallIds \subseteq Nat /\ Credits \subseteq Nat /\ 0 \in Credits
  /\ Ids[1] \in Nat /\ Ids[2] \in Nat
  <1>1. Session \in AnyData
    BY MessagesAssumption, DataIs
  <1>2. \A p \in {"CTF", "OCS", "CDF"} : Identity[p].host \in AnyData /\ Identity[p].realm \in AnyData
    BY MessagesAssumption, DataIs
  <1>3. ASSUME NEW user \in Subscribers
        PROVE  user \in AnyName
    <2>1. user \in Seq(1 .. 255) /\ user # <<>>
      BY MessagesAssumption
    <2>2. Len(user) \in Nat \ {0}
      BY <2>1, EmptySeq, LenProperties
    <2> QED
      BY <2>1, <2>2 DEF AnyName
  <1>4. \A n \in CallIds \cup Credits : n \in Nat
    BY MessagesAssumption DEF IsWord
  <1>5. Ids[1] \in Nat /\ Ids[2] \in Nat /\ 0 \in Credits
    BY MessagesAssumption DEF IsWord
  <1> QED
    BY <1>1, <1>2, <1>3, <1>4, <1>5

LEMMA SmallCode ==
  ASSUME NEW n \in Nat, n < 1000
  PROVE  Word(n).hi = 0
  BY SMT DEF Word

LEMMA RequestSpells ==
  ASSUME NEW app \in Nat, NEW code \in Nat
  PROVE  LET m == CreateRequest(app, code, Proxyable, Session, Identity.CTF, Ids)
         IN Spells(m, Own(Session, Identity.CTF)) /\ m.app = app
  <1> DEFINE m == CreateRequest(app, code, Proxyable, Session, Identity.CTF, Ids)
             id == Identity.CTF
  <1>1. /\ m.code = code /\ m.flags = 192 /\ m.app = app /\ m.hopbyhop = Ids[1]
        /\ m.endtoend = Ids[2]
        /\ m = [code |-> m.code, flags |-> m.flags, app |-> m.app, hopbyhop |-> m.hopbyhop,
                endtoend |-> m.endtoend, avps |-> OwnAVPs(Session, id)]
    BY DEF CreateRequest, RequestBit, Proxyable
  <1>2. Session \in AnyData /\ id.host \in AnyData /\ id.realm \in AnyData
    BY GivenData
  <1> HIDE DEF m, id
  <1>3. m.code \in Nat /\ m.flags \in Nat /\ m.app \in Nat /\ m.hopbyhop \in Nat /\ m.endtoend \in Nat
    BY <1>1, GivenData
  <1>4. Spells(m, Own(Session, id))
    BY ONLY <1>1, <1>2, <1>3, OwnIs
  <1> QED
    BY <1>1, <1>4 DEF m, id

\* What CreateResponse takes from a request.
Answerable(m) ==
  /\ m \in AnyMessage
  /\ FindAVP(Got(m).avps, Session_Id, 0).data \in AnyData
  /\ FindAVP(Got(m).avps, Origin_Host, 0).data \in AnyData
  /\ FindAVP(Got(m).avps, Origin_Realm, 0).data \in AnyData

LEMMA BeginsAnswerable ==
  ASSUME NEW m, NEW script, Spells(m, script), Len(script) \in Nat, Len(script) >= 3,
         NEW s, NEW h, NEW r, script[1] = <<Session_Id, s>>, script[2] = <<Origin_Host, h>>,
         script[3] = <<Origin_Realm, r>>
  PROVE  Answerable(m)
  <1>1. script[1][1] = 263 /\ script[2][1] = 264 /\ script[3][1] = 296
    BY DEF Session_Id, Origin_Host, Origin_Realm
  <1>2. FindAVP(Got(m).avps, Session_Id, 0).data \in AnyData
    <2>1. Leads(script, 1, Session_Id)
      BY DEF Leads
    <2> QED
      BY <2>1, SpelledData
  <1>3. FindAVP(Got(m).avps, Origin_Host, 0).data \in AnyData
    <2>1. Leads(script, 2, Origin_Host)
      BY <1>1 DEF Leads, Origin_Host
    <2> QED
      BY <2>1, SpelledData
  <1>4. FindAVP(Got(m).avps, Origin_Realm, 0).data \in AnyData
    <2>1. Leads(script, 3, Origin_Realm)
      <3>1. \A j \in 1 .. 3 - 1 : j = 1 \/ j = 2
        OBVIOUS
      <3> QED
        BY <1>1, <3>1 DEF Leads, Origin_Realm
    <2> QED
      BY <2>1, SpelledData
  <1> QED
    BY <1>2, <1>3, <1>4 DEF Answerable, Spells

Asks == [type : {"START", "INTERIM", "STOP"}, cid : CallIds, user : Subscribers,
         credits : Credits \X Credits \X Credits]

RoScript(a) ==
  Own(Session, Identity.CTF)
    \o (<<<<Origin_Realm, Identity.CTF.realm>>,
          <<CC_Request_Type, Integer32(Number(CtfTypes, a.type))>>,
          <<CC_Request_Number, Ten>>, <<Auth_Application_Id, Hundred>>,
          <<Service_context_Id, Hundred>>, <<Subscriber, Text(a.user)>>,
          <<Call_Record_Id, Integer32(a.cid)>>>>
        \o CreditAVPs(a.credits)
        \o <<<<Destination_Host, Identity.OCS.host>>, <<Origin_Host, Identity.CTF.host>>>>)

LEMMA DataGiven ==
  ASSUME NEW a \in Asks
  PROVE  /\ Integer32(Number(CtfTypes, a.type)) \in AnyData
         /\ Integer32(Number(CdfTypes, a.type)) \in AnyData
         /\ Integer32(a.cid) \in AnyData
         /\ Text(a.user) \in AnyData /\ Ten \in AnyData /\ Hundred \in AnyData
         /\ Integer32(a.credits[1]) \in AnyData /\ Integer32(a.credits[2]) \in AnyData
         /\ Integer32(a.credits[3]) \in AnyData
         /\ a.cid \in Nat /\ a.user \in AnyName /\ a.type \in {"START", "INTERIM", "STOP"}
         /\ a.credits[1] \in Nat /\ a.credits[2] \in Nat /\ a.credits[3] \in Nat
         /\ a.credits = <<a.credits[1], a.credits[2], a.credits[3]>>
  <1>1. /\ a.cid \in Nat /\ a.user \in AnyName /\ a.type \in {"START", "INTERIM", "STOP"}
        /\ a.credits[1] \in Nat /\ a.credits[2] \in Nat /\ a.credits[3] \in Nat
        /\ a.credits = <<a.credits[1], a.credits[2], a.credits[3]>>
    <2>1. /\ a.type \in {"START", "INTERIM", "STOP"} /\ a.cid \in CallIds
          /\ a.user \in Subscribers /\ a.credits \in Credits \X Credits \X Credits
      BY DEF Asks
    <2>2. /\ a.credits[1] \in Credits /\ a.credits[2] \in Credits /\ a.credits[3] \in Credits
          /\ a.credits = <<a.credits[1], a.credits[2], a.credits[3]>>
      BY <2>1
    <2> QED
      BY <2>1, <2>2, GivenData
  <1>2. Number(CtfTypes, a.type) \in Nat /\ Number(CdfTypes, a.type) \in Nat
    BY <1>1, NumberOf
  <1>3. \A n \in Nat : Integer32(n) \in AnyData
    BY IntegerIs
  <1>4. <<49, 48>> \in AnyName /\ <<49, 48, 48>> \in AnyName
    <2>1. <<49, 48>> \in Seq(1 .. 255) /\ Len(<<49, 48>>) = 2
      OBVIOUS
    <2>2. <<49, 48, 48>> \in Seq(1 .. 255) /\ Len(<<49, 48, 48>>) = 3
      OBVIOUS
    <2> QED
      BY <2>1, <2>2 DEF AnyName
  <1>5. Ten \in AnyData /\ Hundred \in AnyData
    BY <1>4, TextIsData DEF Ten, Hundred
  <1>6. Text(a.user) \in AnyData
    BY <1>1, TextIsData
  <1> QED
    BY <1>1, <1>2, <1>3, <1>5, <1>6

LEMMA RoShape ==
  ASSUME NEW S, NEW o1 \in S, NEW o2 \in S, NEW o3 \in S, NEW b1 \in S, NEW b2 \in S,
         NEW b3 \in S, NEW b4 \in S, NEW b5 \in S, NEW b6 \in S, NEW b7 \in S, NEW c1 \in S,
         NEW c2 \in S, NEW c3 \in S, NEW d1 \in S, NEW d2 \in S
  PROVE  LET q == <<b1, b2, b3, b4, b5, b6, b7>> \o <<c1, c2, c3>> \o <<d1, d2>>
             s == <<o1, o2, o3>> \o q
         IN /\ q \in Seq(S) /\ Len(s) = 15
            /\ s[1] = o1 /\ s[2] = o2 /\ s[3] = o3 /\ s[4] = b1 /\ s[5] = b2 /\ s[6] = b3
            /\ s[7] = b4 /\ s[8] = b5 /\ s[9] = b6 /\ s[10] = b7 /\ s[11] = c1 /\ s[12] = c2
            /\ s[13] = c3 /\ s[14] = d1 /\ s[15] = d2
  OBVIOUS

LEMMA RoCodes ==
  ASSUME NEW s, Len(s) = 15, s[1][1] = 263, s[2][1] = 264, s[3][1] = 296, s[4][1] = 296, s[5][1] = 416,
         s[6][1] = 417, s[7][1] = 258, s[8][1] = 402, s[9][1] = 424, s[10][1] = 420, s[11][1] = 421,
         s[12][1] = 422
  PROVE  /\ Leads(s, 5, 416) /\ Leads(s, 9, 424) /\ Leads(s, 10, 420) /\ Leads(s, 11, 421)
         /\ Leads(s, 12, 422) /\ Leads(s, 13, 423)
  <1>1. Leads(s, 5, 416)
    BY SMT DEF Leads
  <1>2. Leads(s, 9, 424)
    BY SMT DEF Leads
  <1>3. Leads(s, 10, 420)
    BY SMT DEF Leads
  <1>4. Leads(s, 11, 421)
    BY SMT DEF Leads
  <1>5. Leads(s, 12, 422)
    BY SMT DEF Leads
  <1>6. Leads(s, 13, 423)
    BY SMT DEF Leads
  <1> QED
    BY <1>1, <1>2, <1>3, <1>4, <1>5, <1>6

\* What the receiver of a Ro request finds in it.
LEMMA RoHeard ==
  ASSUME NEW a \in Asks
  PROVE  LET m == Ro_CCR(a)
         IN /\ Answerable(m) /\ m.app = IMS_Ro
            /\ Has(Got(m).avps, CC_Request_Type, 0)
            /\ IntegerOf(Got(m), CC_Request_Type) = Number(CtfTypes, a.type)
            /\ IntegerOf(Got(m), Call_Record_Id) = a.cid
            /\ StringOf(Got(m), Subscriber) = a.user
            /\ CreditsOf(Got(m)) = a.credits
  <1> DEFINE o1 == <<Session_Id, Session>>
             o2 == <<Origin_Host, Identity.CTF.host>>
             o3 == <<Origin_Realm, Identity.CTF.realm>>
             b1 == <<Origin_Realm, Identity.CTF.realm>>
             b2 == <<CC_Request_Type, Integer32(Number(CtfTypes, a.type))>>
             b3 == <<CC_Request_Number, Ten>>
             b4 == <<Auth_Application_Id, Hundred>>
             b5 == <<Service_context_Id, Hundred>>
             b6 == <<Subscriber, Text(a.user)>>
             b7 == <<Call_Record_Id, Integer32(a.cid)>>
             c1 == <<Credit_onceoff, Integer32(a.credits[1])>>
             c2 == <<Credit_persec, Integer32(a.credits[2])>>
             c3 == <<Credit_perMbyte, Integer32(a.credits[3])>>
             d1 == <<Destination_Host, Identity.OCS.host>>
             d2 == <<Origin_Host, Identity.CTF.host>>
             q == <<b1, b2, b3, b4, b5, b6, b7>> \o <<c1, c2, c3>> \o <<d1, d2>>
             s == <<o1, o2, o3>> \o q
             new == CreateRequest(IMS_Ro, IMS_CCR, Proxyable, Session, Identity.CTF, Ids)
             m == Ro_CCR(a)
  <1>1. Own(Session, Identity.CTF) = <<o1, o2, o3>> /\ Ro_CCR(a) = AddAVPs(new, q)
    BY DEF Own, Ro_CCR, CreditAVPs
  <1>2. Spells(new, <<o1, o2, o3>>) /\ new.app = IMS_Ro
    <2>1. IMS_Ro \in Nat /\ IMS_CCR \in Nat
      BY DEF IMS_Ro, IMS_CCR
    <2> QED
      BY <1>1, <2>1, RequestSpells
  <1>3. /\ o1 \in Item /\ o2 \in Item /\ o3 \in Item /\ b1 \in Item /\ b2 \in Item
        /\ b3 \in Item /\ b4 \in Item /\ b5 \in Item /\ b6 \in Item /\ b7 \in Item
        /\ c1 \in Item /\ c2 \in Item /\ c3 \in Item /\ d1 \in Item /\ d2 \in Item
    <2>1. /\ Session \in AnyData /\ Identity.CTF.host \in AnyData /\ Identity.CTF.realm \in AnyData
          /\ Identity.OCS.host \in AnyData
      BY GivenData
    <2>2. /\ Session_Id \in Nat /\ Origin_Host \in Nat /\ Origin_Realm \in Nat
          /\ CC_Request_Type \in Nat /\ CC_Request_Number \in Nat /\ Auth_Application_Id \in Nat
          /\ Service_context_Id \in Nat /\ Subscriber \in Nat /\ Call_Record_Id \in Nat
          /\ Credit_onceoff \in Nat /\ Credit_persec \in Nat /\ Credit_perMbyte \in Nat
          /\ Destination_Host \in Nat
      BY DEF Session_Id, Origin_Host, Origin_Realm, CC_Request_Type, CC_Request_Number,
             Auth_Application_Id, Service_context_Id, Subscriber, Call_Record_Id,
             Credit_onceoff, Credit_persec, Credit_perMbyte, Destination_Host
    <2> QED
      BY <2>1, <2>2, DataGiven, PairIs
  <1>4. /\ o1[1] = 263 /\ o2[1] = 264 /\ o3[1] = 296 /\ b1[1] = 296 /\ b2[1] = 416 /\ b3[1] = 417
        /\ b4[1] = 258 /\ b5[1] = 402 /\ b6[1] = 424 /\ b7[1] = 420 /\ c1[1] = 421 /\ c2[1] = 422
        /\ c3[1] = 423
    BY DEF Session_Id, Origin_Host, Origin_Realm, CC_Request_Type, CC_Request_Number,
           Auth_Application_Id, Service_context_Id, Subscriber, Call_Record_Id,
           Credit_onceoff, Credit_persec, Credit_perMbyte
  <1>5. /\ o1 = <<Session_Id, Session>> /\ o2 = <<Origin_Host, Identity.CTF.host>>
        /\ o3 = <<Origin_Realm, Identity.CTF.realm>>
        /\ b2 = <<416, Integer32(Number(CtfTypes, a.type))>> /\ b6 = <<424, Text(a.user)>>
        /\ b7 = <<420, Integer32(a.cid)>> /\ c1 = <<421, Integer32(a.credits[1])>>
        /\ c2 = <<422, Integer32(a.credits[2])>> /\ c3 = <<423, Integer32(a.credits[3])>>
    BY DEF CC_Request_Type, Subscriber, Call_Record_Id, Credit_onceoff, Credit_persec,
           Credit_perMbyte
  <1> HIDE DEF o1, o2, o3, b1, b2, b3, b4, b5, b6, b7, c1, c2, c3, d1, d2, new, m
  <1>6. /\ q \in Seq(Item) /\ Len(s) = 15
        /\ s[1] = o1 /\ s[2] = o2 /\ s[3] = o3 /\ s[4] = b1 /\ s[5] = b2 /\ s[6] = b3
        /\ s[7] = b4 /\ s[8] = b5 /\ s[9] = b6 /\ s[10] = b7 /\ s[11] = c1 /\ s[12] = c2
        /\ s[13] = c3 /\ s[14] = d1 /\ s[15] = d2
    BY ONLY <1>3, RoShape DEF q, s
  <1>7. Spells(m, s) /\ m.app = IMS_Ro
    BY <1>1, <1>2, <1>6, AddSpells DEF m
  <1> HIDE DEF q, s
  <1>8. Answerable(m)
    <2>1. /\ s[1] = <<Session_Id, Session>> /\ s[2] = <<Origin_Host, Identity.CTF.host>>
          /\ s[3] = <<Origin_Realm, Identity.CTF.realm>> /\ Len(s) \in Nat /\ Len(s) >= 3
      BY <1>5, <1>6
    <2> QED
      BY ONLY <1>7, <2>1, BeginsAnswerable
  <1>9. /\ Leads(s, 5, 416) /\ Leads(s, 9, 424) /\ Leads(s, 10, 420) /\ Leads(s, 11, 421)
        /\ Leads(s, 12, 422) /\ Leads(s, 13, 423)
    <2>1. /\ Len(s) = 15 /\ s[1][1] = 263 /\ s[2][1] = 264 /\ s[3][1] = 296 /\ s[4][1] = 296
          /\ s[5][1] = 416 /\ s[6][1] = 417 /\ s[7][1] = 258 /\ s[8][1] = 402 /\ s[9][1] = 424
          /\ s[10][1] = 420 /\ s[11][1] = 421 /\ s[12][1] = 422
      BY <1>4, <1>6
    <2> QED
      BY ONLY <2>1, RoCodes
  <1>10. Has(Got(m).avps, 416, 0) /\ IntegerOf(Got(m), 416) = Number(CtfTypes, a.type)
    <2> DEFINE n == Number(CtfTypes, a.type)
    <2>1. n \in Nat
      BY DataGiven, NumberOf
    <2>2. s[5] = <<416, Integer32(n)>>
      BY <1>5, <1>6
    <2> HIDE DEF n
    <2>3. Has(Got(m).avps, 416, 0) /\ IntegerOf(Got(m), 416) = n
      BY ONLY <1>7, <2>1, <2>2, <1>9, SpelledInteger
    <2> QED
      BY <2>3 DEF n
  <1>11. IntegerOf(Got(m), 420) = a.cid
    <2>1. a.cid \in Nat
      BY DataGiven
    <2>2. s[10] = <<420, Integer32(a.cid)>>
      BY <1>5, <1>6
    <2> QED
      BY ONLY <1>7, <2>1, <2>2, <1>9, SpelledInteger
  <1>12. StringOf(Got(m), 424) = a.user
    <2>1. a.user \in AnyName
      BY DataGiven
    <2>2. s[9] = <<424, Text(a.user)>>
      BY <1>5, <1>6
    <2>3. ZeroFollows(s, 9)
      <3>1. s[10][1] = 420 /\ Len(s) = 15
        BY <1>4, <1>6
      <3>2. Word(420).hi = 0
        BY SmallCode
      <3> QED
        BY ONLY <3>1, <3>2 DEF ZeroFollows
    <2> QED
      BY ONLY <1>7, <2>1, <2>2, <1>9, <2>3, SpelledString
  <1>13. IntegerOf(Got(m), 421) = a.credits[1]
    <2>1. a.credits[1] \in Nat
      BY DataGiven
    <2>2. s[11] = <<421, Integer32(a.credits[1])>>
      BY <1>5, <1>6
    <2> QED
      BY ONLY <1>7, <2>1, <2>2, <1>9, SpelledInteger
  <1>14. IntegerOf(Got(m), 422) = a.credits[2]
    <2>1. a.credits[2] \in Nat
      BY DataGiven
    <2>2. s[12] = <<422, Integer32(a.credits[2])>>
      BY <1>5, <1>6
    <2> QED
      BY ONLY <1>7, <2>1, <2>2, <1>9, SpelledInteger
  <1>15. IntegerOf(Got(m), 423) = a.credits[3]
    <2>1. a.credits[3] \in Nat
      BY DataGiven
    <2>2. s[13] = <<423, Integer32(a.credits[3])>>
      BY <1>5, <1>6
    <2> QED
      BY ONLY <1>7, <2>1, <2>2, <1>9, SpelledInteger
  <1>16. CreditsOf(Got(m)) = a.credits
    BY <1>13, <1>14, <1>15, DataGiven
       DEF CreditsOf, Credit_onceoff, Credit_persec, Credit_perMbyte
  <1> QED
    BY <1>7, <1>8, <1>10, <1>11, <1>12, <1>16 DEF m, CC_Request_Type, Call_Record_Id, Subscriber

LEMMA ClientShape ==
  ASSUME NEW S, NEW o1 \in S, NEW o2 \in S, NEW o3 \in S, NEW b1 \in S, NEW b2 \in S,
         NEW b3 \in S, NEW b4 \in S
  PROVE  LET q == <<b1, b2, b3, b4>>
             s == <<o1, o2, o3>> \o q
         IN /\ q \in Seq(S) /\ Len(s) = 7 /\ s[1] = o1 /\ s[2] = o2 /\ s[3] = o3
            /\ s[4] = b1 /\ s[5] = b2 /\ s[6] = b3 /\ s[7] = b4
  OBVIOUS

\* What the CDF finds in a request of a client of its own.
LEMMA ClientHeard ==
  ASSUME NEW a \in Asks
  PROVE  LET m == ClientACR(a)
         IN /\ Answerable(m) /\ m.app = CdfRf
            /\ Has(Got(m).avps, Accounting_Record_Type, 0)
            /\ IntegerOf(Got(m), Accounting_Record_Type) = Number(CdfTypes, a.type)
            /\ IntegerOf(Got(m), Accounting_Record_Number) = a.cid
            /\ StringOf(Got(m), User_Name) = a.user
  <1> DEFINE o1 == <<Session_Id, Session>>
             o2 == <<Origin_Host, Identity.CTF.host>>
             o3 == <<Origin_Realm, Identity.CTF.realm>>
             b1 == <<Accounting_Record_Type, Integer32(Number(CdfTypes, a.type))>>
             b2 == <<Accounting_Record_Number, Integer32(a.cid)>>
             b3 == <<User_Name, Text(a.user)>>
             b4 == <<Destination_Host, Identity.CDF.host>>
             q == <<b1, b2, b3, b4>>
             s == <<o1, o2, o3>> \o q
             new == CreateRequest(CdfRf, IMS_ACR, Proxyable, Session, Identity.CTF, Ids)
             m == ClientACR(a)
  <1>1. Own(Session, Identity.CTF) = <<o1, o2, o3>> /\ ClientACR(a) = AddAVPs(new, q)
    BY DEF Own, ClientACR
  <1>2. Spells(new, <<o1, o2, o3>>) /\ new.app = CdfRf
    <2>1. CdfRf \in Nat /\ IMS_ACR \in Nat
      BY DEF CdfRf, IMS_ACR
    <2> QED
      BY <1>1, <2>1, RequestSpells
  <1>3. /\ o1 \in Item /\ o2 \in Item /\ o3 \in Item /\ b1 \in Item /\ b2 \in Item
        /\ b3 \in Item /\ b4 \in Item
    <2>1. /\ Session \in AnyData /\ Identity.CTF.host \in AnyData /\ Identity.CTF.realm \in AnyData
          /\ Identity.CDF.host \in AnyData
      BY GivenData
    <2>2. /\ Session_Id \in Nat /\ Origin_Host \in Nat /\ Origin_Realm \in Nat
          /\ Accounting_Record_Type \in Nat /\ Accounting_Record_Number \in Nat
          /\ User_Name \in Nat /\ Destination_Host \in Nat
      BY DEF Session_Id, Origin_Host, Origin_Realm, Accounting_Record_Type,
             Accounting_Record_Number, User_Name, Destination_Host
    <2> QED
      BY <2>1, <2>2, DataGiven, PairIs
  <1>4. /\ o1[1] = 263 /\ o2[1] = 264 /\ o3[1] = 296 /\ b1[1] = 480 /\ b2[1] = 485 /\ b3[1] = 1
        /\ b4[1] = 293
    BY DEF Session_Id, Origin_Host, Origin_Realm, Accounting_Record_Type,
           Accounting_Record_Number, User_Name, Destination_Host
  <1>5. /\ o1 = <<Session_Id, Session>> /\ o2 = <<Origin_Host, Identity.CTF.host>>
        /\ o3 = <<Origin_Realm, Identity.CTF.realm>>
        /\ b1 = <<480, Integer32(Number(CdfTypes, a.type))>>
        /\ b2 = <<485, Integer32(a.cid)>> /\ b3 = <<1, Text(a.user)>>
    BY DEF Accounting_Record_Type, Accounting_Record_Number, User_Name
  <1> HIDE DEF o1, o2, o3, b1, b2, b3, b4, new, m
  <1>6. /\ q \in Seq(Item) /\ Len(s) = 7 /\ s[1] = o1 /\ s[2] = o2 /\ s[3] = o3
        /\ s[4] = b1 /\ s[5] = b2 /\ s[6] = b3 /\ s[7] = b4
    BY ONLY <1>3, ClientShape DEF q, s
  <1>7. Spells(m, s) /\ m.app = CdfRf
    BY <1>1, <1>2, <1>6, AddSpells DEF m
  <1> HIDE DEF q, s
  <1>8. Answerable(m)
    <2>1. /\ s[1] = <<Session_Id, Session>> /\ s[2] = <<Origin_Host, Identity.CTF.host>>
          /\ s[3] = <<Origin_Realm, Identity.CTF.realm>> /\ Len(s) \in Nat /\ Len(s) >= 3
      BY <1>5, <1>6
    <2> QED
      BY ONLY <1>7, <2>1, BeginsAnswerable
  <1>9. Leads(s, 4, 480) /\ Leads(s, 5, 485) /\ Leads(s, 6, 1)
    <2>1. /\ Len(s) = 7 /\ s[1][1] = 263 /\ s[2][1] = 264 /\ s[3][1] = 296 /\ s[4][1] = 480
          /\ s[5][1] = 485
      BY <1>4, <1>6
    <2>2. Leads(s, 4, 480)
      BY ONLY <2>1, SMT DEF Leads
    <2>3. Leads(s, 5, 485)
      BY ONLY <2>1, SMT DEF Leads
    <2>4. Leads(s, 6, 1)
      BY ONLY <2>1, SMT DEF Leads
    <2> QED
      BY <2>2, <2>3, <2>4
  <1>10. Has(Got(m).avps, 480, 0) /\ IntegerOf(Got(m), 480) = Number(CdfTypes, a.type)
    <2> DEFINE n == Number(CdfTypes, a.type)
    <2>1. n \in Nat
      BY DataGiven, NumberOf
    <2>2. s[4] = <<480, Integer32(n)>>
      BY <1>5, <1>6
    <2> HIDE DEF n
    <2>3. Has(Got(m).avps, 480, 0) /\ IntegerOf(Got(m), 480) = n
      BY ONLY <1>7, <2>1, <2>2, <1>9, SpelledInteger
    <2> QED
      BY <2>3 DEF n
  <1>11. IntegerOf(Got(m), 485) = a.cid
    <2>1. a.cid \in Nat
      BY DataGiven
    <2>2. s[5] = <<485, Integer32(a.cid)>>
      BY <1>5, <1>6
    <2> QED
      BY ONLY <1>7, <2>1, <2>2, <1>9, SpelledInteger
  <1>12. StringOf(Got(m), 1) = a.user
    <2>1. a.user \in AnyName
      BY DataGiven
    <2>2. s[6] = <<1, Text(a.user)>>
      BY <1>5, <1>6
    <2>3. ZeroFollows(s, 6)
      <3>1. s[7][1] = 293 /\ Len(s) = 7
        BY <1>4, <1>6
      <3>2. Word(293).hi = 0
        BY SmallCode
      <3> QED
        BY ONLY <3>1, <3>2 DEF ZeroFollows
    <2> QED
      BY ONLY <1>7, <2>1, <2>2, <1>9, <2>3, SpelledString
  <1> QED
    BY <1>7, <1>8, <1>10, <1>11, <1>12
       DEF m, Accounting_Record_Type, Accounting_Record_Number, User_Name

LEMMA RfShape ==
  ASSUME NEW S, NEW o1 \in S, NEW o2 \in S, NEW o3 \in S, NEW v \in S, NEW b1 \in S, NEW b2 \in S,
         NEW b3 \in S, NEW b4 \in S, NEW b5 \in S, NEW b6 \in S, NEW c1 \in S,
         NEW c2 \in S, NEW c3 \in S, NEW d1 \in S, NEW d2 \in S
  PROVE  LET q == <<b1, b2, b3, b4, b5, b6>> \o <<c1, c2, c3>> \o <<d1, d2>>
             s == (<<o1, o2, o3>> \o <<v>>) \o q
         IN /\ q \in Seq(S) /\ Len(s) = 15 /\ s[1] = o1 /\ s[2] = o2 /\ s[3] = o3
  OBVIOUS

\* The CDF of the repository does not serve the application of the requests of its CTF.
LEMMA RfHeard ==
  ASSUME NEW a \in Asks
  PROVE  LET m == Rf_ACR(a)
         IN Answerable(m) /\ m.app = CtfRf
  <1> DEFINE o1 == <<Session_Id, Session>>
             o2 == <<Origin_Host, Identity.CTF.host>>
             o3 == <<Origin_Realm, Identity.CTF.realm>>
             b1 == <<Origin_Realm, Identity.CTF.realm>>
             b2 == <<Origin_Host, Identity.CDF.realm>>
             b3 == <<Accounting_Record_Type, Integer32(Number(CtfTypes, a.type))>>
             b4 == <<Accounting_Record_Number, Ten>>
             b5 == <<Call_Record_Id, Integer32(a.cid)>>
             b6 == <<Subscriber, Text(a.user)>>
             c1 == <<Credit_onceoff, Integer32(a.credits[1])>>
             c2 == <<Credit_persec, Integer32(a.credits[2])>>
             c3 == <<Credit_perMbyte, Integer32(a.credits[3])>>
             d1 == <<Destination_Host, Identity.CDF.host>>
             d2 == <<Origin_Host, Identity.CTF.host>>
             q == <<b1, b2, b3, b4, b5, b6>> \o <<c1, c2, c3>> \o <<d1, d2>>
             new == CreateRequest(CtfRf, IMS_ACR, Proxyable, Session, Identity.CTF, Ids)
             more == AddVendorSpecificAppId(new, IMS_vendor_id_3GPP, CtfRf)
             m == Rf_ACR(a)
  <1>1. Own(Session, Identity.CTF) = <<o1, o2, o3>> /\ Rf_ACR(a) = AddAVPs(more, q)
    BY DEF Own, Rf_ACR, CreditAVPs
  <1>2. Spells(new, <<o1, o2, o3>>) /\ new.app = CtfRf
    <2>1. CtfRf \in Nat /\ IMS_ACR \in Nat
      BY DEF CtfRf, IMS_ACR
    <2> QED
      BY <1>1, <2>1, RequestSpells
  <1>3. /\ o1 \in Item /\ o2 \in Item /\ o3 \in Item /\ b1 \in Item /\ b2 \in Item
        /\ b3 \in Item /\ b4 \in Item /\ b5 \in Item /\ b6 \in Item
        /\ c1 \in Item /\ c2 \in Item /\ c3 \in Item /\ d1 \in Item /\ d2 \in Item
    <2>1. /\ Session \in AnyData /\ Identity.CTF.host \in AnyData /\ Identity.CTF.realm \in AnyData
          /\ Identity.CDF.host \in AnyData /\ Identity.CDF.realm \in AnyData
      BY GivenData
    <2>2. /\ Session_Id \in Nat /\ Origin_Host \in Nat /\ Origin_Realm \in Nat
          /\ Accounting_Record_Type \in Nat /\ Accounting_Record_Number \in Nat
          /\ Subscriber \in Nat /\ Call_Record_Id \in Nat
          /\ Credit_onceoff \in Nat /\ Credit_persec \in Nat /\ Credit_perMbyte \in Nat
          /\ Destination_Host \in Nat
      BY DEF Session_Id, Origin_Host, Origin_Realm, Accounting_Record_Type,
             Accounting_Record_Number, Subscriber, Call_Record_Id,
             Credit_onceoff, Credit_persec, Credit_perMbyte, Destination_Host
    <2> QED
      BY <2>1, <2>2, DataGiven, PairIs
  <1>4. /\ o1 = <<Session_Id, Session>> /\ o2 = <<Origin_Host, Identity.CTF.host>>
        /\ o3 = <<Origin_Realm, Identity.CTF.realm>>
    OBVIOUS
  <1> HIDE DEF o1, o2, o3, b1, b2, b3, b4, b5, b6, c1, c2, c3, d1, d2, new, more, m
  <1>5. PICK data \in AnyData :
          Spells(more, <<o1, o2, o3>> \o <<<<Vendor_Specific_Application_Id, data>>>>)
          /\ more.app = new.app
    <2>1. IMS_vendor_id_3GPP \in Nat /\ CtfRf \in Nat
      BY DEF IMS_vendor_id_3GPP, CtfRf
    <2> QED
      BY <1>2, <2>1, AddVendorSpells DEF more
  <1> DEFINE v == <<Vendor_Specific_Application_Id, data>>
             s == (<<o1, o2, o3>> \o <<v>>) \o q
  <1>6. v \in Item
    BY PairIs DEF Vendor_Specific_Application_Id
  <1>7. Spells(more, <<o1, o2, o3>> \o <<v>>)
    BY <1>5
  <1> HIDE DEF v
  <1>8. q \in Seq(Item) /\ Len(s) = 15 /\ s[1] = o1 /\ s[2] = o2 /\ s[3] = o3
    BY ONLY <1>3, <1>6, RfShape DEF q, s
  <1>9. Spells(m, s) /\ m.app = CtfRf
    BY <1>1, <1>2, <1>5, <1>7, <1>8, AddSpells DEF m
  <1> HIDE DEF q, s
  <1>10. Answerable(m)
    <2>1. /\ s[1] = <<Session_Id, Session>> /\ s[2] = <<Origin_Host, Identity.CTF.host>>
          /\ s[3] = <<Origin_Realm, Identity.CTF.realm>> /\ Len(s) \in Nat /\ Len(s) >= 3
      BY <1>4, <1>8
    <2> QED
      BY ONLY <1>9, <2>1, BeginsAnswerable
  <1> QED
    BY <1>9, <1>10 DEF m

(************************ The answers ************************************)

LEMMA ResponseSpells ==
  ASSUME NEW r, Answerable(r), NEW p \in {"CTF", "OCS", "CDF"}
  PROVE  \E session \in AnyData, h \in AnyData, l \in AnyData :
           LET m == CreateResponse(Got(r), Identity[p])
           IN /\ Spells(m, Own(session, Identity[p])
                            \o <<<<Destination_Host, h>>, <<Destination_Realm, l>>>>)
              /\ m.app = r.app
  <1> DEFINE of(code) == FindAVP(Got(r).avps, code, 0).data
             session == of(Session_Id)
             h == of(Origin_Host)
             l == of(Origin_Realm)
             id == Identity[p]
             flags == IF (Got(r).flags \div Proxyable) % 2 = 1 THEN Proxyable ELSE 0
             x == CreateAVP(Destination_Host, Mandatory, 0, h)
             y == CreateAVP(Destination_Realm, Mandatory, 0, l)
             own == OwnAVPs(session, id)
             m0 == [code |-> r.code, flags |-> flags, app |-> r.app, hopbyhop |-> r.hopbyhop,
                    endtoend |-> r.endtoend, avps |-> own]
             m == CreateResponse(Got(r), id)
             avps == <<x, y>>
             d1 == <<Destination_Host, h>>
             d2 == <<Destination_Realm, l>>
             pairs == <<d1, d2>>
  <1>1. session \in AnyData /\ h \in AnyData /\ l \in AnyData /\ r \in AnyMessage
    BY DEF Answerable
  <1>2. id.host \in AnyData /\ id.realm \in AnyData
    BY GivenData
  <1>3. flags \in Nat
    BY DEF Proxyable
  <1>4. m = [m0 EXCEPT !.avps = @ \o avps]
    <2>1. m = [code |-> Got(r).code, app |-> Got(r).app, flags |-> flags,
               hopbyhop |-> Got(r).hopbyhop, endtoend |-> Got(r).endtoend,
               avps |-> own \o avps]
      BY DEF CreateResponse
    <2> DEFINE all == own \o avps
    <2>2. [m0 EXCEPT !.avps = @ \o avps] =
            [code |-> r.code, app |-> r.app, flags |-> flags,
             hopbyhop |-> r.hopbyhop, endtoend |-> r.endtoend, avps |-> all]
      <3>1. m0.avps = own
        OBVIOUS
      <3>2. m0.avps \o avps = all
        BY <3>1
      <3> HIDE DEF all, avps
      <3>3. [m0 EXCEPT !.avps = all] =
              [code |-> r.code, app |-> r.app, flags |-> flags,
               hopbyhop |-> r.hopbyhop, endtoend |-> r.endtoend, avps |-> all]
        BY ONLY DEF m0
      <3> HIDE DEF m0, own
      <3> QED
        BY <3>2, <3>3
    <2>3. m = [code |-> Got(r).code, app |-> Got(r).app, flags |-> flags,
               hopbyhop |-> Got(r).hopbyhop, endtoend |-> Got(r).endtoend, avps |-> all]
      BY <2>1
    <2> HIDE DEF all, m, m0, avps
    <2> QED
      BY <1>1, <2>2, <2>3, HearsHeader
  <1>5. /\ Destination_Host \in Nat /\ Destination_Realm \in Nat /\ Mandatory \in Nat
    BY DEF Destination_Host, Destination_Realm, Mandatory
  <1> HIDE DEF session, h, l, id, flags
  <1>6. x \in AnyAVP /\ x.code = Destination_Host /\ x.vendor = 0 /\ x.data = h
    BY ONLY <1>1, <1>5, CreateIs DEF x
  <1>7. y \in AnyAVP /\ y.code = Destination_Realm /\ y.vendor = 0 /\ y.data = l
    BY ONLY <1>1, <1>5, CreateIs DEF y
  <1>8. Spells(m0, Own(session, id)) /\ m0.app = r.app
    <2>1. /\ r.code \in Nat /\ r.app \in Nat /\ r.hopbyhop \in Nat /\ r.endtoend \in Nat
      BY <1>1 DEF AnyMessage
    <2>2. /\ m0.code \in Nat /\ m0.flags \in Nat /\ m0.app \in Nat /\ m0.hopbyhop \in Nat
          /\ m0.endtoend \in Nat
          /\ m0 = [code |-> m0.code, flags |-> m0.flags, app |-> m0.app,
                   hopbyhop |-> m0.hopbyhop, endtoend |-> m0.endtoend,
                   avps |-> OwnAVPs(session, id)]
      BY <2>1, <1>3
    <2>3. m0.app = r.app
      OBVIOUS
    <2> HIDE DEF m0
    <2>4. Spells(m0, Own(session, id))
      BY ONLY <1>1, <1>2, <2>2, OwnIs
    <2> QED
      BY <2>3, <2>4
  <1>9. m0 \in AnyMessage
    BY <1>8 DEF Spells
  <1>10. d1 \in Item /\ d2 \in Item /\ d1[1] = Destination_Host /\ d1[2] = h
         /\ d2[1] = Destination_Realm /\ d2[2] = l
    BY <1>1, <1>5, PairIs
  <1> HIDE DEF x, y, m0, m, d1, d2
  <1>11. avps \in Seq(AnyAVP) /\ Len(avps) = 2 /\ avps[1] = x /\ avps[2] = y
    BY <1>6, <1>7
  <1>12. pairs \in Seq(Item) /\ Len(pairs) = 2 /\ pairs[1] = d1 /\ pairs[2] = d2
    BY <1>10
  <1> HIDE DEF avps, pairs
  <1>13. Len(avps) = Len(pairs)
         /\ \A i \in 1 .. Len(pairs) :
              avps[i].code = pairs[i][1] /\ avps[i].vendor = 0 /\ avps[i].data = pairs[i][2]
    <2>1. ASSUME NEW i \in 1 .. Len(pairs)
          PROVE  avps[i].code = pairs[i][1] /\ avps[i].vendor = 0 /\ avps[i].data = pairs[i][2]
      <3>1. i = 1 \/ i = 2
        BY <1>12
      <3> QED
        BY <1>6, <1>7, <1>10, <1>11, <1>12, <3>1
    <2> QED
      BY <1>11, <1>12, <2>1
  <1>14. Spells([m0 EXCEPT !.avps = @ \o avps], Own(session, id) \o pairs)
    BY ONLY <1>8, <1>11, <1>12, <1>13, SpellsMore
  <1>15. [m0 EXCEPT !.avps = @ \o avps].app = m0.app
    BY <1>9 DEF AnyMessage
  <1>16. Spells(m, Own(session, id) \o pairs) /\ m.app = r.app
    BY <1>4, <1>8, <1>14, <1>15
  <1>17. pairs = <<<<Destination_Host, h>>, <<Destination_Realm, l>>>>
    BY DEF pairs, d1, d2
  <1> QED
    BY <1>1, <1>16, <1>17 DEF m, id

LEMMA UnknownAnswered ==
  ASSUME NEW r, Answerable(r)
  PROVE  AddAVP(CreateResponse(Got(r), Identity.CDF), Result_Code, Integer32(UNABLE_TO_COMPLY))
           \in AnyMessage
  <1> DEFINE m == CreateResponse(Got(r), Identity["CDF"])
  <1>1. \E script : Spells(m, script)
    BY ResponseSpells
  <1> HIDE DEF m
  <1>2. PICK script : Spells(m, script)
    BY <1>1
  <1>3. Result_Code \in Nat /\ Integer32(UNABLE_TO_COMPLY) \in AnyData
    BY IntegerIs DEF Result_Code, UNABLE_TO_COMPLY
  <1>4. AddAVP(m, Result_Code, Integer32(UNABLE_TO_COMPLY)) \in AnyMessage
    BY <1>2, <1>3, AddOneSpells DEF Spells
  <1> QED
    BY <1>4 DEF m

AnyGrant == [result : BOOLEAN, credits : Credits \X Credits \X Credits]

LEMMA GrantGiven ==
  ASSUME NEW g \in AnyGrant
  PROVE  /\ Integer32(g.credits[1]) \in AnyData /\ Integer32(g.credits[2]) \in AnyData
         /\ Integer32(g.credits[3]) \in AnyData
         /\ g.credits[1] \in Nat /\ g.credits[2] \in Nat /\ g.credits[3] \in Nat
         /\ g.credits = <<g.credits[1], g.credits[2], g.credits[3]>> /\ g.result \in BOOLEAN
  <1>1. g.credits \in Credits \X Credits \X Credits /\ g.result \in BOOLEAN
    BY DEF AnyGrant
  <1>2. /\ g.credits[1] \in Credits /\ g.credits[2] \in Credits /\ g.credits[3] \in Credits
        /\ g.credits = <<g.credits[1], g.credits[2], g.credits[3]>>
    BY <1>1
  <1> QED
    BY <1>1, <1>2, GivenData, IntegerIs

LEMMA AnswerShape ==
  ASSUME NEW S, NEW o1 \in S, NEW o2 \in S, NEW o3 \in S, NEW d1 \in S, NEW d2 \in S, NEW v \in S,
         NEW b1 \in S, NEW b2 \in S, NEW b3 \in S, NEW c1 \in S, NEW c2 \in S, NEW c3 \in S
  PROVE  LET q == <<b1, b2, b3>> \o <<c1, c2, c3>>
             s == ((<<o1, o2, o3>> \o <<d1, d2>>) \o <<v>>) \o q
         IN /\ q \in Seq(S) /\ Len(s) = 12
            /\ s[1] = o1 /\ s[2] = o2 /\ s[3] = o3 /\ s[4] = d1 /\ s[5] = d2 /\ s[6] = v
            /\ s[7] = b1 /\ s[8] = b2 /\ s[9] = b3 /\ s[10] = c1 /\ s[11] = c2 /\ s[12] = c3
  OBVIOUS

LEMMA AnswerCodes ==
  ASSUME NEW s, Len(s) = 12, s[1][1] = 263, s[2][1] = 264, s[3][1] = 296, s[4][1] = 293, s[5][1] = 283,
         s[6][1] = 260, s[7][1] = 268, s[8][1] = 420, s[9][1] = 424, s[10][1] = 421, s[11][1] = 422
  PROVE  /\ Leads(s, 7, 268) /\ Leads(s, 8, 420) /\ Leads(s, 9, 424) /\ Leads(s, 10, 421)
         /\ Leads(s, 11, 422) /\ Leads(s, 12, 423)
  <1>1. Leads(s, 7, 268)
    BY SMT DEF Leads
  <1>2. Leads(s, 8, 420)
    BY SMT DEF Leads
  <1>3. Leads(s, 9, 424)
    BY SMT DEF Leads
  <1>4. Leads(s, 10, 421)
    BY SMT DEF Leads
  <1>5. Leads(s, 11, 422)
    BY SMT DEF Leads
  <1>6. Leads(s, 12, 423)
    BY SMT DEF Leads
  <1> QED
    BY <1>1, <1>2, <1>3, <1>4, <1>5, <1>6

\* What the receiver of an answer finds in it.
Says(m, verdict, cid, user, credits) ==
  /\ Succeeded(Got(m)) <=> verdict = SUCCESS
  /\ IsComplete(Got(m))
  /\ IntegerOf(Got(m), Call_Record_Id) = cid
  /\ StringOf(Got(m), Subscriber) = user
  /\ CreditsOf(Got(m)) = credits

\* An answer of the shape that both servers give it.
AnswerOf(req, p, vendor, app, verdict, cid, user, g) ==
  AddAVPs(AddVendorSpecificAppId(CreateResponse(req, Identity[p]), vendor, app),
    <<<<Result_Code, Integer32(verdict)>>, <<Call_Record_Id, Integer32(cid)>>,
      <<Subscriber, Text(user)>>>> \o CreditAVPs(g.credits))

LEMMA AnswerHeard ==
  ASSUME NEW r, Answerable(r), NEW p \in {"CTF", "OCS", "CDF"}, NEW vendor \in Nat, NEW app \in Nat,
         NEW verdict \in Nat, NEW cid \in Nat, NEW user \in AnyName, NEW g \in AnyGrant
  PROVE  /\ AnswerOf(Got(r), p, vendor, app, verdict, cid, user, g) \in AnyMessage
         /\ Says(AnswerOf(Got(r), p, vendor, app, verdict, cid, user, g), verdict, cid, user, g.credits)
  <1> DEFINE id == Identity[p]
             new == CreateResponse(Got(r), id)
             more == AddVendorSpecificAppId(new, vendor, app)
             b1 == <<Result_Code, Integer32(verdict)>>
             b2 == <<Call_Record_Id, Integer32(cid)>>
             b3 == <<Subscriber, Text(user)>>
             c1 == <<Credit_onceoff, Integer32(g.credits[1])>>
             c2 == <<Credit_persec, Integer32(g.credits[2])>>
             c3 == <<Credit_perMbyte, Integer32(g.credits[3])>>
             q == <<b1, b2, b3>> \o <<c1, c2, c3>>
             m == AddAVPs(more, q)
  <1>1. PICK session \in AnyData, h \in AnyData, l \in AnyData :
          Spells(new, Own(session, id) \o <<<<Destination_Host, h>>, <<Destination_Realm, l>>>>)
    BY ResponseSpells
  <1> DEFINE o1 == <<Session_Id, session>>
             o2 == <<Origin_Host, id.host>>
             o3 == <<Origin_Realm, id.realm>>
             d1 == <<Destination_Host, h>>
             d2 == <<Destination_Realm, l>>
             early == <<o1, o2, o3>> \o <<d1, d2>>
  <1>2. Spells(new, early)
    BY <1>1 DEF Own
  <1> HIDE DEF new, early
  <1>3. PICK data \in AnyData :
          Spells(more, early \o <<<<Vendor_Specific_Application_Id, data>>>>)
    BY <1>2, AddVendorSpells
  <1> DEFINE v == <<Vendor_Specific_Application_Id, data>>
             s == (early \o <<v>>) \o q
  <1>4. /\ o1 \in Item /\ o2 \in Item /\ o3 \in Item /\ d1 \in Item /\ d2 \in Item /\ v \in Item
        /\ b1 \in Item /\ b2 \in Item /\ b3 \in Item /\ c1 \in Item /\ c2 \in Item /\ c3 \in Item
    <2>1. id.host \in AnyData /\ id.realm \in AnyData
      BY GivenData
    <2>2. /\ Session_Id \in Nat /\ Origin_Host \in Nat /\ Origin_Realm \in Nat
          /\ Destination_Host \in Nat /\ Destination_Realm \in Nat
          /\ Vendor_Specific_Application_Id \in Nat /\ Result_Code \in Nat
          /\ Subscriber \in Nat /\ Call_Record_Id \in Nat
          /\ Credit_onceoff \in Nat /\ Credit_persec \in Nat /\ Credit_perMbyte \in Nat
      BY DEF Session_Id, Origin_Host, Origin_Realm, Destination_Host, Destination_Realm,
             Vendor_Specific_Application_Id, Result_Code, Subscriber, Call_Record_Id,
             Credit_onceoff, Credit_persec, Credit_perMbyte
    <2>3. /\ Integer32(verdict) \in AnyData /\ Integer32(cid) \in AnyData /\ Text(user) \in AnyData
      BY IntegerIs, TextIsData
    <2> QED
      BY <2>1, <2>2, <2>3, GrantGiven, PairIs
  <1>5. /\ o1[1] = 263 /\ o2[1] = 264 /\ o3[1] = 296 /\ d1[1] = 293 /\ d2[1] = 283 /\ v[1] = 260
        /\ b1[1] = 268 /\ b2[1] = 420 /\ b3[1] = 424 /\ c1[1] = 421 /\ c2[1] = 422 /\ c3[1] = 423
    BY DEF Session_Id, Origin_Host, Origin_Realm, Destination_Host, Destination_Realm,
           Vendor_Specific_Application_Id, Result_Code, Subscriber, Call_Record_Id,
           Credit_onceoff, Credit_persec, Credit_perMbyte
  <1>6. /\ b1 = <<268, Integer32(verdict)>> /\ b2 = <<420, Integer32(cid)>>
        /\ b3 = <<424, Text(user)>> /\ c1 = <<421, Integer32(g.credits[1])>>
        /\ c2 = <<422, Integer32(g.credits[2])>> /\ c3 = <<423, Integer32(g.credits[3])>>
    BY DEF Result_Code, Subscriber, Call_Record_Id, Credit_onceoff, Credit_persec,
           Credit_perMbyte
  <1>7. Spells(more, early \o <<v>>)
    BY <1>3
  <1>8. m = AnswerOf(Got(r), p, vendor, app, verdict, cid, user, g)
    BY DEF AnswerOf, new, CreditAVPs
  <1> HIDE DEF o1, o2, o3, d1, d2, v, b1, b2, b3, c1, c2, c3, more
  <1>9. /\ q \in Seq(Item) /\ Len(s) = 12
        /\ s[1] = o1 /\ s[2] = o2 /\ s[3] = o3 /\ s[4] = d1 /\ s[5] = d2 /\ s[6] = v
        /\ s[7] = b1 /\ s[8] = b2 /\ s[9] = b3 /\ s[10] = c1 /\ s[11] = c2 /\ s[12] = c3
    BY ONLY <1>4, AnswerShape DEF q, s, early
  <1> HIDE DEF q
  <1>10. Spells(m, s)
    BY <1>7, <1>9, AddSpells
  <1> HIDE DEF s, m
  <1>11. /\ Leads(s, 7, 268) /\ Leads(s, 8, 420) /\ Leads(s, 9, 424) /\ Leads(s, 10, 421)
         /\ Leads(s, 11, 422) /\ Leads(s, 12, 423)
    <2>1. /\ Len(s) = 12 /\ s[1][1] = 263 /\ s[2][1] = 264 /\ s[3][1] = 296 /\ s[4][1] = 293
          /\ s[5][1] = 283 /\ s[6][1] = 260 /\ s[7][1] = 268 /\ s[8][1] = 420 /\ s[9][1] = 424
          /\ s[10][1] = 421 /\ s[11][1] = 422
      BY <1>5, <1>9
    <2> QED
      BY ONLY <2>1, AnswerCodes
  <1>12. Has(Got(m).avps, 268, 0) /\ IntegerOf(Got(m), 268) = verdict
    <2>1. s[7] = <<268, Integer32(verdict)>>
      BY <1>6, <1>9
    <2> QED
      BY ONLY <1>10, <2>1, <1>11, SpelledInteger, verdict \in Nat
  <1>13. Has(Got(m).avps, 420, 0) /\ IntegerOf(Got(m), 420) = cid
    <2>1. s[8] = <<420, Integer32(cid)>>
      BY <1>6, <1>9
    <2> QED
      BY ONLY <1>10, <2>1, <1>11, SpelledInteger, cid \in Nat
  <1>14. Has(Got(m).avps, 424, 0) /\ StringOf(Got(m), 424) = user
    <2>1. s[9] = <<424, Text(user)>>
      BY <1>6, <1>9
    <2>2. ZeroFollows(s, 9)
      <3>1. s[10][1] = 421 /\ Len(s) = 12
        BY <1>5, <1>9
      <3>2. Word(421).hi = 0
        BY SmallCode
      <3> QED
        BY ONLY <3>1, <3>2 DEF ZeroFollows
    <2> QED
      BY ONLY <1>10, <2>1, <2>2, <1>11, SpelledString, user \in AnyName
  <1>15. Has(Got(m).avps, 421, 0) /\ IntegerOf(Got(m), 421) = g.credits[1]
    <2>1. s[10] = <<421, Integer32(g.credits[1])>> /\ g.credits[1] \in Nat
      BY <1>6, <1>9, GrantGiven
    <2> QED
      BY ONLY <1>10, <2>1, <1>11, SpelledInteger
  <1>16. Has(Got(m).avps, 422, 0) /\ IntegerOf(Got(m), 422) = g.credits[2]
    <2>1. s[11] = <<422, Integer32(g.credits[2])>> /\ g.credits[2] \in Nat
      BY <1>6, <1>9, GrantGiven
    <2> QED
      BY ONLY <1>10, <2>1, <1>11, SpelledInteger
  <1>17. Has(Got(m).avps, 423, 0) /\ IntegerOf(Got(m), 423) = g.credits[3]
    <2>1. s[12] = <<423, Integer32(g.credits[3])>> /\ g.credits[3] \in Nat
      BY <1>6, <1>9, GrantGiven
    <2> QED
      BY ONLY <1>10, <2>1, <1>11, SpelledInteger
  <1>18. CreditsOf(Got(m)) = g.credits
    BY <1>15, <1>16, <1>17, GrantGiven
       DEF CreditsOf, Credit_onceoff, Credit_persec, Credit_perMbyte
  <1>19. IsComplete(Got(m))
    BY <1>13, <1>14, <1>15, <1>16, <1>17
       DEF IsComplete, Call_Record_Id, Subscriber, Credit_onceoff, Credit_persec, Credit_perMbyte
  <1>20. Succeeded(Got(m)) <=> verdict = SUCCESS
    BY <1>12 DEF Succeeded, Result_Code
  <1>21. m \in AnyMessage
    BY <1>10 DEF Spells
  <1>22. IntegerOf(Got(m), Call_Record_Id) = cid /\ StringOf(Got(m), Subscriber) = user
    BY <1>13, <1>14 DEF Call_Record_Id, Subscriber
  <1> QED
    BY <1>8, <1>18, <1>19, <1>20, <1>21, <1>22 DEF Says

(************************ The conversation *******************************)

RequestMade(service_, a) ==
  IF service_ = "Ro" THEN Ro_CCR(a) ELSE IF service_ = "Rf" THEN Rf_ACR(a) ELSE ClientACR(a)

\* What the server that serves the application hears.
HeardOf(service_, a) == [a EXCEPT !.credits = IF service_ = "Ro" THEN @ ELSE NoCredits]

\* What the CTF finds in an answer of the OCS.
Tells(m, a, g) ==
  /\ Succeeded(Got(m)) <=> g.result
  /\ IsComplete(Got(m))
  /\ IntegerOf(Got(m), Call_Record_Id) = a.cid
  /\ StringOf(Got(m), Subscriber) = a.user
  /\ CreditsOf(Got(m)) = g.credits

WireInv ==
  /\ service \in {"Ro", "Rf", "Client"}
  /\ progress \in {"ask", "asked", "heard", "handled", "answered", "done"}
  /\ ask \in Asks /\ (ask.type = "START" => ask.credits = NoCredits)
  /\ heard # Unsaid => heard = HeardOf(service, ask)
  /\ progress = "ask" => wire = Error
  /\ progress \in {"asked", "heard", "handled"} => wire = RequestMade(service, ask)
  /\ progress \in {"heard", "handled"} => service # "Rf"
  /\ progress = "handled" => grant \in AnyGrant
  /\ progress \in {"answered", "done"} =>
       /\ wire \in AnyMessage
       /\ service = "Ro" => grant \in AnyGrant /\ Tells(wire, ask, grant)
  /\ progress = "done" /\ service = "Ro" =>
       told = IF grant.result
              THEN [cid |-> ask.cid, user |-> ask.user, credits |-> grant.credits] ELSE Unsaid

LEMMA RequestIs ==
  ASSUME NEW s \in {"Ro", "Rf", "Client"}, NEW a \in Asks
  PROVE  /\ Answerable(RequestMade(s, a))
         /\ Got(RequestMade(s, a)).app =
              IF s = "Ro" THEN IMS_Ro ELSE IF s = "Rf" THEN CtfRf ELSE CdfRf
  <1> DEFINE m == RequestMade(s, a)
  <1>1. Answerable(m) /\ m.app = IF s = "Ro" THEN IMS_Ro ELSE IF s = "Rf" THEN CtfRf ELSE CdfRf
    <2>1. CASE s = "Ro"
      BY <2>1, RoHeard DEF RequestMade
    <2>2. CASE s = "Rf"
      BY <2>2, RfHeard DEF RequestMade
    <2>3. CASE s = "Client"
      BY <2>3, ClientHeard DEF RequestMade
    <2> QED
      BY <2>1, <2>2, <2>3
  <1> HIDE DEF m
  <1>2. Got(m).app = m.app
    BY <1>1, HearsHeader DEF Answerable
  <1> QED
    BY <1>1, <1>2 DEF m

LEMMA AppsDiffer == IMS_Ro # CdfRf /\ CtfRf # IMS_Ro /\ CtfRf # CdfRf
  BY SMT DEF IMS_Ro, CdfRf, CtfRf

LEMMA RoTells ==
  ASSUME NEW a \in Asks, NEW g \in AnyGrant
  PROVE  Ro_CCA(Got(Ro_CCR(a)), g) \in AnyMessage /\ Tells(Ro_CCA(Got(Ro_CCR(a)), g), a, g)
  <1> DEFINE r == Ro_CCR(a)
             verdict == IF g.result THEN SUCCESS ELSE 0
             cid == IntegerOf(Got(r), Call_Record_Id)
             user == StringOf(Got(r), Subscriber)
  <1>1. Answerable(r) /\ cid = a.cid /\ user = a.user
    BY RoHeard
  <1>2. a.cid \in Nat /\ a.user \in AnyName
    BY DataGiven
  <1>3. cid \in Nat /\ user \in AnyName
    BY <1>1, <1>2
  <1>4. verdict \in Nat /\ (verdict = SUCCESS <=> g.result)
    BY GrantGiven DEF SUCCESS
  <1>5. IMS_vendor_id_3GPP \in Nat /\ IMS_Ro \in Nat /\ "OCS" \in {"CTF", "OCS", "CDF"}
    BY DEF IMS_vendor_id_3GPP, IMS_Ro
  <1> DEFINE m == AnswerOf(Got(r), "OCS", IMS_vendor_id_3GPP, IMS_Ro, verdict, cid, user, g)
  <1>6. Ro_CCA(Got(r), g) = m
    BY DEF Ro_CCA, AnswerOf
  <1> HIDE DEF r, verdict, cid, user
  <1>7. m \in AnyMessage /\ Says(m, verdict, cid, user, g.credits)
    BY ONLY <1>1, <1>3, <1>4, <1>5, AnswerHeard, g \in AnyGrant
  <1> HIDE DEF m
  <1>8. m \in AnyMessage /\ Tells(m, a, g)
    BY <1>1, <1>4, <1>7 DEF Tells, Says
  <1> QED
    BY <1>6, <1>8 DEF r

LEMMA ClientAnswered ==
  ASSUME NEW a \in Asks, NEW g \in AnyGrant
  PROVE  Rf_ACA(Got(ClientACR(a)), g) \in AnyMessage
  <1> DEFINE r == ClientACR(a)
             cid == IntegerOf(Got(r), Accounting_Record_Number)
             user == StringOf(Got(r), User_Name)
  <1>1. Answerable(r) /\ cid = a.cid /\ user = a.user
    BY ClientHeard
  <1>2. a.cid \in Nat /\ a.user \in AnyName
    BY DataGiven
  <1>3. cid \in Nat /\ user \in AnyName
    BY <1>1, <1>2
  <1>4. SUCCESS \in Nat
    BY DEF SUCCESS
  <1>5. IMS_vendor_id_3GPP \in Nat /\ CdfRf \in Nat /\ "CDF" \in {"CTF", "OCS", "CDF"}
    BY DEF IMS_vendor_id_3GPP, CdfRf
  <1> DEFINE m == AnswerOf(Got(r), "CDF", IMS_vendor_id_3GPP, CdfRf, SUCCESS, cid, user, g)
  <1>6. Rf_ACA(Got(r), g) = m
    BY DEF Rf_ACA, AnswerOf
  <1> HIDE DEF r, cid, user
  <1>7. m \in AnyMessage
    BY ONLY <1>1, <1>3, <1>4, <1>5, AnswerHeard, g \in AnyGrant
  <1> QED
    BY <1>6, <1>7 DEF r

LEMMA WireInit == MsgInit => WireInv
  BY GivenData DEF MsgInit, WireInv, Asks, NoCredits

LEMMA SendRequestKeeps ==
  ASSUME WireInv, SendRequest
  PROVE  WireInv'
  <1>1. /\ progress' = "asked" /\ service' = service /\ ask' = ask /\ heard' = heard
        /\ wire' = RequestOf[service] /\ service \in {"Ro", "Rf", "Client"}
    BY DEF SendRequest, WireInv
  <1>2. RequestOf[service] = RequestMade(service, ask)
    BY <1>1 DEF RequestOf, RequestMade
  <1>3. ask' \in Asks /\ (ask'.type = "START" => ask'.credits = NoCredits)
    BY <1>1 DEF WireInv
  <1>4. heard' # Unsaid => heard' = HeardOf(service', ask')
    BY <1>1 DEF WireInv
  <1> QED
    BY <1>1, <1>2, <1>3, <1>4 DEF WireInv

LEMMA HearCCRKeeps ==
  ASSUME WireInv, HearCCR
  PROVE  WireInv'
  <1>1. /\ progress = "asked" /\ progress' = "heard" /\ service' = service /\ ask' = ask
        /\ wire' = wire /\ Received.app = IMS_Ro /\ wire = RequestMade(service, ask)
        /\ service \in {"Ro", "Rf", "Client"} /\ ask \in Asks
        /\ (ask.type = "START" => ask.credits = NoCredits)
    BY DEF HearCCR, WireInv
  <1>2. service = "Ro"
    <2>1. Received = Got(RequestMade(service, ask))
      BY <1>1 DEF Received, Got
    <2> QED
      BY <1>1, <2>1, RequestIs, AppsDiffer
  <1>3. Received = Got(Ro_CCR(ask))
    BY <1>1, <1>2 DEF Received, Got, RequestMade
  <1>4. /\ CtfTypes[IntegerOf(Received, CC_Request_Type)] = ask.type
        /\ IntegerOf(Received, Call_Record_Id) = ask.cid /\ StringOf(Received, Subscriber) = ask.user
        /\ CreditsOf(Received) = ask.credits /\ ask.type \in {"START", "INTERIM", "STOP"}
    BY <1>1, <1>3, RoHeard, DataGiven, NumberOf
  <1>5. heard' = [type |-> ask.type, cid |-> ask.cid, user |-> ask.user,
                  credits |-> IF ask.type \in {"START", "EVENT"} THEN NoCredits ELSE ask.credits]
    BY <1>4 DEF HearCCR
  <1>6. heard' = HeardOf(service', ask')
    BY <1>1, <1>2, <1>4, <1>5 DEF HeardOf, Asks
  <1> QED
    BY <1>1, <1>2, <1>6 DEF WireInv

LEMMA HearACRKeeps ==
  ASSUME WireInv, HearACR
  PROVE  WireInv'
  <1>1. /\ progress = "asked" /\ progress' = "heard" /\ service' = service /\ ask' = ask
        /\ wire' = wire /\ Received.app = CdfRf /\ wire = RequestMade(service, ask)
        /\ service \in {"Ro", "Rf", "Client"} /\ ask \in Asks
        /\ (ask.type = "START" => ask.credits = NoCredits)
    BY DEF HearACR, WireInv
  <1>2. service = "Client"
    <2>1. Received = Got(RequestMade(service, ask))
      BY <1>1 DEF Received, Got
    <2> QED
      BY <1>1, <2>1, RequestIs, AppsDiffer
  <1>3. Received = Got(ClientACR(ask))
    BY <1>1, <1>2 DEF Received, Got, RequestMade
  <1>4. /\ CdfTypes[IntegerOf(Received, Accounting_Record_Type)] = ask.type
        /\ IntegerOf(Received, Accounting_Record_Number) = ask.cid
        /\ StringOf(Received, User_Name) = ask.user
    BY <1>1, <1>3, ClientHeard, DataGiven, NumberOf
  <1>5. heard' = [type |-> ask.type, cid |-> ask.cid, user |-> ask.user, credits |-> NoCredits]
    BY <1>4 DEF HearACR
  <1>6. heard' = HeardOf(service', ask')
    BY <1>1, <1>2, <1>5 DEF HeardOf, Asks
  <1> QED
    BY <1>1, <1>2, <1>6 DEF WireInv

LEMMA HandledKeeps ==
  ASSUME WireInv, Handled
  PROVE  WireInv'
  BY DEF WireInv, Handled, AnyGrant

LEMMA SendAnswerKeeps ==
  ASSUME WireInv, SendAnswer
  PROVE  WireInv'
  <1>1. /\ progress = "handled" /\ progress' = "answered" /\ service' = service /\ ask' = ask
        /\ heard' = heard /\ grant' = grant /\ wire = RequestMade(service, ask)
        /\ service \in {"Ro", "Client"} /\ ask \in Asks /\ grant \in AnyGrant
        /\ wire' = IF service = "Ro" THEN Ro_CCA(Received, grant) ELSE Rf_ACA(Received, grant)
    BY DEF SendAnswer, WireInv
  <1>2. wire' \in AnyMessage /\ (service = "Ro" => Tells(wire', ask, grant))
    <2>1. CASE service = "Ro"
      <3>1. Received = Got(Ro_CCR(ask))
        BY <1>1, <2>1 DEF Received, Got, RequestMade
      <3> QED
        BY <1>1, <2>1, <3>1, RoTells
    <2>2. CASE service = "Client"
      <3>1. Received = Got(ClientACR(ask))
        BY <1>1, <2>2 DEF Received, Got, RequestMade
      <3> QED
        BY <1>1, <2>2, <3>1, ClientAnswered
    <2> QED
      BY <1>1, <2>1, <2>2
  <1>3. /\ (ask'.type = "START" => ask'.credits = NoCredits)
        /\ (heard' # Unsaid => heard' = HeardOf(service', ask'))
    BY <1>1 DEF WireInv
  <1> QED
    BY <1>1, <1>2, <1>3 DEF WireInv

LEMMA SendUnknownKeeps ==
  ASSUME WireInv, SendUnknown
  PROVE  WireInv'
  <1>1. /\ progress = "asked" /\ progress' = "answered" /\ service' = service /\ ask' = ask
        /\ heard' = heard /\ wire = RequestMade(service, ask)
        /\ service \in {"Ro", "Rf", "Client"} /\ ask \in Asks
        /\ Received.app # IF service = "Ro" THEN IMS_Ro ELSE CdfRf
        /\ wire' = AddAVP(CreateResponse(Received, Identity.CDF), Result_Code,
                           Integer32(UNABLE_TO_COMPLY))
    BY DEF SendUnknown, WireInv
  <1>2. Received = Got(RequestMade(service, ask))
    BY <1>1 DEF Received, Got
  <1>3. service # "Ro"
    BY <1>1, <1>2, RequestIs
  <1>4. wire' \in AnyMessage
    BY <1>1, <1>2, RequestIs, UnknownAnswered
  <1>5. /\ (ask'.type = "START" => ask'.credits = NoCredits)
        /\ (heard' # Unsaid => heard' = HeardOf(service', ask'))
    BY <1>1 DEF WireInv
  <1> QED
    BY <1>1, <1>3, <1>4, <1>5 DEF WireInv

LEMMA HearAnswerKeeps ==
  ASSUME WireInv, HearAnswer
  PROVE  WireInv'
  <1>1. /\ progress = "answered" /\ progress' = "done" /\ service' = service /\ ask' = ask
        /\ heard' = heard /\ grant' = grant /\ wire' = wire
        /\ service \in {"Ro", "Rf", "Client"} /\ ask \in Asks /\ wire \in AnyMessage
        /\ (service = "Ro" => grant \in AnyGrant /\ Tells(wire, ask, grant))
    BY DEF HearAnswer, WireInv
  <1>2. service = "Ro" =>
          told' = IF grant.result
                  THEN [cid |-> ask.cid, user |-> ask.user, credits |-> grant.credits] ELSE Unsaid
    <2>1. Received = Got(wire)
      BY DEF Received, Got
    <2> QED
      BY <1>1, <2>1 DEF HearAnswer, Tells
  <1>3. /\ (ask'.type = "START" => ask'.credits = NoCredits)
        /\ (heard' # Unsaid => heard' = HeardOf(service', ask'))
    BY <1>1 DEF WireInv
  <1> QED
    BY <1>1, <1>2, <1>3 DEF WireInv

\* What one side of a conversation says the other side hears, and nothing of a message
\* is lost, for all names, numbers and identities.
THEOREM ChargingIsUnderstood == MsgSpec => []MessagesUnderstood
  <1>1. WireInv /\ [MsgNext]_chargeVars => WireInv'
    <2>1. ASSUME WireInv, UNCHANGED chargeVars
          PROVE  WireInv'
      BY <2>1 DEF WireInv, chargeVars
    <2> QED
      BY <2>1, SendRequestKeeps, HearCCRKeeps, HearACRKeeps, HandledKeeps, SendAnswerKeeps,
         SendUnknownKeeps, HearAnswerKeeps DEF MsgNext
  <1>2. WireInv => MessagesUnderstood
    <2> SUFFICES ASSUME WireInv
                 PROVE  AskedAndTold /\ NothingLostOnTheWire
      BY DEF MessagesUnderstood
    <2>1. AskedAndTold
      BY DEF WireInv, AskedAndTold, HeardOf
    <2>2. wire # Error => wire \in AnyMessage
      <3>1. progress \in {"asked", "heard", "handled"} => wire \in AnyMessage
        BY RequestIs DEF WireInv, Answerable
      <3> QED
        BY <3>1 DEF WireInv
    <2>3. NothingLostOnTheWire
      BY <2>2, WireKeepsAll DEF NothingLostOnTheWire, Received, Got
    <2> QED
      BY <2>1, <2>3
  <1> QED
    BY <1>1, <1>2, WireInit, PTL DEF MsgSpec
=============================================================================
