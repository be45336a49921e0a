-------------------------- MODULE ProcessesProofs ---------------------------
(***************************************************************************)
(* For any number of workers and receivers, the shutdown misses no child   *)
(* but one whose pid was not added yet (Processes); for any timers the     *)
(* timer process calls each on time (TimerList); for any hosts and any     *)
(* receivers the list keeps its configured peers (PeerManager); for any    *)
(* file parse_dp_config fits its arrays and orders all routes              *)
(* (Configuration).                                                        *)
(***************************************************************************)
EXTENDS Processes, TimerList, PeerManager, Configuration, TLAPS, FiniteSetTheorems, SequenceTheorems,
        WellFoundedInduction

(***************************************************************************)
(* Sequences.                                                              *)
(***************************************************************************)

LEMMA MinIs ==
  ASSUME NEW S \in SUBSET Nat, S # {}
  PROVE  Min(S) \in S /\ \A x \in S : Min(S) <= x
  <1> DEFINE R == OpToRel(<, Nat)
  <1>1. PICK x \in S : \A y \in S : ~(<<y, x>> \in R)
    BY NatLessThanWellFounded, WFMin
  <1>2. \A y \in S : x <= y
    <2> SUFFICES ASSUME NEW y \in S PROVE ~(y < x)
      OBVIOUS
    <2>1. <<y, x>> \in Nat \X Nat /\ <<y, x>>[1] = y /\ <<y, x>>[2] = x
      OBVIOUS
    <2> QED
      BY <1>1, <2>1 DEF OpToRel
  <1> QED
    BY <1>2 DEF Min

\* The first element that passes a test, here that of being e.
LEMMA SelectIs ==
  ASSUME NEW T, NEW s \in Seq(T), NEW e, Contains(s, e)
  PROVE  LET i == SelectInSeq(s, LAMBDA v : v = e) IN i \in 1 .. Len(s) /\ s[i] = e
  <1> DEFINE I == {j \in 1 .. Len(s) : s[j] = e}
  <1>1. I \in SUBSET Nat /\ I # {}
    BY DEF Contains
  <1>2. SelectInSeq(s, LAMBDA v : v = e) = Min(I)
    BY <1>1 DEF SelectInSeq
  <1> HIDE DEF I
  <1>3. Min(I) \in I
    BY <1>1, MinIs
  <1> QED
    BY <1>2, <1>3 DEF I

\* What RemoveFirst leaves of a list that contains e.
LEMMA RemovedAt ==
  ASSUME NEW T, NEW s \in Seq(T), NEW e, Contains(s, e)
  PROVE  LET r == RemoveFirst(s, e) IN
         /\ r \in Seq(T) /\ Len(r) = Len(s) - 1
         /\ \E i \in 1 .. Len(s) : /\ s[i] = e
                                   /\ \A j \in 1 .. i - 1 : r[j] = s[j]
                                   /\ \A j \in i .. Len(s) - 1 : r[j] = s[j + 1]
  <1> DEFINE i == SelectInSeq(s, LAMBDA v : v = e)
             r == SubSeq(s, 1, i - 1) \o SubSeq(s, i + 1, Len(s))
  <1>1. i \in 1 .. Len(s) /\ s[i] = e
    BY SelectIs
  <1>2. RemoveFirst(s, e) = r
    BY DEF Contains, RemoveFirst, RemoveAt
  <1> HIDE DEF i
  <1>3. /\ r \in Seq(T) /\ Len(r) = Len(s) - 1
        /\ \A j \in 1 .. i - 1 : r[j] = s[j]
        /\ \A j \in i .. Len(s) - 1 : r[j] = s[j + 1]
    <2> DEFINE a == SubSeq(s, 1, i - 1)
               b == SubSeq(s, i + 1, Len(s))
    <2>1. /\ a \in Seq(T) /\ Len(a) = i - 1 /\ \A j \in 1 .. i - 1 : a[j] = s[j]
          /\ b \in Seq(T) /\ Len(b) = Len(s) - i
          /\ \A j \in 1 .. Len(s) - i : b[j] = s[j + i]
      BY <1>1
    <2>2. r = a \o b
      OBVIOUS
    <2> HIDE DEF a, b, r, i
    <2>3. /\ r \in Seq(T) /\ Len(r) = Len(a) + Len(b)
          /\ \A j \in 1 .. Len(a) : r[j] = a[j]
          /\ \A j \in Len(a) + 1 .. Len(a) + Len(b) : r[j] = b[j - Len(a)]
      <3> DEFINE ab == a \o b
      <3>1. /\ ab \in Seq(T) /\ Len(ab) = Len(a) + Len(b)
            /\ \A j \in 1 .. Len(a) + Len(b) :
                 ab[j] = IF j <= Len(a) THEN a[j] ELSE b[j - Len(a)]
        BY <2>1, ConcatProperties
      <3>2. Len(a) \in Nat /\ Len(b) \in Nat /\ r = ab
        BY <2>1, <2>2
      <3> HIDE DEF ab
      <3> QED
        BY <3>1, <3>2
    <2>4. \A j \in i .. Len(s) - 1 : r[j] = s[j + 1]
      <3> SUFFICES ASSUME NEW j \in i .. Len(s) - 1 PROVE r[j] = s[j + 1]
        OBVIOUS
      <3>1. j - (i - 1) \in 1 .. Len(s) - i /\ j - (i - 1) + i = j + 1
        BY <1>1
      <3>2. r[j] = b[j - (i - 1)]
        <4>1. Len(a) = i - 1 /\ Len(b) = Len(s) - i /\ Len(s) \in Nat /\ i \in 1 .. Len(s)
          BY <1>1, <2>1
        <4>2. j \in Len(a) + 1 .. Len(a) + Len(b)
          BY <4>1
        <4> QED
          BY <2>3, <4>1, <4>2
      <3> QED
        BY <2>1, <3>1, <3>2
    <2>5. Len(r) = Len(s) - 1
      BY <1>1, <2>1, <2>3
    <2>6. \A j \in 1 .. i - 1 : r[j] = s[j]
      BY <2>1, <2>3
    <2> QED
      BY <2>3, <2>4, <2>5, <2>6
  <1> HIDE DEF r
  <1> QED
    BY <1>1, <1>2, <1>3

\* RemoveFirst drops no other element.
LEMMA RemovedIs ==
  ASSUME NEW T, NEW s \in Seq(T), NEW e
  PROVE  /\ RemoveFirst(s, e) \in Seq(T)
         /\ \A x : x # e /\ Contains(s, x) => Contains(RemoveFirst(s, e), x)
  <1>1. CASE ~Contains(s, e)
    BY <1>1 DEF Contains, RemoveFirst
  <1>2. CASE Contains(s, e)
    <2> DEFINE r == RemoveFirst(s, e)
    <2>1. r \in Seq(T) /\ Len(r) = Len(s) - 1
      BY <1>2, RemovedAt
    <2>2. PICK i \in 1 .. Len(s) : /\ s[i] = e
                                   /\ \A j \in 1 .. i - 1 : r[j] = s[j]
                                   /\ \A j \in i .. Len(s) - 1 : r[j] = s[j + 1]
      BY <1>2, RemovedAt
    <2> HIDE DEF r
    <2>3. ASSUME NEW x, x # e, NEW k \in 1 .. Len(s), s[k] = x
          PROVE  \E j \in 1 .. Len(r) : r[j] = x
      <3>1. CASE k < i
        BY <2>1, <2>2, <2>3, <3>1
      <3>2. CASE k > i
        <4>1. PICK j \in i .. Len(s) - 1 : j \in 1 .. Len(r) /\ j + 1 = k
          <5>1. k - 1 \in i .. Len(s) - 1 /\ k - 1 \in 1 .. Len(r) /\ (k - 1) + 1 = k
            BY <2>1, <2>2, <3>2
          <5> QED
            BY <5>1
        <4>2. r[j] = s[j + 1]
          BY <2>2
        <4> QED
          BY <2>3, <4>1, <4>2
      <3>3. k # i
        BY <2>2, <2>3
      <3> QED
        BY <2>2, <3>1, <3>2, <3>3
    <2> QED
      BY <2>1, <2>3 DEF Contains, r
  <1> QED
    BY <1>1, <1>2

Elements(s) == {s[i] : i \in 1 .. Len(s)}

Unique(s) == \A i, j \in 1 .. Len(s) : s[i] = s[j] => i = j

\* RemoveFirst takes e out of a list that has every element once.
LEMMA RemovedUnique ==
  ASSUME NEW T, NEW s \in Seq(T), NEW e, Contains(s, e), Unique(s)
  PROVE  Unique(RemoveFirst(s, e)) /\ Elements(RemoveFirst(s, e)) = Elements(s) \ {e}
  <1> DEFINE r == RemoveFirst(s, e)
  <1>1. r \in Seq(T) /\ Len(r) = Len(s) - 1
    BY RemovedAt
  <1>2. PICK i \in 1 .. Len(s) : /\ s[i] = e
                                 /\ \A j \in 1 .. i - 1 : r[j] = s[j]
                                 /\ \A j \in i .. Len(s) - 1 : r[j] = s[j + 1]
    BY RemovedAt
  <1>3. \A x : x # e /\ Contains(s, x) => Contains(r, x)
    BY RemovedIs
  <1> HIDE DEF r
  <1> DEFINE from(j) == IF j < i THEN j ELSE j + 1
  <1>4. \A j \in 1 .. Len(r) : from(j) \in 1 .. Len(s) /\ from(j) # i /\ r[j] = s[from(j)]
    <2> SUFFICES ASSUME NEW j \in 1 .. Len(r)
                 PROVE  from(j) \in 1 .. Len(s) /\ from(j) # i /\ r[j] = s[from(j)]
      OBVIOUS
    <2>1. CASE j < i
      <3>1. j \in 1 .. i - 1 /\ j \in 1 .. Len(s) /\ from(j) = j
        BY <1>1, <2>1
      <3> QED
        BY <1>2, <2>1, <3>1
    <2>2. CASE ~(j < i)
      <3>1. j \in i .. Len(s) - 1 /\ j + 1 \in 1 .. Len(s) /\ from(j) = j + 1 /\ j + 1 # i
        BY <1>1, <2>2
      <3>2. r[j] = s[j + 1]
        BY <1>2, <3>1
      <3> QED
        BY <3>1, <3>2
    <2> QED
      BY <2>1, <2>2
  <1>5. \A j, k \in 1 .. Len(r) : from(j) = from(k) => j = k
    BY <1>1, <1>2
  <1> HIDE DEF from
  <1>6. Unique(r)
    BY <1>4, <1>5 DEF Unique
  <1>7. \A j \in 1 .. Len(r) : r[j] \in Elements(s) \ {e}
    BY <1>2, <1>4 DEF Unique, Elements
  <1>8. Elements(s) \ {e} \subseteq Elements(r)
    BY <1>3 DEF Elements, Contains
  <1> QED
    BY <1>6, <1>7, <1>8 DEF Elements, r

LEMMA AppendedIs ==
  ASSUME NEW T, NEW s \in Seq(T), NEW e \in T
  PROVE  /\ Append(s, e) \in Seq(T) /\ Contains(Append(s, e), e)
         /\ \A x : Contains(s, x) => Contains(Append(s, e), x)
  <1>1. /\ Append(s, e) \in Seq(T) /\ Len(Append(s, e)) = Len(s) + 1
        /\ Append(s, e)[Len(s) + 1] = e
        /\ \A i \in 1 .. Len(s) : Append(s, e)[i] = s[i]
    OBVIOUS
  <1>2. Len(s) \in Nat
    OBVIOUS
  <1> QED
    BY <1>1, <1>2 DEF Contains

\* SetToSeq lists the elements of a finite set, each once.
LEMMA SetToSeqIs ==
  ASSUME NEW S, IsFiniteSet(S)
  PROVE  SetToSeq(S) \in Seq(S) /\ Unique(SetToSeq(S)) /\ Elements(SetToSeq(S)) = S
  <1> DEFINE n == Cardinality(S)
             s == SetToSeq(S)
  <1>1. n \in Nat /\ ExistsBijection(1 .. n, S)
    BY FS_CardinalityType
  <1>2. \E f \in [1 .. n -> S] : IsInjective(f)
    BY <1>1 DEF ExistsBijection, Bijection, Injection, IsInjective
  <1>3. s \in [1 .. n -> S] /\ IsInjective(s)
    BY <1>2 DEF SetToSeq
  <1>4. s \in Injection(1 .. n, S)
    BY <1>3 DEF Injection, IsInjective
  <1>5. Cardinality(1 .. n) = n
    BY <1>1, FS_Interval
  <1>6. s \in Surjection(1 .. n, S)
    BY <1>4, <1>5, FS_Injection
  <1> HIDE DEF n, s
  <1>7. s \in Seq(S) /\ Len(s) = n
    BY <1>1, <1>3
  <1> QED
    BY <1>3, <1>6, <1>7 DEF Unique, Elements, Surjection, IsInjective, s

(***************************************************************************)
(* Processes: the inductive invariant.                                     *)
(***************************************************************************)

Forked == Children \cup {main}

ProcTypeOK ==
  /\ pids \in Seq(Forked \cup {ZeroPid})
  /\ lock \in Forked \cup Accepted \cup {NoPid}
  /\ proc \in [Children \cup Accepted ->
                 {"none", "zero", "run", "spin", "free", "over", "killed"}]
  /\ begin \in Seq(Forked)
  /\ at \in {"fork", "add", "release", "sleep", "busy"}
  /\ new \in Forked \cup {NoPid}
  /\ ending \in {"no", "poison", "test", "last", "wait", "delete", "freed", "quit"}
  /\ last \in Forked \cup {ZeroPid, NoPid}
  /\ reaped \in SUBSET Children

\* What is left of diameter_peer_start.
StartOK ==
  /\ at = "fork" => begin # <<>>
  /\ at = "add" => new \in Forked

\* A child that runs is in the list, or about to be added.
PidsOK ==
  \A c \in Children :
    /\ proc[c] # "zero"
    /\ proc[c] \in {"run", "spin"} => Contains(pids, c) \/ (at = "add" /\ c = new)

\* diameter_peer_destroy waits for children, and deletes no child that it has not
\* waited for.
WaitedOK ==
  /\ ending = "no" => reaped = {}
  /\ \A c \in reaped : proc[c] \in {"over", "killed"}
  /\ ending = "wait" => last \in Children
  /\ ending = "delete" => last \in reaped \cup {ZeroPid, main, NoPid}
  /\ ending = "freed" => pids = <<>>

ProcIInv == ProcTypeOK /\ StartOK /\ PidsOK /\ WaitedOK

USE ProcAssumption

LEMMA ChildrenAre ==
  /\ main \notin Children /\ ZeroPid \notin Children \cup Accepted /\ NoPid \notin Children \cup Accepted
  /\ ZeroPid # NoPid /\ main # ZeroPid /\ main # NoPid
  /\ Accepted \cap Children = {} /\ main \notin Accepted
  /\ Initiated \subseteq Children /\ WorkerPids \subseteq Children /\ acceptor \in Children
  BY DEF Children

LEMMA ProcInitInv == ProcInit => ProcIInv
  <1> SUFFICES ASSUME ProcInit PROVE ProcIInv
    OBVIOUS
  <1>1. SetToSeq(WorkerPids) \in Seq(WorkerPids)
    BY SetToSeqIs
  <1>2. SetToSeq(WorkerPids) \in Seq(Forked) /\ <<acceptor>> \in Seq(Forked) /\ <<main>> \in Seq(Forked)
    BY <1>1, ChildrenAre, SeqMonotonic DEF Forked
  <1>3. /\ begin \in Seq(Forked) /\ begin # <<>>
    <2> DEFINE w == SetToSeq(WorkerPids)
    <2>1. begin = <<acceptor>> \o w \o <<main>> /\ w \in Seq(Forked)
      BY <1>2 DEF ProcInit
    <2> HIDE DEF w
    <2> QED
      BY <1>2, <2>1
  <1>4. ProcTypeOK
    BY <1>3 DEF ProcInit, ProcTypeOK, Forked
  <1> QED
    BY <1>3, <1>4 DEF ProcInit, ProcIInv, StartOK, PidsOK, WaitedOK

(***************************************************************************)
(* Steps.                                                                  *)
(***************************************************************************)

LEMMA ForkInv == ASSUME ProcIInv, Fork PROVE ProcIInv'
  <1> USE DEF ProcIInv
  <1>1. /\ new' = Head(begin) /\ begin' = Tail(begin) /\ at = "fork" /\ at' = "add" /\ ending = "no"
        /\ proc' = IF new' = main THEN proc ELSE [proc EXCEPT ![new'] = "run"]
        /\ UNCHANGED <<pids, lock, ending, last, reaped>>
    BY DEF Fork
  <1>2. new' \in Forked /\ begin' \in Seq(Forked)
    <2>1. begin \in Seq(Forked) /\ begin # <<>>
      BY <1>1 DEF ProcTypeOK, StartOK
    <2> QED
      BY <1>1, <2>1
  <1>3. ProcTypeOK'
    BY <1>1, <1>2 DEF ProcTypeOK, Forked
  <1>4. \A c \in Children : c # new' => proc'[c] = proc[c]
    BY <1>1, <1>2 DEF ProcTypeOK
  <1>5. PidsOK'
    BY <1>1, <1>4 DEF PidsOK
  <1>6. StartOK' /\ WaitedOK'
    BY <1>1, <1>2 DEF StartOK, WaitedOK
  <1> QED
    BY <1>3, <1>5, <1>6

LEMMA AddPidInv == ASSUME ProcIInv, AddPid PROVE ProcIInv'
  <1> USE DEF ProcIInv
  <1>1. /\ pids' = Append(pids, new) /\ lock' = main /\ at = "add" /\ at' = "release" /\ ending = "no"
        /\ UNCHANGED <<proc, begin, new, ending, last, reaped>>
    BY DEF AddPid
  <1>2. pids \in Seq(Forked \cup {ZeroPid}) /\ new \in Forked \cup {ZeroPid}
    BY <1>1 DEF ProcTypeOK, StartOK
  <1>3. /\ pids' \in Seq(Forked \cup {ZeroPid}) /\ Contains(pids', new)
        /\ \A x : Contains(pids, x) => Contains(pids', x)
    BY <1>1, <1>2, AppendedIs
  <1>4. ProcTypeOK'
    BY <1>1, <1>3 DEF ProcTypeOK, Forked
  <1>5. PidsOK'
    BY <1>1, <1>3 DEF PidsOK
  <1>6. StartOK' /\ WaitedOK'
    BY <1>1 DEF StartOK, WaitedOK
  <1> QED
    BY <1>4, <1>5, <1>6

LEMMA ReleaseInv == ASSUME ProcIInv, Release PROVE ProcIInv'
  <1> USE DEF ProcIInv
  <1>1. /\ lock' = NoPid /\ at = "release" /\ at' \in {"fork", "sleep", "busy"}
        /\ at' = "fork" => begin # <<>>
        /\ UNCHANGED <<pids, proc, begin, new, ending, last, reaped>>
    BY DEF Release
  <1>2. ProcTypeOK'
    BY <1>1 DEF ProcTypeOK
  <1>3. StartOK' /\ PidsOK' /\ WaitedOK'
    BY <1>1 DEF StartOK, PidsOK, WaitedOK
  <1> QED
    BY <1>2, <1>3

LEMMA TurnInv == ASSUME ProcIInv, Turn PROVE ProcIInv'
  <1> USE DEF ProcIInv
  <1>1. /\ at \in {"sleep", "busy"} /\ at' \in {"sleep", "busy"}
        /\ UNCHANGED <<pids, lock, proc, begin, new, ending, last, reaped>>
    BY DEF Turn
  <1>2. ProcTypeOK'
    BY <1>1 DEF ProcTypeOK
  <1>3. StartOK' /\ PidsOK' /\ WaitedOK'
    BY <1>1 DEF StartOK, PidsOK, WaitedOK
  <1> QED
    BY <1>2, <1>3

LEMMA ConnectInv == ASSUME ProcIInv, NEW r \in Initiated, Connect(r) PROVE ProcIInv'
  <1> USE DEF ProcIInv
  <1>1. /\ proc' = [proc EXCEPT ![r] = "run"] /\ new' = r /\ at = "busy" /\ at' = "add"
        /\ ending = "no"
        /\ UNCHANGED <<pids, lock, begin, ending, last, reaped>>
    BY DEF Connect
  <1>2. r \in Children
    BY ChildrenAre
  <1>3. ProcTypeOK'
    BY <1>1, <1>2 DEF ProcTypeOK, Forked
  <1>4. \A c \in Children : c # new' => proc'[c] = proc[c]
    BY <1>1 DEF ProcTypeOK
  <1>5. PidsOK'
    BY <1>1, <1>4 DEF PidsOK
  <1>6. StartOK' /\ WaitedOK'
    BY <1>1, <1>2 DEF StartOK, WaitedOK, Forked
  <1> QED
    BY <1>3, <1>5, <1>6

\* Steps of the shutdown that leave the list and the processes alone.
LEMMA EndingInv ==
  ASSUME ProcIInv, Signal \/ Again \/ Poison \/ Test \/ LastPid PROVE ProcIInv'
  <1> USE DEF ProcIInv
  <1>1. UNCHANGED <<pids, lock, proc, begin, at, new, reaped>>
    BY DEF Signal, Again, Poison, Test, LastPid
  <1>2. StartOK' /\ PidsOK'
    BY <1>1 DEF StartOK, PidsOK
  <1>3. CASE Signal \/ Again \/ Poison \/ Test
    <2>1. /\ last' = last /\ ending' \in {"poison", "quit", "test", "freed", "last"}
          /\ ending' = "freed" => pids = <<>>
      BY <1>3 DEF Signal, Again, Poison, Test
    <2>2. ProcTypeOK'
      BY <1>1, <2>1 DEF ProcTypeOK
    <2>3. WaitedOK'
      BY <1>1, <2>1 DEF WaitedOK
    <2> QED
      BY <1>2, <2>2, <2>3
  <1>4. CASE LastPid
    <2>1. /\ last' = IF pids = <<>> THEN NoPid ELSE Last(pids)
          /\ ending' = IF last' \in {NoPid, ZeroPid, main} THEN "delete" ELSE "wait"
      BY <1>4 DEF LastPid
    <2>2. pids # <<>> => Last(pids) \in Forked \cup {ZeroPid}
      <3>1. pids \in Seq(Forked \cup {ZeroPid})
        BY DEF ProcTypeOK
      <3> QED
        BY <3>1 DEF Last
    <2>3. last' \in Forked \cup {ZeroPid, NoPid}
      BY <2>1, <2>2
    <2>4. ProcTypeOK'
      BY <1>1, <2>1, <2>3 DEF ProcTypeOK
    <2>5. WaitedOK'
      BY <1>1, <2>1, <2>3 DEF WaitedOK, Forked
    <2> QED
      BY <1>2, <2>4, <2>5
  <1> QED
    BY <1>3, <1>4

LEMMA WaitPidInv == ASSUME ProcIInv, WaitPid PROVE ProcIInv'
  <1> USE DEF ProcIInv
  <1>1. /\ ending = "wait" /\ ending' \in {"delete", "poison"}
        /\ \/ last \in reaped /\ reaped' = reaped
           \/ proc[last] \in {"over", "killed"} /\ reaped' = reaped \cup {last}
        /\ UNCHANGED <<pids, lock, proc, begin, at, new, last>>
    BY DEF WaitPid
  <1>2. last \in Children /\ last \in reaped'
    BY <1>1 DEF WaitedOK
  <1>3. ProcTypeOK'
    BY <1>1, <1>2 DEF ProcTypeOK
  <1>4. StartOK' /\ PidsOK'
    BY <1>1 DEF StartOK, PidsOK
  <1>5. WaitedOK'
    BY <1>1, <1>2 DEF WaitedOK
  <1> QED
    BY <1>3, <1>4, <1>5

LEMMA DeletePidInv == ASSUME ProcIInv, DeletePid PROVE ProcIInv'
  <1> USE DEF ProcIInv
  <1>1. /\ ending = "delete" /\ ending' = "test" /\ pids' = RemoveFirst(pids, last)
        /\ UNCHANGED <<lock, proc, begin, at, new, last, reaped>>
    BY DEF DeletePid, PidDeleted
  <1>2. /\ pids' \in Seq(Forked \cup {ZeroPid})
        /\ \A x : x # last /\ Contains(pids, x) => Contains(pids', x)
    BY <1>1, RemovedIs DEF ProcTypeOK
  <1>3. ProcTypeOK'
    BY <1>1, <1>2 DEF ProcTypeOK
  <1>4. \A c \in Children : proc[c] \in {"run", "spin"} => c # last
    BY <1>1, ChildrenAre DEF WaitedOK
  <1>5. PidsOK'
    BY <1>1, <1>2, <1>4 DEF PidsOK
  <1>6. StartOK' /\ WaitedOK'
    BY <1>1 DEF StartOK, WaitedOK
  <1> QED
    BY <1>3, <1>5, <1>6

\* A process of its own accord: one that no longer runs, or runs on and stays listed.
LEMMA BecomesInv ==
  ASSUME ProcIInv, NEW p \in Children \cup Accepted,
         NEW to \in {"zero", "run", "spin", "free", "over", "killed"},
         Becomes(p, to),
         lock' \in Forked \cup Accepted \cup {NoPid},
         pids' \in Seq(Forked \cup {ZeroPid}),
         \A c \in Children : c # p \/ to = "spin" => (Contains(pids, c) => Contains(pids', c)),
         ending = "freed" => pids' = <<>>,
         p \in Children => to \notin {"zero", "run"},
         p \in Children /\ to = "spin" => proc[p] = "run",
         p \in reaped => to \in {"over", "killed"}
  PROVE  ProcIInv'
  <1> USE DEF ProcIInv
  <1>1. /\ proc' = [proc EXCEPT ![p] = to]
        /\ UNCHANGED <<begin, at, new, ending, last, reaped>>
    BY DEF Becomes
  <1>2. ProcTypeOK'
    BY <1>1 DEF ProcTypeOK
  <1>3. \A c \in Children \cup Accepted : proc'[c] = IF c = p THEN to ELSE proc[c]
    BY <1>1 DEF ProcTypeOK
  <1>4. PidsOK'
    <2> SUFFICES ASSUME NEW c \in Children
                 PROVE  /\ proc'[c] # "zero"
                        /\ proc'[c] \in {"run", "spin"} =>
                             Contains(pids', c) \/ (at' = "add" /\ c = new')
      BY DEF PidsOK
    <2>2. proc'[c] # "zero"
      BY <1>3 DEF PidsOK
    <2> SUFFICES ASSUME proc'[c] \in {"run", "spin"}
                 PROVE  Contains(pids', c) \/ (at' = "add" /\ c = new')
      BY <2>2
    <2>1. proc[c] \in {"run", "spin"} /\ (c # p \/ to = "spin")
      BY <1>3
    <2> QED
      BY <1>1, <2>1 DEF PidsOK
  <1>5. StartOK'
    BY <1>1 DEF StartOK
  <1>6. WaitedOK'
    BY <1>1, <1>3 DEF WaitedOK, ProcTypeOK
  <1> QED
    BY <1>2, <1>4, <1>5, <1>6

\* Who runs or is about to has not been waited for.
LEMMA NotReaped ==
  ASSUME ProcIInv, NEW p \in Children \cup Accepted, proc[p] \notin {"over", "killed"}
  PROVE  p \notin reaped
  BY DEF ProcIInv, WaitedOK

LEMMA OthersInv ==
  ASSUME ProcIInv, NEW p \in Children \cup Accepted,
         \/ p \in Accepted /\ (Accept(p) \/ AddZero(p))
         \/ Leave(p) \/ Exit(p)
         \/ p \in Initiated /\ Spin(p)
         \/ p \in Children /\ Crash(p)
  PROVE  ProcIInv'
  <1>1. /\ pids \in Seq(Forked \cup {ZeroPid}) /\ lock \in Forked \cup Accepted \cup {NoPid}
        /\ ending = "freed" => pids = <<>>
        /\ p \in Forked \cup Accepted
    BY DEF ProcIInv, ProcTypeOK, WaitedOK, Forked
  <1>2. CASE p \in Accepted /\ Accept(p)
    <2>1. Becomes(p, "zero") /\ UNCHANGED <<pids, lock>> /\ p \notin Children /\ proc[p] = "none"
      BY <1>2, ChildrenAre DEF Accept
    <2> QED
      BY <1>1, <2>1, NotReaped, BecomesInv
  <1>3. CASE p \in Accepted /\ AddZero(p)
    <2>1. /\ Becomes(p, "run") /\ pids' = Append(pids, ZeroPid) /\ lock' = lock
          /\ p \notin Children /\ proc[p] = "zero" /\ ending # "freed"
      BY <1>3, ChildrenAre DEF AddZero
    <2>2. pids' \in Seq(Forked \cup {ZeroPid}) /\ \A x : Contains(pids, x) => Contains(pids', x)
      BY <1>1, <2>1, AppendedIs
    <2> QED
      BY <1>1, <2>1, <2>2, NotReaped, BecomesInv
  <1>4. CASE Leave(p)
    <2>1. /\ Becomes(p, "free") /\ pids' = RemoveFirst(pids, p) /\ lock' = p
          /\ proc[p] = "run" /\ ending # "freed"
      BY <1>4 DEF Leave, PidDeleted
    <2>2. /\ pids' \in Seq(Forked \cup {ZeroPid})
          /\ \A x : x # p /\ Contains(pids, x) => Contains(pids', x)
      BY <1>1, <2>1, RemovedIs
    <2> QED
      BY <1>1, <2>1, <2>2, NotReaped, BecomesInv
  <1>5. CASE Exit(p)
    <2>1. Becomes(p, "over") /\ lock' = NoPid /\ pids' = pids
      BY <1>5 DEF Exit
    <2> QED
      BY <1>1, <2>1, BecomesInv
  <1>6. CASE p \in Initiated /\ Spin(p)
    <2>1. Becomes(p, "spin") /\ UNCHANGED <<pids, lock>> /\ proc[p] = "run"
      BY <1>6 DEF Spin
    <2> QED
      BY <1>1, <2>1, NotReaped, BecomesInv
  <1>7. CASE p \in Children /\ Crash(p)
    <2>1. Becomes(p, "killed") /\ UNCHANGED <<pids, lock>>
      BY <1>7 DEF Crash
    <2> QED
      BY <1>1, <2>1, BecomesInv
  <1> QED
    BY <1>2, <1>3, <1>4, <1>5, <1>6, <1>7

LEMMA ProcStepInv == ProcIInv /\ [ProcNext]_procVars => ProcIInv'
  <1> SUFFICES ASSUME ProcIInv, [ProcNext]_procVars PROVE ProcIInv'
    OBVIOUS
  <1>1. CASE Main
    <2>1. ASSUME NEW r \in Initiated, Connect(r) PROVE ProcIInv'
      BY <2>1, ConnectInv
    <2> QED
      BY <1>1, <2>1, ForkInv, AddPidInv, ReleaseInv, TurnInv, EndingInv DEF Main
  <1>2. CASE PeerDestroy
    BY <1>2, EndingInv, WaitPidInv, DeletePidInv DEF PeerDestroy
  <1>3. ASSUME NEW r \in Accepted, Accept(r) PROVE ProcIInv'
    BY <1>3, OthersInv
  <1>4. ASSUME NEW p \in Children \cup Accepted, Leave(p) \/ Other(p) PROVE ProcIInv'
    BY <1>4, OthersInv DEF Other
  <1>5. ASSUME NEW r \in Initiated, Spin(r) PROVE ProcIInv'
    BY <1>5, OthersInv, ChildrenAre
  <1>6. ASSUME NEW p \in Children, Crash(p) PROVE ProcIInv'
    BY <1>6, OthersInv
  <1>7. CASE UNCHANGED procVars
    BY <1>7 DEF procVars, ProcIInv, ProcTypeOK, StartOK, PidsOK, WaitedOK
  <1> QED
    BY <1>1, <1>2, <1>3, <1>4, <1>5, <1>6, <1>7 DEF ProcNext

THEOREM ProcInductive == ProcSpec => []ProcIInv
  BY ProcInitInv, ProcStepInv, PTL DEF ProcSpec

\* Every variable of the processes and of the shutdown keeps its type.
THEOREM ProcTypeCorrect == ProcSpec => []ProcTypeOK
  <1>1. ProcIInv => ProcTypeOK
    BY DEF ProcIInv
  <1> QED
    BY <1>1, ProcInductive, PTL

\* When diameter_peer_destroy frees the list of pids no child is left in it, whatever
\* was forked, crashed or left by itself; only one whose pid was being added is missed.
THEOREM NoChildIsMissed == ProcSpec => []ChildrenAreWaitedFor
  <1>1. ProcIInv => ChildrenAreWaitedFor
    <2> SUFFICES ASSUME ProcIInv, ending = "freed", NEW c \in Children
                 PROVE  \/ proc[c] \in {"none", "free", "over", "killed"}
                        \/ at = "add" /\ c = new
      BY DEF ChildrenAreWaitedFor
    <2>1. ~Contains(pids, c)
      BY DEF ProcIInv, WaitedOK, Contains
    <2>2. proc[c] \in {"none", "zero", "run", "spin", "free", "over", "killed"}
      BY DEF ProcIInv, ProcTypeOK
    <2> QED
      BY <2>1, <2>2 DEF ProcIInv, PidsOK
  <1> QED
    BY <1>1, ProcInductive, PTL

HIDE ProcAssumption

(***************************************************************************)
(* PeerManager: the inductive invariant.                                   *)
(***************************************************************************)

PeerRecords ==
  [fqdn : AllHosts \cup {NoPeer}, dynamic : BOOLEAN, state : {"Closed", "Wait", "Open"},
   waitingDWA : BOOLEAN]

PmTypeOK ==
  /\ allocated \in SUBSET Blocks /\ peerList \in Seq(Blocks)
  /\ peer \in [Blocks -> PeerRecords]
  /\ listLock \in {NoPeer, timer} /\ timerAt \in Blocks \cup {NoPeer}
  /\ phase \in {"idle", "walk", "log", "destroyed"}
  /\ stage \in [Receivers -> {"idle", "add", "met", "connected"}]
  /\ host \in [Receivers -> AllHosts \cup {NoPeer}]
  /\ held \in [Receivers -> Blocks \cup {NoPeer}]
  /\ accept \in BOOLEAN /\ drop \in BOOLEAN

\* The list has every allocated peer once.
AllListed == Unique(peerList) /\ Elements(peerList) = allocated

\* The timer has the lock while it walks, and what it is at is allocated also after that.
WalkOK ==
  /\ listLock = timer <=> phase \in {"walk", "destroyed"}
  /\ phase \in {"walk", "log"} => timerAt \in allocated \cup {NoPeer}

\* A receiver that adds a peer adds an unknown one, and one that has met a peer holds it.
StageOK ==
  \A r \in Receivers :
    /\ stage[r] = "idle" => host[r] = NoPeer
    /\ stage[r] = "add" => host[r] \in Unknown
    /\ stage[r] \in {"met", "connected"} => held[r] \in Blocks

\* The peer of a configured host stays, because it is not dynamic.
KnownOK ==
  phase # "destroyed" =>
    \A h \in Known : \E b \in allocated :
      /\ peer[b].dynamic = FALSE
      /\ \A c \in allocated : peer[c].fqdn = h <=> c = b
      /\ \A r \in Receivers : host[r] = h => held[r] = b

PmIInv == PmTypeOK /\ AllListed /\ WalkOK /\ StageOK /\ KnownOK

USE PmAssumption

LEMMA FoundIs ==
  ASSUME PmTypeOK, NEW h
  PROVE  /\ Found(h) # 0 => Found(h) \in 1 .. Len(peerList) /\ peer[peerList[Found(h)]].fqdn = h
         /\ Found(h) = 0 => \A b \in Elements(peerList) : peer[b].fqdn # h
  <1> DEFINE I == {i \in 1 .. Len(peerList) : peer[peerList[i]].fqdn = h}
  <1>1. I \in SUBSET Nat /\ 0 \notin I
    BY DEF PmTypeOK
  <1>2. Found(h) = IF I # {} THEN Min(I) ELSE 0
    BY DEF Found, SelectInSeq
  <1>3. I # {} => Min(I) \in I
    <2> HIDE DEF I
    <2> QED
      BY <1>1, MinIs
  <1> QED
    BY <1>1, <1>2, <1>3 DEF Elements

\* The peer behind one of the list is another one.
LEMMA AfterIs ==
  ASSUME PmTypeOK, Unique(peerList), NEW b, Contains(peerList, b)
  PROVE  After(b) \in (Elements(peerList) \ {b}) \cup {NoPeer}
  <1> DEFINE i == SelectInSeq(peerList, LAMBDA c : c = b)
  <1>1. i \in 1 .. Len(peerList) /\ peerList[i] = b
    BY SelectIs DEF PmTypeOK
  <1>2. After(b) = IF i \in 1 .. Len(peerList) - 1 THEN peerList[i + 1] ELSE NoPeer
    BY DEF After
  <1> HIDE DEF i
  <1>3. Len(peerList) \in Nat
    BY DEF PmTypeOK
  <1> QED
    BY <1>1, <1>2, <1>3 DEF Elements, Unique

LEMMA PeerIs ==
  \A h : /\ Peer(h, FALSE).fqdn = h /\ Peer(h, FALSE).dynamic = FALSE
         /\ Peer(h, TRUE).fqdn = h
  BY DEF Peer

LEMMA PmInitInv == PmInit => PmIInv
  <1> SUFFICES ASSUME PmInit PROVE PmIInv
    OBVIOUS
  <1> DEFINE block == CHOOSE f \in [Known -> Blocks] : IsInjective(f)
  <1>1. block \in [Known -> Blocks] /\ IsInjective(block)
    OBVIOUS
  <1>2. /\ allocated = {block[h] : h \in Known}
        /\ peer = [b \in Blocks |->
             Peer(IF b \in allocated THEN CHOOSE h \in Known : block[h] = b ELSE NoPeer, FALSE)]
    BY DEF PmInit
  <1> HIDE DEF block
  <1>3. \A h \in Known : block[h] \in allocated /\ (CHOOSE k \in Known : block[k] = block[h]) = h
    BY <1>1, <1>2 DEF IsInjective
  <1>4. \A h \in Known : peer[block[h]] = Peer(h, FALSE)
    BY <1>1, <1>2, <1>3
  <1>5. IsFiniteSet(allocated) /\ allocated \in SUBSET Blocks
    <2>1. block \in Surjection(Known, allocated)
      BY <1>1, <1>2 DEF Surjection
    <2> QED
      BY <1>1, <1>2, <2>1, FS_Surjection
  <1>6. peerList \in Seq(Blocks) /\ Unique(peerList) /\ Elements(peerList) = allocated
    <2>1. peerList \in Seq(allocated) /\ Unique(peerList) /\ Elements(peerList) = allocated
      BY <1>5, SetToSeqIs DEF PmInit
    <2> QED
      BY <1>5, <2>1
  <1>7. peer \in [Blocks -> PeerRecords]
    <2>1. \A b \in allocated : (CHOOSE h \in Known : block[h] = b) \in Known
      BY <1>2
    <2> QED
      BY <1>2, <2>1 DEF Peer, PeerRecords, AllHosts
  <1>8. PmTypeOK
    BY <1>5, <1>6, <1>7 DEF PmTypeOK, PmInit
  <1>9. KnownOK
    <2> SUFFICES ASSUME NEW h \in Known
                 PROVE  \E b \in allocated :
                          /\ peer[b].dynamic = FALSE
                          /\ \A c \in allocated : peer[c].fqdn = h <=> c = b
                          /\ \A r \in Receivers : host[r] = h => held[r] = b
      BY DEF KnownOK
    <2>1. block[h] \in allocated /\ peer[block[h]].dynamic = FALSE /\ peer[block[h]].fqdn = h
      <3>1. block[h] \in allocated /\ peer[block[h]] = Peer(h, FALSE)
        BY <1>3, <1>4
      <3> QED
        BY <3>1, PeerIs
    <2>2. ASSUME NEW c \in allocated, peer[c].fqdn = h PROVE c = block[h]
      <3>1. PICK k \in Known : c = block[k]
        BY <1>2
      <3>2. peer[block[k]].fqdn = k
        BY <1>4, PeerIs
      <3> QED
        BY <2>2, <3>1, <3>2
    <2>3. \A r \in Receivers : host[r] # h
      BY DEF PmInit
    <2> QED
      BY <2>1, <2>2, <2>3
  <1> QED
    BY <1>6, <1>8, <1>9 DEF PmIInv, AllListed, WalkOK, StageOK, PmInit

(*************************** The receivers *******************************)

LEMMA MeetInv ==
  ASSUME PmIInv, NEW r \in Receivers, NEW h \in AllHosts, Meet(r, h)
  PROVE  PmIInv'
  <1> USE DEF PmIInv
  <1>1. /\ stage[r] = "idle" /\ listLock = NoPeer /\ phase # "destroyed"
        /\ host' = [host EXCEPT ![r] = h]
        /\ UNCHANGED <<peerList, peer, allocated, listLock, timerAt, phase, accept, drop>>
    BY DEF Meet, timerVars, pmConfig, WalkOK
  <1>2. PmTypeOK'
    <2>1. Found(h) # 0 => peerList[Found(h)] \in Blocks
      BY FoundIs DEF PmTypeOK
    <2> QED
      BY <1>1, <2>1 DEF Meet, PmTypeOK
  <1>3. /\ Found(h) # 0 => held'[r] \in allocated /\ peer[held'[r]].fqdn = h /\ stage'[r] = "met"
        /\ Found(h) = 0 => stage'[r] = "add" /\ \A b \in allocated : peer[b].fqdn # h
        /\ \A q \in Receivers \ {r} :
             stage'[q] = stage[q] /\ host'[q] = host[q] /\ held'[q] = held[q]
        /\ host'[r] = h
    BY <1>1, FoundIs DEF Meet, PmTypeOK, AllListed, Elements
  <1>4. h \in Known => Found(h) # 0
    BY <1>1, <1>3 DEF KnownOK
  <1>5. StageOK'
    BY <1>3, <1>4 DEF StageOK, AllHosts, PmTypeOK
  <1>6. KnownOK'
    BY <1>1, <1>3, <1>4 DEF KnownOK
  <1>7. AllListed' /\ WalkOK'
    BY <1>1 DEF AllListed, WalkOK
  <1> QED
    BY <1>2, <1>5, <1>6, <1>7

LEMMA AddPeerInv ==
  ASSUME PmIInv, NEW r \in Receivers, AddPeer(r)
  PROVE  PmIInv'
  <1> USE DEF PmIInv
  <1>1. PICK b \in Blocks \ allocated :
          /\ stage[r] = "add" /\ listLock = NoPeer /\ phase # "destroyed" /\ phase # "walk"
          /\ allocated' = allocated \cup {b} /\ peer' = [peer EXCEPT ![b] = Peer(host[r], TRUE)]
          /\ peerList' = Append(peerList, b) /\ held' = [held EXCEPT ![r] = b]
          /\ stage' = [stage EXCEPT ![r] = "met"]
          /\ UNCHANGED <<listLock, timerAt, phase, host, accept, drop>>
    BY DEF AddPeer, timerVars, pmConfig, WalkOK
  <1>2. host[r] \in Unknown /\ host[r] \notin Known
    BY <1>1 DEF StageOK
  <1>3. PmTypeOK'
    <2>1. Peer(host[r], TRUE) \in PeerRecords
      BY <1>2 DEF Peer, PeerRecords, AllHosts
    <2> DEFINE p == Peer(host[r], TRUE)
    <2> HIDE DEF p
    <2>2. peer' = [peer EXCEPT ![b] = p] /\ p \in PeerRecords
      BY <1>1, <2>1 DEF p
    <2>3. peer' \in [Blocks -> PeerRecords]
      BY <2>2 DEF PmTypeOK
    <2>4. peerList' \in Seq(Blocks)
      BY <1>1 DEF PmTypeOK
    <2> QED
      BY <1>1, <2>3, <2>4 DEF PmTypeOK
  <1>4. AllListed'
    <2>1. /\ Len(peerList') = Len(peerList) + 1 /\ Len(peerList) \in Nat
          /\ peerList'[Len(peerList) + 1] = b
          /\ \A i \in 1 .. Len(peerList) : peerList'[i] = peerList[i]
      BY <1>1 DEF PmTypeOK
    <2>2. \A i \in 1 .. Len(peerList) : peerList[i] # b
      BY <1>1 DEF AllListed, Elements
    <2>3. Unique(peerList')
      BY <2>1, <2>2 DEF AllListed, Unique
    <2>4. Elements(peerList') = Elements(peerList) \cup {b}
      BY <2>1 DEF Elements
    <2> QED
      BY <1>1, <2>3, <2>4 DEF AllListed
  <1>5. WalkOK' /\ StageOK'
    BY <1>1 DEF WalkOK, StageOK, PmTypeOK
  <1>6. KnownOK'
    <2> SUFFICES ASSUME NEW h \in Known
                 PROVE  \E d \in allocated' :
                          /\ peer'[d].dynamic = FALSE
                          /\ \A c \in allocated' : peer'[c].fqdn = h <=> c = d
                          /\ \A q \in Receivers : host'[q] = h => held'[q] = d
      BY DEF KnownOK
    <2>1. PICK d \in allocated :
            /\ peer[d].dynamic = FALSE
            /\ \A c \in allocated : peer[c].fqdn = h <=> c = d
            /\ \A q \in Receivers : host[q] = h => held[q] = d
      BY <1>1 DEF KnownOK
    <2>2. peer'[b].fqdn = host[r] /\ \A c \in allocated : peer'[c] = peer[c]
      BY <1>1, PeerIs DEF PmTypeOK
    <2>3. \A q \in Receivers : host'[q] = h => held'[q] = d
      BY <1>1, <1>2, <2>1 DEF PmTypeOK
    <2>4. \A c \in allocated' : peer'[c].fqdn = h <=> c = d
      <3>1. \A c \in allocated : peer'[c].fqdn = h <=> c = d
        BY <2>1, <2>2
      <3>2. peer'[b].fqdn # h /\ b # d
        BY <1>1, <1>2, <2>2
      <3> QED
        BY <1>1, <3>1, <3>2
    <2> QED
      BY <1>1, <2>1, <2>2, <2>3, <2>4
  <1> QED
    BY <1>3, <1>4, <1>5, <1>6

\* What changes in a peer besides its name and whether it was added makes no difference.
LEMMA PeerChanges ==
  ASSUME PmIInv, NEW b \in Blocks, NEW p \in PeerRecords,
         peer' = [peer EXCEPT ![b] = p], p.fqdn = peer[b].fqdn, p.dynamic = peer[b].dynamic,
         UNCHANGED <<peerList, allocated, listLock, phase, host, accept, drop>>,
         \A h \in Known : \A r \in Receivers : host[r] = h => held'[r] = held[r]
  PROVE  peer' \in [Blocks -> PeerRecords] /\ KnownOK' /\ AllListed'
  <1>1. \A c \in Blocks : peer'[c].fqdn = peer[c].fqdn /\ peer'[c].dynamic = peer[c].dynamic
    BY DEF PmIInv, PmTypeOK
  <1>2. KnownOK'
    BY <1>1 DEF PmIInv, PmTypeOK, KnownOK
  <1> QED
    BY <1>2 DEF PmIInv, PmTypeOK, AllListed

LEMMA HeldInv ==
  ASSUME PmIInv, NEW r \in Receivers, OpenPeer(r) \/ Receive(r) \/ Disconnect(r)
  PROVE  PmIInv'
  <1> DEFINE b == held[r]
  <1>1. /\ stage[r] \in {"met", "connected"} /\ b \in Blocks
        /\ UNCHANGED <<peerList, allocated, listLock, timerAt, phase, accept, drop>>
        /\ stage' \in [Receivers -> {"idle", "add", "met", "connected"}]
        /\ \A q \in Receivers \ {r} :
             stage'[q] = stage[q] /\ host'[q] = host[q] /\ held'[q] = held[q]
    BY DEF OpenPeer, Receive, Disconnect, timerVars, pmConfig, PmIInv, StageOK, PmTypeOK
  <1>2. \/ /\ stage'[r] = "connected" /\ UNCHANGED <<host, held>>
        \/ /\ stage'[r] = "idle" /\ host'[r] = NoPeer
           /\ host' = [host EXCEPT ![r] = NoPeer] /\ held' = [held EXCEPT ![r] = NoPeer]
    BY DEF OpenPeer, Receive, Disconnect, PmIInv, PmTypeOK
  <1>3. PICK p \in PeerRecords :
          peer' = [peer EXCEPT ![b] = p] /\ p.fqdn = peer[b].fqdn /\ p.dynamic = peer[b].dynamic
    <2>1. peer[b] \in PeerRecords
      BY <1>1 DEF PmIInv, PmTypeOK
    <2>2. CASE OpenPeer(r)
      <3> DEFINE p == [peer[b] EXCEPT !.state = IF @ = "Closed" THEN "Open" ELSE @]
      <3>1. p \in PeerRecords /\ p.fqdn = peer[b].fqdn /\ p.dynamic = peer[b].dynamic
        BY <2>1 DEF PeerRecords
      <3>2. peer' = [peer EXCEPT ![b] = p]
        BY <2>2 DEF OpenPeer
      <3> QED
        BY <3>1, <3>2
    <2>3. CASE Receive(r)
      <3> DEFINE p == [peer[b] EXCEPT !.waitingDWA = FALSE]
      <3>1. p \in PeerRecords /\ p.fqdn = peer[b].fqdn /\ p.dynamic = peer[b].dynamic
        BY <2>1 DEF PeerRecords
      <3>2. peer' = [peer EXCEPT ![b] = p]
        BY <2>3 DEF Receive
      <3> QED
        BY <3>1, <3>2
    <2>4. CASE Disconnect(r)
      <3> DEFINE p == [peer[b] EXCEPT !.state = "Closed"]
      <3>1. p \in PeerRecords /\ p.fqdn = peer[b].fqdn /\ p.dynamic = peer[b].dynamic
        BY <2>1 DEF PeerRecords
      <3>2. peer' = [peer EXCEPT ![b] = p]
        BY <2>4 DEF Disconnect
      <3> QED
        BY <3>1, <3>2
    <2> QED
      BY <2>2, <2>3, <2>4
  <1> HIDE DEF b
  <1>4. peer' \in [Blocks -> PeerRecords] /\ AllListed'
    BY <1>1, <1>3 DEF PmIInv, PmTypeOK, AllListed
  <1>5. \A c \in Blocks : peer'[c].fqdn = peer[c].fqdn /\ peer'[c].dynamic = peer[c].dynamic
    BY <1>1, <1>3 DEF PmIInv, PmTypeOK
  <1>6. \A q \in Receivers : host'[q] # NoPeer => host'[q] = host[q] /\ held'[q] = held[q]
    BY <1>1, <1>2
  <1>7. KnownOK'
    <2> SUFFICES ASSUME NEW h \in Known, phase # "destroyed"
                 PROVE  \E d \in allocated' :
                          /\ peer'[d].dynamic = FALSE
                          /\ \A c \in allocated' : peer'[c].fqdn = h <=> c = d
                          /\ \A q \in Receivers : host'[q] = h => held'[q] = d
      BY <1>1 DEF KnownOK
    <2>1. PICK d \in allocated :
            /\ peer[d].dynamic = FALSE
            /\ \A c \in allocated : peer[c].fqdn = h <=> c = d
            /\ \A q \in Receivers : host[q] = h => held[q] = d
      BY DEF PmIInv, KnownOK
    <2>2. allocated' = allocated /\ allocated \in SUBSET Blocks
      BY <1>1 DEF PmIInv, PmTypeOK
    <2>3. \A c \in allocated : peer'[c].fqdn = h <=> c = d
      BY <1>5, <2>1, <2>2
    <2>4. \A q \in Receivers : host'[q] = h => held'[q] = d
      BY <1>6, <2>1
    <2>5. peer'[d].dynamic = FALSE
      BY <1>5, <2>1, <2>2
    <2> QED
      BY <2>1, <2>2, <2>3, <2>4, <2>5
  <1>8. PmTypeOK'
    BY <1>1, <1>2, <1>4 DEF PmIInv, PmTypeOK
  <1>9. WalkOK' /\ StageOK'
    BY <1>1, <1>2 DEF PmIInv, WalkOK, StageOK, b
  <1> QED
    BY <1>4, <1>7, <1>8, <1>9 DEF PmIInv

(******************************* The timer *******************************)

\* What the timer does to the list leaves the receivers alone.
LEMMA FirstIs ==
  ASSUME PmTypeOK, AllListed
  PROVE  (IF peerList = <<>> THEN NoPeer ELSE peerList[1]) \in allocated \cup {NoPeer}
  <1>1. peerList # <<>> => 1 \in 1 .. Len(peerList)
    BY DEF PmTypeOK
  <1> QED
    BY <1>1 DEF AllListed, Elements

LEMMA WalkInv ==
  ASSUME PmIInv, StartTimer \/ EndTimer \/ LogPeer
  PROVE  PmIInv'
  <1>1. /\ UNCHANGED <<peerList, peer, allocated, stage, host, held, accept, drop>>
        /\ \/ /\ phase = "idle" /\ listLock' = timer /\ phase' = "walk"
           \/ /\ phase = "walk" /\ listLock' = NoPeer /\ phase' = "log"
           \/ /\ phase = "log" /\ listLock' = listLock /\ phase' \in {"idle", "log"}
    BY DEF StartTimer, EndTimer, LogPeer, pmConfig
  <1>2. timerAt' \in allocated \cup {NoPeer}
    <2>1. CASE StartTimer \/ EndTimer
      BY <2>1, FirstIs DEF StartTimer, EndTimer, PmIInv
    <2>2. CASE LogPeer
      <3>1. timerAt # NoPeer => Contains(peerList, timerAt)
        BY <2>2 DEF LogPeer, PmIInv, WalkOK, AllListed, Elements, Contains
      <3>2. timerAt # NoPeer => After(timerAt) \in allocated \cup {NoPeer}
        BY <3>1, AfterIs DEF PmIInv, AllListed
      <3> QED
        BY <2>2, <3>2 DEF LogPeer
    <2> QED
      BY <2>1, <2>2
  <1>3. PmTypeOK'
    BY <1>1, <1>2 DEF PmIInv, PmTypeOK
  <1>4. WalkOK'
    BY <1>1, <1>2 DEF PmIInv, WalkOK
  <1> QED
    BY <1>1, <1>3, <1>4 DEF PmIInv, AllListed, StageOK, KnownOK

LEMMA FreePeerInv == ASSUME PmIInv, FreePeer PROVE PmIInv'
  <1> DEFINE b == timerAt
  <1>1. /\ phase = "walk" /\ b \in allocated /\ peer[b].dynamic
        /\ peerList' = RemoveFirst(peerList, b) /\ allocated' = allocated \ {b}
        /\ timerAt' = After(b)
        /\ UNCHANGED <<peer, listLock, phase, stage, host, held, accept, drop>>
    BY DEF FreePeer, IsFreed, pmConfig, PmIInv, WalkOK
  <1>2. Contains(peerList, b)
    BY <1>1 DEF PmIInv, AllListed, Elements, Contains
  <1>3. After(b) \in allocated' \cup {NoPeer}
    BY <1>1, <1>2, AfterIs DEF PmIInv, AllListed
  <1>4. peerList' \in Seq(Blocks)
    BY <1>1, RemovedIs DEF PmIInv, PmTypeOK
  <1>5. AllListed'
    BY <1>1, <1>2, RemovedUnique DEF PmIInv, PmTypeOK, AllListed
  <1> HIDE DEF b
  <1>6. PmTypeOK' /\ WalkOK' /\ StageOK'
    BY <1>1, <1>3, <1>4 DEF PmIInv, PmTypeOK, WalkOK, StageOK
  <1>7. KnownOK'
    BY <1>1 DEF PmIInv, KnownOK
  <1> QED
    BY <1>5, <1>6, <1>7 DEF PmIInv

LEMMA NextPeerInv == ASSUME PmIInv, NextPeer PROVE PmIInv'
  <1> DEFINE b == timerAt
  <1>1. /\ phase = "walk" /\ b \in allocated /\ timerAt' = After(b)
        /\ UNCHANGED <<peerList, allocated, listLock, phase, stage, host, held, accept, drop>>
        /\ peer' = [peer EXCEPT ![b] = Attended(@)] \/ peer' = [peer EXCEPT ![b] = @]
    BY DEF NextPeer, pmConfig, PmIInv, WalkOK
  <1>2. After(b) \in allocated \cup {NoPeer}
    <2>1. Contains(peerList, b)
      BY <1>1 DEF PmIInv, AllListed, Elements, Contains
    <2> QED
      BY <2>1, AfterIs DEF PmIInv, AllListed
  <1>3. PICK p \in PeerRecords :
          peer' = [peer EXCEPT ![b] = p] /\ p.fqdn = peer[b].fqdn /\ p.dynamic = peer[b].dynamic
    <2>1. peer[b] \in PeerRecords
      BY <1>1 DEF PmIInv, PmTypeOK
    <2>2. /\ Attended(peer[b]) \in PeerRecords
          /\ Attended(peer[b]).fqdn = peer[b].fqdn /\ Attended(peer[b]).dynamic = peer[b].dynamic
      BY <2>1 DEF Attended, PeerRecords
    <2> QED
      BY <1>1, <2>1, <2>2
  <1>4. peer' \in [Blocks -> PeerRecords] /\ KnownOK' /\ AllListed'
    <2>1. b \in Blocks
      BY <1>1 DEF PmIInv, PmTypeOK
    <2> HIDE DEF b
    <2> QED
      BY <1>1, <1>3, <2>1, PeerChanges
  <1>5. PmTypeOK' /\ WalkOK' /\ StageOK'
    BY <1>1, <1>2, <1>4 DEF PmIInv, PmTypeOK, WalkOK, StageOK
  <1> QED
    BY <1>4, <1>5 DEF PmIInv

LEMMA DestroyPeersInv == ASSUME PmIInv, DestroyPeers PROVE PmIInv'
  BY DEF DestroyPeers, pmConfig, PmIInv, PmTypeOK, AllListed, WalkOK, StageOK, KnownOK, Unique,
         Elements

LEMMA PmStepInv == PmIInv /\ [PmNext]_pmVars => PmIInv'
  <1> SUFFICES ASSUME PmIInv, [PmNext]_pmVars PROVE PmIInv'
    OBVIOUS
  <1>1. ASSUME NEW r \in Receivers, NEW h \in AllHosts, Meet(r, h) PROVE PmIInv'
    BY <1>1, MeetInv
  <1>2. ASSUME NEW r \in Receivers, AddPeer(r) PROVE PmIInv'
    BY <1>2, AddPeerInv
  <1>3. ASSUME NEW r \in Receivers, OpenPeer(r) \/ Receive(r) \/ Disconnect(r) PROVE PmIInv'
    BY <1>3, HeldInv
  <1>4. CASE StartTimer \/ EndTimer \/ LogPeer
    BY <1>4, WalkInv
  <1>5. CASE FreePeer
    BY <1>5, FreePeerInv
  <1>6. CASE NextPeer
    BY <1>6, NextPeerInv
  <1>7. CASE DestroyPeers
    BY <1>7, DestroyPeersInv
  <1>8. CASE UNCHANGED pmVars
    BY <1>8 DEF pmVars, PmIInv, PmTypeOK, AllListed, WalkOK, StageOK, KnownOK
  <1> QED
    BY <1>1, <1>2, <1>3, <1>4, <1>5, <1>6, <1>7, <1>8 DEF PmNext

THEOREM PmInductive == PmSpec => []PmIInv
  BY PmInitInv, PmStepInv, PTL DEF PmSpec

\* Every variable of the peer manager keeps its type.
THEOREM PmTypeCorrect == PmSpec => []PmTypeOK
  <1>1. PmIInv => PmTypeOK
    BY DEF PmIInv
  <1> QED
    BY <1>1, PmInductive, PTL

\* A configured host has its one peer until the end, and the log reads no freed peer,
\* however unknown peers come and go (get_peer_from_fqdn, peer_timer, log_peer_list).
THEOREM PeersAreListed == PmSpec => []PeersListed
  <1>1. PmIInv => PeersListed
    <2> SUFFICES ASSUME PmIInv PROVE KnownHostOnce /\ LogReadsLive
      BY DEF PeersListed
    <2>1. KnownHostOnce
      BY DEF PmIInv, KnownOK, AllListed, Elements, Contains, KnownHostOnce
    <2>2. LogReadsLive
      BY DEF PmIInv, WalkOK, LogReadsLive
    <2> QED
      BY <2>1, <2>2
  <1> QED
    BY <1>1, PmInductive, PTL

HIDE PmAssumption

(***************************************************************************)
(* No timer ever counts more seconds than have passed, and none is late by *)
(* more than two rounds, for any timers, intervals and delays. The call of *)
(* a timer is due at expires, and what its earlier calls stand for leaves  *)
(* room for one more interval before then: that is the strengthening       *)
(* ListedOK. A round calls each timer once: RoundOK.                       *)
(***************************************************************************)

\* The time that was read is past, and every call so far was due by then.
CallsWereDue == now <= clock /\ \A t \in Timers : counted[t] <= now

\* Nothing is called while the list is filled.
NothingCounted == pc = "init" => \A t \in Timers : counted[t] = 0

\* The next call of a listed timer adds no more seconds than there are until it is due.
ListedOK ==
  \A t \in Timers : Contains(list, t) => counted[t] + Interval[t] <= expires[t]

IInv == TypeOK /\ CallsWereDue /\ NothingCounted /\ ListedOK

USE TimerAssumption

\* What Append adds to the elements of a list.
LEMMA AppendContains ==
  ASSUME NEW s \in Seq(Timers), NEW e \in Timers, NEW t \in Timers,
         Contains(Append(s, e), t)
  PROVE  Contains(s, t) \/ t = e
  BY DEF Contains

LEMMA InitInv == Init => IInv
  <1> SUFFICES ASSUME Init PROVE IInv
    OBVIOUS
  <1>1. TypeOK
    BY DEF Init, TypeOK
  <1>2. CallsWereDue /\ NothingCounted
    BY DEF Init, CallsWereDue, NothingCounted
  <1>3. ListedOK
    BY DEF Init, ListedOK, Contains
  <1> QED
    BY <1>1, <1>2, <1>3 DEF IInv

LEMMA AddTimerInv == ASSUME IInv, NEW x \in Timers, AddTimer(x) PROVE IInv'
  <1> USE DEF IInv, AddTimer
  <1>1. TypeOK'
    BY DEF TypeOK
  <1>2. CallsWereDue' /\ NothingCounted'
    BY DEF TypeOK, CallsWereDue, NothingCounted
  <1>3. ListedOK'
    <2> SUFFICES ASSUME NEW t \in Timers, Contains(list', t)
                 PROVE  counted'[t] + Interval[t] <= expires'[t]
      BY DEF ListedOK
    <2>1. CASE t = x
      BY <2>1 DEF TypeOK, NothingCounted
    <2>2. CASE t # x
      BY <2>2, AppendContains DEF TypeOK, ListedOK
    <2> QED
      BY <2>1, <2>2
  <1> QED
    BY <1>1, <1>2, <1>3

LEMMA ServeInv == ASSUME IInv, Serve PROVE IInv'
  <1> USE DEF IInv
  <1>1. PICK i \in DOMAIN list :
          /\ pc = "serve" /\ IsFirstExpired(i)
          /\ cb' = list[i]
          /\ expires' = [expires EXCEPT ![list[i]] = now + Interval[list[i]]]
          /\ counted' = [counted EXCEPT ![list[i]] = @ + Interval[list[i]]]
          /\ pc' = "call" /\ spent' = 0
          /\ UNCHANGED <<list, clock, now>>
    BY DEF Serve
  <1> DEFINE x == list[i]
  <1>2. x \in Timers /\ Contains(list, x)
    BY <1>1 DEF TypeOK, Contains
  <1>3. counted[x] + Interval[x] <= now
    BY <1>1, <1>2 DEF ListedOK, IsFirstExpired, TypeOK
  <1> HIDE DEF x
  <1>4. expires' = [expires EXCEPT ![x] = now + Interval[x]]
        /\ counted' = [counted EXCEPT ![x] = @ + Interval[x]]
    BY <1>1 DEF x
  <1>5. TypeOK'
    BY <1>1, <1>2, <1>4 DEF TypeOK, x
  <1>6. CallsWereDue'
    BY <1>1, <1>2, <1>3, <1>4 DEF TypeOK, CallsWereDue
  <1>7. NothingCounted'
    BY <1>1 DEF NothingCounted
  <1>8. ListedOK'
    <2> SUFFICES ASSUME NEW t \in Timers, Contains(list, t)
                 PROVE  counted'[t] + Interval[t] <= expires'[t]
      BY <1>1 DEF ListedOK
    <2>1. CASE t = x
      BY <2>1, <1>2, <1>3, <1>4 DEF TypeOK
    <2>2. CASE t # x
      BY <2>2, <1>2, <1>4 DEF TypeOK, ListedOK
    <2> QED
      BY <2>1, <2>2
  <1> QED
    BY <1>5, <1>6, <1>7, <1>8

\* No other step touches the list, a timer or what it counts.
LEMMA OtherInv ==
  ASSUME IInv, Start \/ Return \/ Sleep \/ Wake \/ Shutdown \/ Tick PROVE IInv'
  <1> USE DEF IInv
  <1>1. UNCHANGED <<list, expires, counted>>
    BY DEF Start, Return, Sleep, Wake, Shutdown, Tick
  <1>2. /\ now' \in {now, clock} /\ clock' \in {clock, clock + 1} /\ spent' \in {0, spent, spent + 1}
        /\ (now' = now \/ clock' = clock) /\ cb' \in {cb, None}
        /\ pc' \in {pc, "serve", "sleep", "done"}
    BY DEF Start, Return, Sleep, Wake, Shutdown, Tick
  <1>3. TypeOK'
    BY <1>1, <1>2 DEF TypeOK
  <1>4. CallsWereDue'
    BY <1>1, <1>2 DEF TypeOK, CallsWereDue
  <1>5. NothingCounted'
    BY <1>1, <1>2 DEF NothingCounted
  <1>6. ListedOK'
    BY <1>1 DEF ListedOK
  <1> QED
    BY <1>3, <1>4, <1>5, <1>6

LEMMA StepInv == IInv /\ [Next]_vars => IInv'
  <1> SUFFICES ASSUME IInv, [Next]_vars PROVE IInv'
    OBVIOUS
  <1>1. ASSUME NEW t \in Timers, AddTimer(t) PROVE IInv'
    BY <1>1, AddTimerInv
  <1>2. CASE Serve
    BY <1>2, ServeInv
  <1>3. CASE Start \/ Return \/ Sleep \/ Wake \/ Shutdown \/ Tick
    BY <1>3, OtherInv
  <1>4. CASE UNCHANGED vars
    BY <1>4 DEF IInv, TypeOK, CallsWereDue, NothingCounted, ListedOK, vars
  <1> QED
    BY <1>1, <1>2, <1>3, <1>4 DEF Next

THEOREM Inductive == Spec => []IInv
  BY InitInv, StepInv, PTL DEF Spec

\* Every variable keeps its type.
THEOREM TypeCorrect == Spec => []TypeOK
  <1>1. IInv => TypeOK
    BY DEF IInv
  <1> QED
    BY <1>1, Inductive, PTL

(***************************************************************************)
(* Lateness.                                                               *)
(***************************************************************************)

\* The timers that this round of timer_loop will not call any more.
Ahead == {t \in Timers : expires[t] > now}

Round == Cardinality(Timers) * MaxSlow

\* Since the time was read each timer ahead has cost one callback at most.
RoundOK ==
  /\ pc = "init" => clock = 0
  /\ pc = "serve" => clock - now <= Cardinality(Ahead) * MaxSlow
  /\ pc = "call" => /\ clock - now + MaxSlow <= Cardinality(Ahead) * MaxSlow + spent
                    /\ spent <= MaxSlow
  /\ pc = "sleep" => Ahead = Timers /\ clock - now <= Round + spent /\ spent <= MaxSleep

\* What was due when the time was read became due after it was read before.
LastRoundOK ==
  pc \in {"serve", "call"} => \A t \in Timers : now - expires[t] <= Round + MaxSleep

LateIInv == IInv /\ RoundOK /\ LastRoundOK

LEMMA RoundIsNat ==
  ASSUME IInv
  PROVE  /\ Cardinality(Ahead) \in Nat /\ Cardinality(Timers) \in Nat
         /\ Cardinality(Ahead) * MaxSlow \in Nat /\ Round \in Nat
         /\ Cardinality(Ahead) * MaxSlow <= Round
  <1>1. Ahead \subseteq Timers
    BY DEF Ahead
  <1>2. /\ Cardinality(Ahead) \in Nat /\ Cardinality(Timers) \in Nat
        /\ Cardinality(Ahead) <= Cardinality(Timers)
    BY <1>1, FS_Subset, FS_CardinalityType
  <1>3. \A a, b, m \in Nat : a <= b => a * m \in Nat /\ b * m \in Nat /\ a * m <= b * m
    OBVIOUS
  <1> QED
    BY <1>2, <1>3 DEF Round

\* A call puts one more timer ahead.
LEMMA ServeLate ==
  ASSUME LateIInv, Serve PROVE RoundOK' /\ LastRoundOK'
  <1> USE DEF LateIInv
  <1>1. PICK i \in DOMAIN list :
          /\ pc = "serve" /\ expires[list[i]] <= now
          /\ expires' = [expires EXCEPT ![list[i]] = now + Interval[list[i]]]
          /\ pc' = "call" /\ spent' = 0
          /\ UNCHANGED <<clock, now>>
    BY DEF Serve, IsFirstExpired
  <1> DEFINE x == list[i]
  <1>2. x \in Timers
    BY <1>1 DEF IInv, TypeOK
  <1>3. expires' = [expires EXCEPT ![x] = now + Interval[x]] /\ expires[x] <= now
    BY <1>1
  <1> HIDE DEF x
  <1>4. \A t \in Timers : expires'[t] = IF t = x THEN now + Interval[x] ELSE expires[t]
    BY <1>2, <1>3 DEF IInv, TypeOK
  <1>5. Ahead' = Ahead \cup {x} /\ x \notin Ahead
    <2>1. now \in Nat /\ expires[x] \in Nat /\ Interval[x] \in Nat \ {0}
      BY <1>2 DEF IInv, TypeOK
    <2>2. now + Interval[x] > now /\ ~(expires[x] > now)
      BY <1>3, <2>1
    <2>3. \A t \in Timers : expires'[t] > now <=> t = x \/ expires[t] > now
      BY <1>4, <2>2
    <2>4. Ahead' = {t \in Timers : expires'[t] > now}
      BY <1>1 DEF Ahead
    <2> QED
      BY <1>2, <2>2, <2>3, <2>4 DEF Ahead
  <1>6. IsFiniteSet(Ahead)
    BY FS_Subset DEF Ahead
  <1>7. Cardinality(Ahead') = Cardinality(Ahead) + 1
    BY <1>5, <1>6, FS_AddElement
  <1>8. \A a, m \in Nat : (a + 1) * m = a * m + m
    OBVIOUS
  <1>9. Cardinality(Ahead') * MaxSlow = Cardinality(Ahead) * MaxSlow + MaxSlow
    BY <1>7, <1>8, RoundIsNat
  <1>10. clock \in Nat /\ now \in Nat /\ clock - now <= Cardinality(Ahead) * MaxSlow
    BY <1>1 DEF RoundOK, IInv, TypeOK
  <1>11. RoundOK'
    <2> HIDE DEF LateIInv
    <2> DEFINE k == Cardinality(Ahead) * MaxSlow
    <2>1. k \in Nat
      BY RoundIsNat DEF LateIInv
    <2>2. clock - now <= k /\ (Cardinality(Ahead) * MaxSlow)' = k + MaxSlow
      BY <1>9, <1>10
    <2> HIDE DEF k
    <2>3. clock' - now' + MaxSlow <= (Cardinality(Ahead) * MaxSlow)' + spent' /\ spent' <= MaxSlow
      BY <1>1, <1>10, <2>1, <2>2
    <2> QED
      BY <1>1, <2>3 DEF RoundOK
  <1>12. LastRoundOK'
    <2>1. \A t \in Timers : now - expires[t] <= Round + MaxSleep
      BY <1>1 DEF LastRoundOK
    <2>2. ASSUME NEW t \in Timers PROVE now - expires'[t] <= Round + MaxSleep
      <3>1. now \in Nat /\ expires[t] \in Nat /\ Interval[x] \in Nat /\ Round \in Nat
        BY <1>2, RoundIsNat DEF IInv, TypeOK
      <3>2. expires'[t] = IF t = x THEN now + Interval[x] ELSE expires[t]
        BY <1>4
      <3> QED
        BY <2>1, <3>1, <3>2
    <2> QED
      BY <1>1, <2>2 DEF LastRoundOK, Round
  <1> QED
    BY <1>11, <1>12

\* After the sleep every timer is at most as late as the round and the sleep were long.
LEMMA WakeLate ==
  ASSUME LateIInv, Wake PROVE RoundOK' /\ LastRoundOK'
  <1>1. /\ pc = "sleep" /\ now' = clock /\ pc' = "serve"
        /\ UNCHANGED <<expires, clock>>
    BY DEF Wake
  <1>2. /\ \A t \in Timers : expires[t] > now /\ expires[t] \in Nat
        /\ clock - now <= Round + spent /\ spent <= MaxSleep
        /\ clock \in Nat /\ now \in Nat /\ spent \in Nat
    BY <1>1 DEF LateIInv, RoundOK, Ahead, IInv, TypeOK
  <1>3. \A t \in Timers : clock - expires[t] <= Round + MaxSleep
    BY <1>2, RoundIsNat DEF LateIInv
  <1>4. LastRoundOK'
    BY <1>1, <1>3 DEF LastRoundOK, Round
  <1>5. Cardinality(Ahead') * MaxSlow \in Nat
    <2>1. IsFiniteSet(Ahead')
      BY FS_Subset DEF Ahead
    <2>2. Cardinality(Ahead') \in Nat
      BY <2>1, FS_CardinalityType
    <2> QED
      BY <2>2
  <1>6. RoundOK'
    <2>1. clock' - now' = 0
      BY <1>1, <1>2
    <2> QED
      BY <1>1, <1>5, <2>1 DEF RoundOK
  <1> QED
    BY <1>4, <1>6

\* The other steps, of which only Tick lets time pass.
LEMMA OtherLate ==
  ASSUME LateIInv, Start \/ Return \/ Sleep \/ Shutdown \/ Tick PROVE RoundOK' /\ LastRoundOK'
  <1> DEFINE k == Cardinality(Ahead) * MaxSlow
  <1>1. /\ k \in Nat /\ Round \in Nat /\ k <= Round /\ Round' = Round
        /\ expires \in [Timers -> Nat] /\ clock \in Nat /\ now \in Nat /\ spent \in Nat
    BY RoundIsNat DEF LateIInv, IInv, TypeOK, Round
  <1>2. /\ pc = "init" => clock = 0
        /\ pc = "serve" => clock - now <= k
        /\ pc = "call" => clock - now + MaxSlow <= k + spent /\ spent <= MaxSlow
        /\ pc = "sleep" => Ahead = Timers /\ clock - now <= Round + spent /\ spent <= MaxSleep
        /\ pc \in {"serve", "call"} => \A t \in Timers : now - expires[t] <= Round + MaxSleep
    BY DEF LateIInv, RoundOK, LastRoundOK
  <1>3. ASSUME UNCHANGED <<expires, now>> PROVE Ahead' = Ahead /\ k' = k
    BY <1>3 DEF Ahead
  <1>4. CASE Start
    <2>1. /\ pc = "init" /\ now' = clock /\ clock' = clock /\ expires' = expires /\ pc' = "serve"
      BY <1>4 DEF Start
    <2>2. Cardinality(Ahead') * MaxSlow \in Nat
      <3>1. IsFiniteSet(Ahead')
        BY FS_Subset DEF Ahead
      <3>2. Cardinality(Ahead') \in Nat
        BY <3>1, FS_CardinalityType
      <3> QED
        BY <3>2
    <2>3. clock' = 0 /\ now' = 0
      BY <2>1, <1>2
    <2>4. RoundOK'
      BY <2>1, <2>2, <2>3 DEF RoundOK
    <2>5. \A t \in Timers : 0 - expires[t] <= Round + MaxSleep
      BY <1>1
    <2> QED
      BY <2>1, <2>3, <2>4, <2>5, <1>1 DEF LastRoundOK
  <1> HIDE DEF k
  <1>5. CASE Return
    <2>1. /\ pc = "call" /\ UNCHANGED <<expires, clock, now, spent>> /\ pc' = "serve"
      BY <1>5 DEF Return
    <2>2. clock - now <= k
      BY <1>1, <1>2, <2>1
    <2>3. RoundOK'
      BY <1>3, <2>1, <2>2 DEF RoundOK, k
    <2> QED
      BY <1>1, <1>2, <2>1, <2>3 DEF LastRoundOK
  <1>6. CASE Sleep
    <2>1. /\ pc = "serve" /\ UNCHANGED <<expires, clock, now>> /\ pc' = "sleep" /\ spent' = 0
          /\ Ahead = Timers
      BY <1>6 DEF Sleep, Ahead
    <2>2. clock - now <= Round + 0
      BY <1>1, <1>2, <2>1
    <2>3. RoundOK'
      BY <1>1, <1>3, <2>1, <2>2 DEF RoundOK
    <2> QED
      BY <2>1, <2>3 DEF LastRoundOK
  <1>7. CASE Shutdown
    BY <1>7 DEF Shutdown, RoundOK, LastRoundOK
  <1>8. CASE Tick
    <2>1. /\ UNCHANGED <<expires, now, pc>> /\ clock' = clock + 1 /\ spent' = spent + 1
          /\ \/ pc = "call" /\ spent < MaxSlow
             \/ pc = "sleep" /\ spent < MaxSleep
      BY <1>8 DEF Tick
    <2>2. pc = "call" => clock' - now' + MaxSlow <= k + spent' /\ spent' <= MaxSlow
      BY <1>1, <1>2, <2>1
    <2>3. pc = "sleep" => clock' - now' <= Round + spent' /\ spent' <= MaxSleep
      BY <1>1, <1>2, <2>1
    <2>4. RoundOK'
      BY <1>1, <1>2, <1>3, <2>1, <2>2, <2>3 DEF RoundOK, k
    <2> QED
      BY <1>1, <1>2, <2>1, <2>4 DEF LastRoundOK
  <1> QED
    BY <1>4, <1>5, <1>6, <1>7, <1>8

LEMMA LateStep == LateIInv /\ [Next]_vars => LateIInv'
  <1> SUFFICES ASSUME LateIInv, [Next]_vars PROVE LateIInv'
    OBVIOUS
  <1>1. IInv'
    BY StepInv DEF LateIInv
  <1>2. ASSUME NEW t \in Timers, AddTimer(t) PROVE RoundOK' /\ LastRoundOK'
    BY <1>2 DEF AddTimer, LateIInv, RoundOK, LastRoundOK
  <1>3. CASE UNCHANGED vars
    <2>1. UNCHANGED <<expires, clock, now, spent, pc>>
      BY <1>3 DEF vars
    <2>2. Ahead' = Ahead /\ (Cardinality(Ahead) * MaxSlow)' = Cardinality(Ahead) * MaxSlow
      BY <2>1 DEF Ahead
    <2>3. RoundOK'
      BY <2>1, <2>2 DEF LateIInv, RoundOK, Round
    <2> QED
      BY <1>1, <2>1, <2>3 DEF LateIInv, LastRoundOK, Round
  <1>4. CASE Next
    BY <1>1, <1>2, <1>4, ServeLate, WakeLate, OtherLate DEF Next, LateIInv
  <1> QED
    BY <1>3, <1>4

\* Timers are neither ahead nor late by more than two rounds of callbacks and a sleep:
\* timer_loop goes through all that have expired before it reads the time again.
THEOREM TimersAreOnTime == Spec => []TimersKeepTime
  <1>1. Init => LateIInv
    BY InitInv DEF Init, LateIInv, RoundOK, LastRoundOK
  <1>2. LateIInv => TimersKeepTime
    <2> SUFFICES ASSUME LateIInv PROVE TimersKeepTime
      OBVIOUS
    <2>1. NeverAhead
      BY DEF LateIInv, IInv, CallsWereDue, NeverAhead, TypeOK
    <2>2. ASSUME NEW t \in Timers, pc \in {"serve", "call", "sleep"}
          PROVE  clock - expires[t] <= Round + (Round + MaxSleep)
      <3> DEFINE k == Cardinality(Ahead) * MaxSlow
      <3>1. /\ k \in Nat /\ Round \in Nat /\ k <= Round
            /\ expires[t] \in Nat /\ clock \in Nat /\ now \in Nat /\ spent \in Nat
        BY RoundIsNat DEF LateIInv, IInv, TypeOK
      <3>2. /\ pc = "serve" => clock - now <= k
            /\ pc = "call" => clock - now + MaxSlow <= k + spent /\ spent <= MaxSlow
            /\ pc = "sleep" => expires[t] > now /\ clock - now <= Round + spent /\ spent <= MaxSleep
            /\ pc \in {"serve", "call"} => now - expires[t] <= Round + MaxSleep
        BY DEF LateIInv, RoundOK, LastRoundOK, Ahead
      <3> HIDE DEF k
      <3> QED
        BY <2>2, <3>1, <3>2
    <2>3. Round + (Round + MaxSleep) = 2 * Cardinality(Timers) * MaxSlow + MaxSleep
      <3>1. \A n, m, s \in Nat : n * m + (n * m + s) = 2 * n * m + s
        OBVIOUS
      <3> QED
        BY <3>1, RoundIsNat DEF Round, LateIInv
    <2> QED
      BY <2>1, <2>2, <2>3 DEF TimersInTime, TimersKeepTime
  <1> QED
    BY <1>1, <1>2, LateStep, PTL DEF Spec

(***************************************************************************)
(* Configuration.                                                          *)
(***************************************************************************)

\* Of is the elements of a file with one of these tags.
Of(tags) == {e \in XmlElements : e.tag \in tags}

\* What the arrays and the routing table may hold.
Entries ==
  {[fqdn |-> Trimmed(e.fqdn), realm |-> Trimmed(e.realm)] : e \in Of({"Peer"})}
    \cup {[bind |-> Trimmed(e.bind), port |-> e.port] : e \in Of({"Acceptor"})}
    \cup [id : {e.id : e \in Of({"Auth", "Acct"})}, vendor : {e.vendor : e \in Of({"Auth", "Acct"})},
          type : {"auth", "acct"}]

AllRoutes == {RouteOf(e) : e \in RouteElements}

AllRealms == [realm : {Trimmed(e.name) : e \in Of({"Realm"})}, routes : Seq(AllRoutes)]

ConfigTypeOK ==
  /\ file \in Files /\ pass \in {"count", "read"} /\ child \in 1 .. Len(file) + 1
  /\ nephew \in Nat
  /\ nephew > 0 => /\ pass = "read" /\ child <= Len(file) /\ Child.tag = "Realm"
                   /\ nephew <= Len(Child.children) + 1
  /\ config \in [Arrays -> Seq(Entries)] /\ sizes \in [Arrays -> Nat]
  /\ routes \in Seq(AllRoutes) /\ realms \in Seq(AllRealms)

\* The first n elements of the file that belong into array a.
ToCount(a, n) == {i \in 1 .. n : ArrayOf(file[i].tag) = a}

\* The first pass has counted, and the second one filled in, what it has passed.
CountedOK ==
  \A a \in Arrays :
    /\ sizes[a] = Cardinality(ToCount(a, IF pass = "count" THEN child - 1 ELSE Len(file)))
    /\ Len(config[a]) = IF pass = "count" THEN 0 ELSE Cardinality(ToCount(a, child - 1))

ConfigIInv == ConfigTypeOK /\ CountedOK /\ DefaultsSound /\ RealmsSound

\* Insert puts re before the first that is not smaller.
LEMMA InsertedAt ==
  ASSUME NEW T, \A t \in T : t.metric \in Int, NEW rs \in Seq(T), NEW re \in T
  PROVE  LET r == Insert(rs, re) IN
         /\ r \in Seq(T) /\ Len(r) = Len(rs) + 1
         /\ \E p \in 1 .. Len(rs) + 1 :
              /\ r[p] = re
              /\ \A j \in 1 .. p - 1 : r[j] = rs[j] /\ rs[j].metric < re.metric
              /\ \A j \in p + 1 .. Len(rs) + 1 : r[j] = rs[j - 1]
              /\ p <= Len(rs) => re.metric <= rs[p].metric
<1> DEFINE I == {j \in 1 .. Len(rs) : re.metric <= rs[j].metric}
           i == SelectInSeq(rs, LAMBDA rei : re.metric <= rei.metric)
           r == Insert(rs, re)
<1>0. /\ Len(rs) \in Nat /\ re.metric \in Int
      /\ \A j \in 1 .. Len(rs) : rs[j] \in T /\ rs[j].metric \in Int
  OBVIOUS
<1>1. i = IF I # {} THEN Min(I) ELSE 0
  BY DEF SelectInSeq
<1>2. r = IF i = 0 THEN Append(rs, re) ELSE InsertAt(rs, i, re)
  BY DEF Insert
<1> HIDE DEF i, r
<1>3. CASE I = {}
  <2>1. r = Append(rs, re)
    BY <1>1, <1>2, <1>3
  <2>2. /\ r \in Seq(T) /\ Len(r) = Len(rs) + 1 /\ r[Len(rs) + 1] = re
        /\ \A j \in 1 .. Len(rs) : r[j] = rs[j]
    BY <2>1, AppendProperties
  <2>3. \A j \in 1 .. Len(rs) : rs[j].metric < re.metric
    BY <1>0, <1>3
  <2>4. /\ Len(rs) + 1 \in 1 .. Len(rs) + 1 /\ (Len(rs) + 1) - 1 = Len(rs)
        /\ ~(Len(rs) + 1 <= Len(rs)) /\ (Len(rs) + 1) + 1 .. Len(rs) + 1 = {}
    BY <1>0
  <2> HIDE DEF I
  <2> QED
    BY <2>2, <2>3, <2>4 DEF r
<1>4. CASE I # {}
  <2>1. i = Min(I) /\ I \in SUBSET Nat
    BY <1>1, <1>4
  <2>2. i \in I /\ \A j \in I : i <= j
    BY <1>4, <2>1, MinIs
  <2>3. /\ i \in 1 .. Len(rs) /\ re.metric <= rs[i].metric
        /\ \A j \in 1 .. i - 1 : rs[j].metric < re.metric
    BY <1>0, <2>2
  <2> DEFINE a == SubSeq(rs, 1, i - 1)
             b == SubSeq(rs, i, Len(rs))
  <2>4. r = a \o <<re>> \o b
    <3>1. i # 0
      BY <1>0, <2>3
    <3>2. r = InsertAt(rs, i, re)
      BY <1>2, <3>1
    <3> QED
      BY <3>2 DEF InsertAt
  <2>5. /\ a \in Seq(T) /\ Len(a) = i - 1 /\ \A j \in 1 .. i - 1 : a[j] = rs[j]
        /\ b \in Seq(T) /\ Len(b) = Len(rs) - i + 1
        /\ \A j \in 1 .. Len(rs) - i + 1 : b[j] = rs[j + i - 1]
    BY <1>0, <2>3
  <2> HIDE DEF a, b, I
  <2> DEFINE c == Append(a, re)
             d == c \o b
  <2>6. /\ c \in Seq(T) /\ Len(c) = i /\ c[i] = re /\ \A j \in 1 .. i - 1 : c[j] = rs[j]
    BY <2>3, <2>5, AppendProperties
  <2>7. r = d
    BY <2>4, <2>5, AppendIsConcat
  <2> HIDE DEF c
  <2>8. /\ d \in Seq(T) /\ Len(d) = Len(c) + Len(b)
        /\ \A j \in 1 .. Len(c) + Len(b) : d[j] = IF j <= Len(c) THEN c[j] ELSE b[j - Len(c)]
    <3>1. c \in Seq(T) /\ b \in Seq(T)
      BY <2>5, <2>6
    <3> QED
      BY <3>1, ConcatProperties
  <2> HIDE DEF d
  <2>9. r \in Seq(T) /\ Len(r) = Len(rs) + 1
    BY <1>0, <2>3, <2>5, <2>6, <2>7, <2>8
  <2>10. r[i] = re /\ \A j \in 1 .. i - 1 : r[j] = rs[j]
    <3>1. \A j \in 1 .. i : j \in 1 .. Len(c) + Len(b) /\ j <= Len(c)
      BY <1>0, <2>3, <2>5, <2>6
    <3>2. \A j \in 1 .. i : r[j] = c[j]
      BY <2>7, <2>8, <3>1
    <3>3. i \in 1 .. i /\ \A j \in 1 .. i - 1 : j \in 1 .. i
      BY <2>3
    <3> QED
      BY <2>6, <3>2, <3>3
  <2>11. ASSUME NEW j \in i + 1 .. Len(rs) + 1 PROVE r[j] = rs[j - 1]
    <3>1. j \in 1 .. Len(c) + Len(b) /\ ~(j <= Len(c))
      BY <1>0, <2>3, <2>5, <2>6
    <3>0. j \in Int /\ i \in Int /\ Len(rs) \in Int /\ i + 1 <= j /\ j <= Len(rs) + 1
      BY <1>0, <2>3
    <3>2. j - i \in 1 .. Len(rs) - i + 1 /\ (j - i) + i - 1 = j - 1
      BY ONLY <3>0
    <3>3. r[j] = b[j - i]
      BY <2>6, <2>7, <2>8, <3>1
    <3> QED
      BY <2>5, <3>2, <3>3
  <2>12. i \in 1 .. Len(rs) + 1
    BY <1>0, <2>3
  <2> QED
    BY <2>3, <2>9, <2>10, <2>11, <2>12 DEF r
<1> QED
  BY <1>3, <1>4

\* A route that is inserted is described once more, and the order is kept.
LEMMA DescribedGrows ==
  ASSUME NEW T, \A t \in T : t.metric \in Int, NEW rs \in Seq(T),
         NEW es, NEW places, NEW q, q \notin places, RouteOf(es[q]) \in T,
         Described(rs, es, places)
  PROVE  LET r == Insert(rs, RouteOf(es[q])) IN
         /\ r \in Seq(T)
         /\ Described(r, es, places \cup {q})
         /\ Ascending(rs) => Ascending(r)
<1> DEFINE re == RouteOf(es[q])
           r == Insert(rs, re)
<1>1. PICK p \in 1 .. Len(rs) + 1 :
        /\ r \in Seq(T) /\ Len(r) = Len(rs) + 1 /\ r[p] = re
        /\ \A j \in 1 .. p - 1 : r[j] = rs[j] /\ rs[j].metric < re.metric
        /\ \A j \in p + 1 .. Len(rs) + 1 : r[j] = rs[j - 1]
        /\ p <= Len(rs) => re.metric <= rs[p].metric
  BY InsertedAt
<1>2. PICK f \in Bijection(DOMAIN rs, places) : \A i \in DOMAIN rs : rs[i] = RouteOf(es[f[i]])
  BY DEF Described
<1> HIDE DEF r, re
<1>3. /\ Len(rs) \in Nat /\ DOMAIN rs = 1 .. Len(rs) /\ DOMAIN r = 1 .. Len(rs) + 1
      /\ re.metric \in Int /\ p \in Nat
      /\ \A j \in 1 .. Len(rs) : rs[j].metric \in Int
  BY <1>1 DEF re
<1>4. /\ f \in [1 .. Len(rs) -> places]
      /\ \A i, j \in 1 .. Len(rs) : f[i] = f[j] => i = j
      /\ \A x \in places : \E i \in 1 .. Len(rs) : f[i] = x
  BY <1>2, <1>3 DEF Bijection, Injection, Surjection, IsInjective
\* Where an element of r was in rs.
<1> DEFINE Old(i) == IF i < p THEN i ELSE i - 1
           g == [i \in 1 .. Len(rs) + 1 |-> IF i = p THEN q ELSE f[Old(i)]]
<1>5. \A i \in 1 .. Len(rs) + 1 :
        i # p => Old(i) \in 1 .. Len(rs) /\ r[i] = rs[Old(i)] /\ (i < p <=> Old(i) < p)
  BY <1>1, <1>3
<1>6. \A i, j \in 1 .. Len(rs) + 1 : i # p /\ j # p /\ Old(i) = Old(j) => i = j
  BY <1>3
<1>7. \A k \in 1 .. Len(rs) : \E i \in 1 .. Len(rs) + 1 : i # p /\ Old(i) = k
  <2> SUFFICES ASSUME NEW k \in 1 .. Len(rs)
               PROVE  \E i \in 1 .. Len(rs) + 1 : i # p /\ Old(i) = k
    OBVIOUS
  <2>1. CASE k < p
    <3>1. k \in 1 .. Len(rs) + 1 /\ k # p /\ Old(k) = k
      BY <1>3, <2>1
    <3> QED
      BY <3>1
  <2>2. CASE ~(k < p)
    <3>1. k + 1 \in 1 .. Len(rs) + 1 /\ k + 1 # p /\ Old(k + 1) = k
      BY <1>3, <2>2
    <3> QED
      BY <3>1
  <2> QED
    BY <2>1, <2>2
<1>8. \A i, j \in 1 .. Len(rs) + 1 : i < j /\ i # p /\ j # p => Old(i) < Old(j)
  BY <1>3
<1> HIDE DEF Old
<1>9. Described(r, es, places \cup {q})
  <2>1. g \in [DOMAIN r -> places \cup {q}]
    BY <1>3, <1>4, <1>5
  <2>2. \A i, j \in 1 .. Len(rs) + 1 : g[i] = g[j] => i = j
    <3> SUFFICES ASSUME NEW i \in 1 .. Len(rs) + 1, NEW j \in 1 .. Len(rs) + 1, g[i] = g[j]
                 PROVE  i = j
      OBVIOUS
    <3>1. CASE i = p \/ j = p
      <4>1. \A k \in 1 .. Len(rs) + 1 : k # p => g[k] # q
        BY <1>4, <1>5
      <4> QED
        BY <3>1, <4>1
    <3>2. CASE i # p /\ j # p
      <4>1. f[Old(i)] = f[Old(j)]
        BY <3>2
      <4> QED
        BY <1>4, <1>5, <1>6, <3>2, <4>1
    <3> QED
      BY <3>1, <3>2
  <2>3. \A x \in places \cup {q} : \E i \in 1 .. Len(rs) + 1 : g[i] = x
    <3> SUFFICES ASSUME NEW x \in places \cup {q} PROVE \E i \in 1 .. Len(rs) + 1 : g[i] = x
      OBVIOUS
    <3>1. CASE x = q
      BY <3>1
    <3>2. CASE x \in places
      <4>1. PICK k \in 1 .. Len(rs) : f[k] = x
        BY <1>4, <3>2
      <4>2. PICK i \in 1 .. Len(rs) + 1 : i # p /\ Old(i) = k
        BY <1>7
      <4> QED
        BY <4>1, <4>2
    <3> QED
      BY <3>1, <3>2
  <2>4. \A i \in DOMAIN r : r[i] = RouteOf(es[g[i]])
    BY <1>1, <1>2, <1>3, <1>5 DEF re
  <2> HIDE DEF g
  <2>5. g \in Bijection(DOMAIN r, places \cup {q})
    BY <1>3, <2>1, <2>2, <2>3 DEF Bijection, Injection, Surjection, IsInjective
  <2> QED
    BY <2>4, <2>5 DEF Described
<1>10. ASSUME Ascending(rs), NEW i \in DOMAIN r, NEW j \in DOMAIN r, i < j
       PROVE  r[i].metric <= r[j].metric
  <2>1. \A m, n \in 1 .. Len(rs) : m < n => rs[m].metric <= rs[n].metric
    BY <1>3, <1>10 DEF Ascending
  <2>2. CASE i # p /\ j # p
    BY <1>3, <1>5, <1>8, <1>10, <2>1, <2>2
  <2>3. CASE i = p
    <3>1. Old(j) \in p .. Len(rs) /\ r[j] = rs[Old(j)]
      BY <1>3, <1>5, <1>10, <2>3
    <3>2. p \in 1 .. Len(rs) /\ re.metric <= rs[p].metric
      BY <1>1, <1>3, <3>1
    <3>3. rs[p].metric <= rs[Old(j)].metric
      BY <1>3, <2>1, <3>1, <3>2
    <3> QED
      BY <1>1, <1>3, <2>3, <3>1, <3>2, <3>3
  <2>4. CASE j = p
    BY <1>1, <1>3, <1>10, <2>4
  <2> QED
    BY <2>2, <2>3, <2>4
<1> QED
  BY <1>1, <1>9, <1>10 DEF Ascending, r, re

\* What the assumption and the type say of the element that a pass comes to.
LEMMA ChildIs ==
  ASSUME ConfigAssumption, ConfigTypeOK
  PROVE  /\ Len(file) \in Nat /\ DOMAIN file = 1 .. Len(file) /\ child \in Nat /\ child > 0
         /\ file \in Seq(XmlElements)
         /\ \A i \in 1 .. Len(file) :
              /\ file[i] \in XmlElements
              /\ file[i].tag = "Realm" =>
                   /\ Len(file[i].children) \in Nat
                   /\ DOMAIN file[i].children = 1 .. Len(file[i].children)
                   /\ \A k \in 1 .. Len(file[i].children) : RouteOf(file[i].children[k]) \in AllRoutes
              /\ file[i].tag = "DefaultRoute" => RouteOf(file[i]) \in AllRoutes
         /\ \A x \in AllRoutes : x.metric \in Int
<1>1. PICK n \in 0 .. MaxElements : file \in [1 .. n -> XmlElements]
  BY DEF ConfigTypeOK, Files
<1>2. file \in Seq(XmlElements) /\ Len(file) = n /\ n \in Nat
  BY <1>1, ConfigAssumption
<1>3. child \in Nat /\ child > 0
  BY <1>2 DEF ConfigTypeOK
<1>4. ASSUME NEW e \in XmlElements, e.tag = "Realm"
      PROVE  /\ Len(e.children) \in Nat /\ DOMAIN e.children = 1 .. Len(e.children)
             /\ \A k \in 1 .. Len(e.children) : RouteOf(e.children[k]) \in AllRoutes
  <2>1. Len(e.children) \in Nat /\ DOMAIN e.children = 1 .. Len(e.children)
    BY <1>4, ConfigAssumption
  <2>2. \A k \in 1 .. Len(e.children) : e.children[k] \in RouteElements
    BY <1>4, <2>1 DEF RouteElements, Range
  <2> QED
    BY <2>1, <2>2 DEF AllRoutes
<1>5. \A e \in XmlElements : e.tag = "DefaultRoute" => RouteOf(e) \in AllRoutes
  BY DEF AllRoutes, RouteElements
<1>6. \A x \in AllRoutes : x.metric \in Int
  BY ConfigAssumption DEF AllRoutes, RouteOf
<1>7. \A i \in 1 .. Len(file) : file[i] \in XmlElements
  BY <1>1, <1>2
<1> QED
  BY <1>1, <1>2, <1>3, <1>4, <1>5, <1>6, <1>7

LEMMA ConfigTypeStep ==
  ASSUME ConfigAssumption, ConfigTypeOK, [ConfigNext]_configVars
  PROVE  ConfigTypeOK'
<1>0. /\ Len(file) \in Nat /\ child \in Nat /\ child > 0
      /\ \A i \in 1 .. Len(file) : file[i] \in XmlElements
  BY ChildIs
<1>1. ASSUME child <= Len(file)
      PROVE  child \in 1 .. Len(file) /\ child + 1 \in 1 .. Len(file) + 1 /\ Child \in XmlElements
  <2>1. child \in 1 .. Len(file)
    BY <1>0, <1>1
  <2> QED
    BY <1>0, <2>1 DEF Child
<1> USE DEF ConfigTypeOK
<1>2. CASE Count
  <2>1. sizes' \in [Arrays -> Nat]
    BY <1>2 DEF Count
  <2>2. nephew = 0
    BY <1>2 DEF Count
  <2> QED
    BY <1>1, <1>2, <2>1, <2>2 DEF Count
<1>3. CASE AllocateArrays
  <2>1. nephew = 0 /\ 1 \in 1 .. Len(file) + 1
    BY <1>0, <1>3 DEF AllocateArrays
  <2> QED
    BY <1>3, <2>1 DEF AllocateArrays
<1>4. ASSUME NEW a \in Arrays, NEW entry \in Entries, Fill(a, entry), child <= Len(file), nephew = 0
      PROVE  ConfigTypeOK'
  <2>1. config' \in [Arrays -> Seq(Entries)]
    BY <1>4 DEF Fill
  <2> QED
    BY <1>1, <1>4, <2>1 DEF Fill
<1>5. CASE ReadPeer
  <2>1. Child \in Of({"Peer"}) /\ child <= Len(file) /\ nephew = 0
    BY <1>1, <1>5 DEF ReadPeer, Meets, Of
  <2>2. [fqdn |-> Trimmed(Child.fqdn), realm |-> Trimmed(Child.realm)] \in Entries
    BY <2>1 DEF Entries
  <2> QED
    BY <1>4, <1>5, <2>1, <2>2 DEF ReadPeer, Arrays
<1>6. CASE ReadAcceptor
  <2>1. Child \in Of({"Acceptor"}) /\ child <= Len(file) /\ nephew = 0
    BY <1>1, <1>6 DEF ReadAcceptor, Meets, Of
  <2>2. [bind |-> Trimmed(Child.bind), port |-> Child.port] \in Entries
    BY <2>1 DEF Entries
  <2> QED
    BY <1>4, <1>6, <2>1, <2>2 DEF ReadAcceptor, Arrays
<1>7. CASE ReadApplication
  <2>1. Child \in Of({"Auth", "Acct"}) /\ child <= Len(file) /\ nephew = 0
    BY <1>1, <1>7 DEF ReadApplication, Meets, Of
  <2>2. [id |-> Child.id, vendor |-> Child.vendor,
         type |-> IF Child.tag = "Auth" THEN "auth" ELSE "acct"] \in Entries
    BY <2>1 DEF Entries
  <2> QED
    BY <1>4, <1>7, <2>1, <2>2 DEF ReadApplication, Arrays
<1>8. CASE ReadDefaultRoute
  <2>1. child \in 1 .. Len(file) /\ Child.tag = "DefaultRoute" /\ nephew = 0
    BY <1>1, <1>8 DEF ReadDefaultRoute, Meets
  <2>2. RouteOf(Child) \in AllRoutes /\ \A x \in AllRoutes : x.metric \in Int
    BY <2>1, ChildIs DEF Child
  <2>3. routes' \in Seq(AllRoutes)
    BY <1>8, <2>2, InsertedAt DEF ReadDefaultRoute
  <2> QED
    BY <1>1, <1>8, <2>1, <2>3 DEF ReadDefaultRoute
<1>9. CASE ReadRealm
  <2>1. /\ child \in 1 .. Len(file) /\ child <= Len(file) /\ Child.tag = "Realm" /\ Child \in XmlElements
        /\ pass = "read"
    BY <1>1, <1>9 DEF ReadRealm, Meets
  <2>2. [realm |-> Trimmed(Child.name), routes |-> <<>>] \in AllRealms
    BY <2>1, EmptySeq DEF AllRealms, Of
  <2>3. realms' \in Seq(AllRealms)
    BY <1>9, <2>2, AppendProperties DEF ReadRealm
  <2>4. Len(Child.children) \in Nat
    BY <2>1, ChildIs DEF Child
  <2>5. nephew' \in Nat /\ nephew' <= Len(Child.children) + 1
    BY <1>9, <2>4 DEF ReadRealm
  <2> QED
    BY <1>9, <2>1, <2>3, <2>5 DEF ReadRealm, Child
<1>10. CASE ReadRoute
  <2>1. /\ pass = "read" /\ child <= Len(file) /\ Child.tag = "Realm" /\ child \in 1 .. Len(file)
        /\ nephew \in Nat
    BY <1>1, <1>10 DEF ReadRoute
  <2>2. /\ Len(Child.children) \in Nat /\ \A x \in AllRoutes : x.metric \in Int
        /\ \A k \in 1 .. Len(Child.children) : RouteOf(Child.children[k]) \in AllRoutes
    BY <2>1, ChildIs DEF Child
  <2>3. nephew \in 1 .. Len(Child.children) /\ nephew' = nephew + 1
        /\ nephew' <= Len(Child.children) + 1
    BY <1>10, <2>1, <2>2 DEF ReadRoute
  <2>4. realms' \in Seq(AllRealms)
    <3>1. CASE Len(realms) \in DOMAIN realms
      <4>1. realms[Len(realms)] \in AllRealms
        BY <3>1
      <4>2. realms[Len(realms)].routes \in Seq(AllRoutes)
        BY <4>1 DEF AllRealms
      <4>3. Insert(realms[Len(realms)].routes, RouteOf(Child.children[nephew])) \in Seq(AllRoutes)
        BY <2>2, <2>3, <4>2, InsertedAt
      <4>4. [realms[Len(realms)] EXCEPT !.routes =
               Insert(realms[Len(realms)].routes, RouteOf(Child.children[nephew]))] \in AllRealms
        BY <4>1, <4>3 DEF AllRealms
      <4>5. realms' = [realms EXCEPT ![Len(realms)] =
              [realms[Len(realms)] EXCEPT !.routes =
                 Insert(realms[Len(realms)].routes, RouteOf(Child.children[nephew]))]]
        BY <1>10 DEF ReadRoute
      <4> QED
        BY ONLY realms \in Seq(AllRealms), <3>1, <4>4, <4>5
    <3>2. CASE Len(realms) \notin DOMAIN realms
      <4>1. realms' = realms
        BY <1>10, <3>2 DEF ReadRoute
      <4> QED
        BY <4>1
    <3> QED
      BY <3>1, <3>2
  <2>5. UNCHANGED <<file, pass, child, config, sizes, routes>>
    BY <1>10 DEF ReadRoute
  <2> QED
    BY <2>1, <2>3, <2>4, <2>5 DEF Child
<1>11. CASE EndRealm
  BY <1>1, <1>11 DEF EndRealm
<1>12. CASE ReadOther
  BY <1>1, <1>12 DEF ReadOther
<1>13. CASE UNCHANGED configVars
  BY <1>13 DEF configVars, Child
<1> QED
  BY <1>2, <1>3, <1>5, <1>6, <1>7, <1>8, <1>9, <1>10, <1>11, <1>12, <1>13 DEF ConfigNext

\* One more element is counted where it belongs.
LEMMA OneMore ==
  ASSUME NEW a, NEW n \in Nat
  PROVE  /\ IsFiniteSet(ToCount(a, n)) /\ Cardinality(ToCount(a, n)) \in Nat
         /\ Cardinality(ToCount(a, n + 1)) =
              IF ArrayOf(file[n + 1].tag) = a THEN Cardinality(ToCount(a, n)) + 1
              ELSE Cardinality(ToCount(a, n))
<1>1. IsFiniteSet(1 .. n) /\ ToCount(a, n) \in SUBSET (1 .. n)
  BY FS_Interval DEF ToCount
<1>2. IsFiniteSet(ToCount(a, n)) /\ Cardinality(ToCount(a, n)) \in Nat
  BY <1>1, FS_Subset, FS_CardinalityType
<1>3. ToCount(a, n + 1) =
        IF ArrayOf(file[n + 1].tag) = a THEN ToCount(a, n) \cup {n + 1} ELSE ToCount(a, n)
  BY DEF ToCount
<1>4. n + 1 \notin ToCount(a, n)
  BY <1>1
<1> QED
  BY <1>2, <1>3, <1>4, FS_AddElement

LEMMA CountStep ==
  ASSUME ConfigAssumption, ConfigTypeOK, CountedOK, [ConfigNext]_configVars
  PROVE  CountedOK'
<1>0. /\ Len(file) \in Nat /\ child \in Nat /\ child > 0 /\ child - 1 \in Nat
      /\ (child - 1) + 1 = child /\ (child + 1) - 1 = child
  BY ChildIs
<1>1. ASSUME NEW a \in Arrays
      PROVE  Cardinality(ToCount(a, child)) =
               IF ArrayOf(Child.tag) = a THEN Cardinality(ToCount(a, child - 1)) + 1
               ELSE Cardinality(ToCount(a, child - 1))
  BY <1>0, OneMore DEF Child
<1>2. UNCHANGED file => \A a, n : ToCount(a, n)' = ToCount(a, n)
  BY DEF ToCount
<1>3. CASE Count
  <2>1. /\ pass = "count" /\ pass' = "count" /\ UNCHANGED <<file, config>> /\ child' = child + 1
        /\ sizes' = IF ArrayOf(Child.tag) \in Arrays
                    THEN [sizes EXCEPT ![ArrayOf(Child.tag)] = @ + 1] ELSE sizes
    BY <1>3 DEF Count
  <2>2. ASSUME NEW a \in Arrays
        PROVE  sizes'[a] = Cardinality(ToCount(a, child)) /\ Len(config'[a]) = 0
    <3>1. sizes[a] = Cardinality(ToCount(a, child - 1)) /\ Len(config[a]) = 0
      BY <2>1 DEF CountedOK
    <3>2. sizes'[a] = IF ArrayOf(Child.tag) = a THEN sizes[a] + 1 ELSE sizes[a]
      BY <2>1 DEF ConfigTypeOK
    <3> QED
      BY <1>1, <2>1, <3>1, <3>2
  <2> QED
    BY <1>0, <1>2, <2>1, <2>2 DEF CountedOK
<1>4. CASE AllocateArrays
  <2>1. /\ pass = "count" /\ pass' = "read" /\ UNCHANGED <<file, config, sizes>>
        /\ child' = 1 /\ child > Len(file)
    BY <1>4 DEF AllocateArrays
  <2>2. child - 1 = Len(file)
    BY <1>0, <2>1 DEF ConfigTypeOK
  <2>3. \A a \in Arrays : Cardinality(ToCount(a, 0)) = 0
    BY FS_EmptySet DEF ToCount
  <2>4. child' - 1 = 0
    BY <2>1
  <2>5. \A a \in Arrays : sizes[a] = Cardinality(ToCount(a, Len(file))) /\ Len(config[a]) = 0
    BY <2>1, <2>2 DEF CountedOK
  <2>6. \A a \in Arrays :
          /\ sizes'[a] = Cardinality(ToCount(a, Len(file))')
          /\ Len(config'[a]) = Cardinality(ToCount(a, 0)')
    BY <1>2, <2>1, <2>3, <2>5
  <2> QED
    BY <2>1, <2>4, <2>6 DEF CountedOK, ToCount
\* The second pass goes on: what it puts into the arrays is what it passes.
<1>5. ASSUME pass = "read", UNCHANGED <<file, pass, sizes>>, child' = child + 1,
             \A a \in Arrays :
               Len(config'[a]) = IF ArrayOf(Child.tag) = a THEN Len(config[a]) + 1 ELSE Len(config[a])
      PROVE  CountedOK'
  <2>1. ASSUME NEW a \in Arrays
        PROVE  /\ sizes'[a] = Cardinality(ToCount(a, Len(file)))
               /\ Len(config'[a]) = Cardinality(ToCount(a, child))
    <3>1. sizes[a] = Cardinality(ToCount(a, Len(file))) /\ Len(config[a]) = Cardinality(ToCount(a, child - 1))
      BY <1>5 DEF CountedOK
    <3> QED
      BY <1>1, <1>5, <3>1
  <2> QED
    BY <1>0, <1>2, <1>5, <2>1 DEF CountedOK
<1>6. ASSUME NEW a \in Arrays, NEW entry, Fill(a, entry), pass = "read", ArrayOf(Child.tag) = a
      PROVE  CountedOK'
  <2>1. config' = [config EXCEPT ![a] = Append(@, entry)]
    BY <1>6 DEF Fill
  <2>2. Len(Append(config[a], entry)) = Len(config[a]) + 1
    BY DEF ConfigTypeOK
  <2>3. \A b \in Arrays : Len(config'[b]) = IF a = b THEN Len(config[b]) + 1 ELSE Len(config[b])
    BY <2>1, <2>2 DEF ConfigTypeOK
  <2> QED
    BY <1>5, <1>6, <2>3 DEF Fill
<1>7. CASE ReadPeer
  BY <1>6, <1>7 DEF ReadPeer, Meets, ArrayOf, Arrays
<1>8. CASE ReadAcceptor
  BY <1>6, <1>8 DEF ReadAcceptor, Meets, ArrayOf, Arrays
<1>9. CASE ReadApplication
  BY <1>6, <1>9 DEF ReadApplication, Meets, ArrayOf, Arrays
<1>10. CASE ReadDefaultRoute \/ ReadOther
  <2>1. /\ pass = "read" /\ UNCHANGED <<file, pass, sizes, config>> /\ child' = child + 1
        /\ Child.tag \notin {"Peer", "Acceptor", "Auth", "Acct"}
    BY <1>10 DEF ReadDefaultRoute, ReadOther, Meets
  <2>2. ArrayOf(Child.tag) \notin Arrays
    BY <2>1 DEF ArrayOf, Arrays
  <2> QED
    BY <1>5, <2>1, <2>2
<1>11. CASE EndRealm
  <2>1. /\ pass = "read" /\ UNCHANGED <<file, pass, sizes, config>> /\ child' = child + 1
        /\ Child.tag = "Realm"
    BY <1>11 DEF EndRealm, ConfigTypeOK
  <2>2. ArrayOf(Child.tag) \notin Arrays
    BY <2>1 DEF ArrayOf, Arrays
  <2> QED
    BY <1>5, <2>1, <2>2
<1>12. CASE ReadRealm \/ ReadRoute \/ UNCHANGED configVars
  <2>1. UNCHANGED <<file, pass, child, sizes, config>>
    BY <1>12 DEF ReadRealm, ReadRoute, configVars
  <2> QED
    BY <2>1 DEF CountedOK, ToCount
<1> QED
  BY <1>3, <1>4, <1>7, <1>8, <1>9, <1>10, <1>11, <1>12 DEF ConfigNext

\* What the second pass has met grows by the element that it leaves.
LEMMA MetGrows ==
  ASSUME ConfigAssumption, ConfigTypeOK, NEW t, pass = "read", nephew = 0, nephew' = 0,
         child <= Len(file), child' = child + 1, UNCHANGED <<file, pass>>
  PROVE  /\ Met(t)' = IF Child.tag = t THEN Met(t) \cup {child} ELSE Met(t)
         /\ child \notin Met(t)
<1>1. Len(file) \in Nat /\ child \in 1 .. Len(file)
  BY ChildIs
<1> QED
  BY <1>1 DEF Met, Child

\* What may change while neither list of routes does.
Passes ==
  /\ UNCHANGED <<file, realms, routes>>
  /\ \A t \in {"DefaultRoute", "Realm"} : Met(t)' = Met(t)
  /\ \A i \in Met("Realm") : MetIn(i)' = MetIn(i)

LEMMA WhatPasses ==
  ASSUME ConfigAssumption, ConfigTypeOK,
         \/ Count \/ AllocateArrays \/ ReadPeer \/ ReadAcceptor \/ ReadApplication \/ ReadOther
         \/ EndRealm \/ UNCHANGED configVars
  PROVE  Passes
<1>0. Len(file) \in Nat /\ child \in Nat /\ child > 0 /\ nephew \in Nat
  BY ChildIs DEF ConfigTypeOK
<1>1. CASE Count \/ AllocateArrays
  <2>1. /\ UNCHANGED <<file, realms, routes, nephew>> /\ pass = "count" /\ nephew = 0
        /\ pass' = "count" \/ child' = 1
    BY <1>1 DEF Count, AllocateArrays, ConfigTypeOK
  <2>2. \A t : Met(t) = {} /\ Met(t)' = {}
    BY <2>1 DEF Met
  <2> QED
    BY <2>1, <2>2 DEF Passes
<1>2. CASE ReadPeer \/ ReadAcceptor \/ ReadApplication \/ ReadOther
  <2>1. /\ pass = "read" /\ nephew = 0 /\ nephew' = 0 /\ child <= Len(file) /\ child' = child + 1
        /\ UNCHANGED <<file, pass, realms, routes>> /\ Child.tag \notin {"DefaultRoute", "Realm"}
    BY <1>2 DEF ReadPeer, ReadAcceptor, ReadApplication, ReadOther, Fill, Meets
  <2>2. \A t \in {"DefaultRoute", "Realm"} : Met(t)' = Met(t)
    BY <2>1, MetGrows
  <2>3. \A i \in Met("Realm") : i < child
    BY <1>0, <2>1 DEF Met
  <2>4. \A i \in Met("Realm") : MetIn(i)' = MetIn(i)
    <3>1. \A i \in Met("Realm") : i # child /\ i # child' /\ i \in Nat
      BY <1>0, <2>1, <2>3 DEF Met
    <3> QED
      BY <2>1, <3>1 DEF MetIn
  <2> QED
    BY <2>1, <2>2, <2>4 DEF Passes
<1>3. CASE EndRealm
  <2>1. /\ pass = "read" /\ nephew > 0 /\ nephew' = 0 /\ child' = child + 1 /\ Child.tag = "Realm"
        /\ UNCHANGED <<file, pass, realms, routes>> /\ child \in 1 .. Len(file)
        /\ nephew > Len(Child.children) /\ nephew <= Len(Child.children) + 1
    BY <1>0, <1>3 DEF EndRealm, ConfigTypeOK
  <2>2. Len(Child.children) \in Nat /\ DOMAIN Child.children = 1 .. Len(Child.children)
    BY <2>1, ChildIs DEF Child
  <2>3. nephew = Len(Child.children) + 1
    BY <1>0, <2>1, <2>2
  <2>4. \A t \in {"DefaultRoute", "Realm"} : Met(t)' = Met(t)
    BY <1>0, <2>1 DEF Met, Child
  <2>5. MetIn(child) = DOMAIN file[child].children
    BY <2>2, <2>3 DEF MetIn, Child
  <2>6. ASSUME NEW i \in Met("Realm") PROVE MetIn(i)' = MetIn(i)
    <3>1. i \in 1 .. Len(file) /\ i <= child
      BY <1>0, <2>1 DEF Met
    <3>2. i # child' /\ MetIn(i)' = DOMAIN file[i].children
      BY <1>0, <2>1, <3>1 DEF MetIn
    <3> QED
      BY <2>5, <3>2 DEF MetIn
  <2> QED
    BY <2>1, <2>4, <2>6 DEF Passes
<1>4. CASE UNCHANGED configVars
  BY <1>4 DEF configVars, Passes, Met, MetIn
<1> QED
  BY <1>1, <1>2, <1>3, <1>4

LEMMA DefaultsStep ==
  ASSUME ConfigAssumption, ConfigTypeOK, DefaultsSound, [ConfigNext]_configVars
  PROVE  DefaultsSound'
<1>0. Len(file) \in Nat /\ child \in Nat /\ nephew \in Nat
  BY ChildIs DEF ConfigTypeOK
<1>1. CASE Passes
  BY <1>1 DEF Passes, DefaultsSound
<1>2. CASE ReadRealm \/ ReadRoute
  <2>1. /\ UNCHANGED <<file, pass, child, routes>> /\ pass = "read" /\ Child.tag = "Realm"
    BY <1>0, <1>2 DEF ReadRealm, ReadRoute, Meets, ConfigTypeOK
  <2>2. Met("DefaultRoute")' = Met("DefaultRoute")
    BY <2>1 DEF Met, Child
  <2> QED
    BY <2>1, <2>2 DEF DefaultsSound
<1>3. CASE ReadDefaultRoute
  <2>1. /\ pass = "read" /\ nephew = 0 /\ nephew' = 0 /\ child <= Len(file) /\ child' = child + 1
        /\ UNCHANGED <<file, pass>> /\ Child.tag = "DefaultRoute"
        /\ routes' = Insert(routes, RouteOf(Child))
    BY <1>3 DEF ReadDefaultRoute, Meets
  <2>2. /\ Met("DefaultRoute")' = Met("DefaultRoute") \cup {child}
        /\ child \notin Met("DefaultRoute")
    BY <2>1, MetGrows
  <2>3. /\ RouteOf(file[child]) \in AllRoutes /\ \A x \in AllRoutes : x.metric \in Int
        /\ routes \in Seq(AllRoutes)
    <3>1. child \in 1 .. Len(file) /\ file[child].tag = "DefaultRoute"
      BY <1>0, <2>1 DEF Child, ConfigTypeOK
    <3> QED
      BY <3>1, ChildIs DEF ConfigTypeOK
  <2>4. /\ Described(routes', file, Met("DefaultRoute") \cup {child})
        /\ Ascending(routes')
    BY <2>1, <2>2, <2>3, DescribedGrows DEF DefaultsSound, Child
  <2> QED
    BY <2>1, <2>2, <2>4 DEF DefaultsSound
<1> QED
  BY <1>1, <1>2, <1>3, WhatPasses DEF ConfigNext

\* The Realm that the second pass is in is the last of the list.
LEMMA LastIsOpen ==
  ASSUME ConfigAssumption, ConfigTypeOK, nephew > 0,
         NEW f \in Bijection(DOMAIN realms, Met("Realm")),
         \A i, j \in DOMAIN realms : i < j => f[i] < f[j]
  PROVE  /\ Len(realms) \in DOMAIN realms /\ f[Len(realms)] = child
         /\ \A k \in DOMAIN realms : k # Len(realms) => f[k] # child
<1>1. /\ Len(file) \in Nat /\ child \in 1 .. Len(file) /\ Child.tag = "Realm" /\ pass = "read"
      /\ DOMAIN realms = 1 .. Len(realms) /\ Len(realms) \in Nat
  BY ChildIs DEF ConfigTypeOK
<1>2. child \in Met("Realm") /\ \A i \in Met("Realm") : i \in Nat /\ i <= child
  BY <1>1 DEF Met, Child
<1>3. /\ f \in [DOMAIN realms -> Met("Realm")]
      /\ \A i, j \in DOMAIN realms : f[i] = f[j] => i = j
      /\ \A x \in Met("Realm") : \E i \in DOMAIN realms : f[i] = x
  BY DEF Bijection, Injection, Surjection, IsInjective
<1>4. PICK k \in DOMAIN realms : f[k] = child
  BY <1>2, <1>3
<1>5. k = Len(realms)
  <2>1. SUFFICES ASSUME k < Len(realms) PROVE FALSE
    BY <1>1
  <2>2. Len(realms) \in DOMAIN realms
    BY <1>1
  <2>3. f[k] < f[Len(realms)] /\ f[Len(realms)] \in Met("Realm")
    BY <1>3, <2>1, <2>2
  <2>4. f[Len(realms)] \in Nat /\ f[Len(realms)] <= child /\ child \in Nat /\ child < f[Len(realms)]
    BY <1>2, <1>4, <2>3
  <2> QED
    BY ONLY <2>4
<1> QED
  BY <1>3, <1>4, <1>5

LEMMA RealmsStep ==
  ASSUME ConfigAssumption, ConfigTypeOK, RealmsSound, [ConfigNext]_configVars
  PROVE  RealmsSound'
<1>0. /\ Len(file) \in Nat /\ child \in Nat /\ nephew \in Nat /\ realms \in Seq(AllRealms)
      /\ DOMAIN realms = 1 .. Len(realms) /\ Len(realms) \in Nat
  BY ChildIs DEF ConfigTypeOK
<1>1. PICK f \in Bijection(DOMAIN realms, Met("Realm")) :
        /\ \A i, j \in DOMAIN realms : i < j => f[i] < f[j]
        /\ \A k \in DOMAIN realms :
             /\ realms[k].realm = Trimmed(file[f[k]].name)
             /\ Ascending(realms[k].routes)
             /\ Described(realms[k].routes, file[f[k]].children, MetIn(f[k]))
  BY DEF RealmsSound
<1>2. /\ f \in [1 .. Len(realms) -> Met("Realm")]
      /\ \A i, j \in 1 .. Len(realms) : f[i] = f[j] => i = j
      /\ \A x \in Met("Realm") : \E i \in 1 .. Len(realms) : f[i] = x
  BY <1>0, <1>1 DEF Bijection, Injection, Surjection, IsInjective
<1>3. CASE Passes
  <2>1. \A k \in DOMAIN realms : MetIn(f[k])' = MetIn(f[k])
    BY <1>0, <1>2, <1>3 DEF Passes
  <2> QED
    BY <1>1, <1>3, <2>1 DEF Passes, RealmsSound
<1>4. CASE ReadDefaultRoute
  <2>1. /\ pass = "read" /\ nephew = 0 /\ nephew' = 0 /\ child <= Len(file) /\ child' = child + 1
        /\ UNCHANGED <<file, pass, realms>> /\ Child.tag = "DefaultRoute"
    BY <1>4 DEF ReadDefaultRoute, Meets
  <2>2. Met("Realm")' = Met("Realm")
    BY <2>1, MetGrows
  <2>3. \A i \in Met("Realm") : i # child /\ i # child'
    BY <1>0, <2>1 DEF Met, Child
  <2>4. \A k \in DOMAIN realms : MetIn(f[k])' = MetIn(f[k])
    BY <1>0, <1>2, <2>1, <2>3 DEF MetIn
  <2> QED
    BY <1>1, <2>1, <2>2, <2>4 DEF RealmsSound
<1>5. CASE ReadRealm
  <2>1. /\ pass = "read" /\ nephew = 0 /\ nephew' = 1 /\ child \in 1 .. Len(file)
        /\ UNCHANGED <<file, pass, child>> /\ Child.tag = "Realm"
        /\ realms' = Append(realms, [realm |-> Trimmed(Child.name), routes |-> <<>>])
    BY <1>0, <1>5 DEF ReadRealm, Meets, ConfigTypeOK
  <2>2. /\ Met("Realm")' = Met("Realm") \cup {child}
        /\ \A i \in Met("Realm") : i \in Nat /\ i < child
    BY <1>0, <2>1 DEF Met, Child
  <2>3. /\ DOMAIN realms' = 1 .. Len(realms) + 1
        /\ \A k \in 1 .. Len(realms) : realms'[k] = realms[k]
        /\ realms'[Len(realms) + 1] = [realm |-> Trimmed(Child.name), routes |-> <<>>]
    BY <1>0, <2>1
  <2>0. PICK g : g = [k \in 1 .. Len(realms) + 1 |-> IF k = Len(realms) + 1 THEN child ELSE f[k]]
    OBVIOUS
  <2>4. /\ g \in [1 .. Len(realms) + 1 -> Met("Realm")'] /\ g[Len(realms) + 1] = child
        /\ \A k \in 1 .. Len(realms) : g[k] = f[k] /\ f[k] \in Met("Realm") /\ f[k] \in Nat /\ f[k] < child
    <3>1. \A k \in 1 .. Len(realms) : f[k] \in Met("Realm") /\ f[k] \in Nat /\ f[k] < child
      BY <1>2, <2>2
    <3>2. \A k \in 1 .. Len(realms) : k \in 1 .. Len(realms) + 1 /\ k # Len(realms) + 1
      BY <1>0
    <3>3. \A k \in 1 .. Len(realms) : g[k] = f[k]
      BY <2>0, <3>2
    <3>4. Len(realms) + 1 \in 1 .. Len(realms) + 1
      BY <1>0
    <3>5. g[Len(realms) + 1] = child
      BY <2>0, <3>4
    <3>6. \A k \in 1 .. Len(realms) + 1 : k \in 1 .. Len(realms) \/ k = Len(realms) + 1
      BY <1>0
    <3>7. \A k \in 1 .. Len(realms) + 1 : g[k] \in Met("Realm")'
      BY <2>2, <3>1, <3>3, <3>5, <3>6
    <3> QED
      BY <2>0, <3>1, <3>3, <3>5, <3>7
  <2>5. \A i \in 1 .. Len(realms) + 1 : i \in 1 .. Len(realms) \/ i = Len(realms) + 1
    BY <1>0
  <2>6. \A i, j \in 1 .. Len(realms) + 1 : i < j => g[i] < g[j]
    <3> SUFFICES ASSUME NEW i \in 1 .. Len(realms) + 1, NEW j \in 1 .. Len(realms) + 1, i < j
                 PROVE  g[i] < g[j]
      OBVIOUS
    <3>1. i \in 1 .. Len(realms)
      BY <1>0
    <3> QED
      BY <1>0, <1>1, <2>4, <2>5, <3>1
  <2>7. \A i, j \in 1 .. Len(realms) + 1 : g[i] = g[j] => i = j
    <3>1. \A i \in 1 .. Len(realms) + 1 : i \in Nat /\ g[i] \in Nat
      BY <1>0, <2>1, <2>4, <2>5
    <3> QED
      BY <2>6, <3>1
  <2>8. \A x \in Met("Realm")' : \E i \in 1 .. Len(realms) + 1 : g[i] = x
    <3>1. Len(realms) + 1 \in 1 .. Len(realms) + 1 /\ \A k \in 1 .. Len(realms) : k \in 1 .. Len(realms) + 1
      BY <1>0
    <3> QED
      BY <1>2, <2>2, <2>4, <3>1
  <2>9. g \in Bijection(DOMAIN realms', Met("Realm")')
    BY <2>3, <2>4, <2>7, <2>8 DEF Bijection, Injection, Surjection, IsInjective
  <2>10. Ascending(<<>>) /\ Described(<<>>, file[child].children, {})
    <3>1. DOMAIN <<>> = {}
      OBVIOUS
    <3>2. [x \in {} |-> x] \in Bijection({}, {})
      BY DEF Bijection, Injection, Surjection, IsInjective
    <3> QED
      BY <3>1, <3>2 DEF Ascending, Described
  <2> DEFINE Then(i) == IF i = child THEN {} ELSE DOMAIN file[i].children
  <2>11. /\ \A i : MetIn(i)' = Then(i)
         /\ Then(child) = {} /\ \A i \in Met("Realm") : Then(i) = MetIn(i)
    BY <2>1, <2>2 DEF MetIn
  <2> HIDE DEF Then
  <2>12. ASSUME NEW k \in DOMAIN realms'
         PROVE  /\ realms'[k].realm = Trimmed(file[g[k]].name)
                /\ Ascending(realms'[k].routes)
                /\ Described(realms'[k].routes, file[g[k]].children, Then(g[k]))
    <3>1. CASE k \in 1 .. Len(realms)
      BY <1>0, <1>1, <2>3, <2>4, <2>11, <3>1
    <3>2. CASE k = Len(realms) + 1
      <4>1. realms'[k].realm = Trimmed(Child.name) /\ realms'[k].routes = <<>> /\ g[k] = child
        BY <2>3, <2>4, <3>2
      <4> QED
        BY <2>10, <2>11, <4>1 DEF Child
    <3> QED
      BY <2>3, <2>5, <3>1, <3>2
  <2>13. \A k \in DOMAIN realms' :
           /\ realms'[k].realm = Trimmed(file'[g[k]].name)
           /\ Ascending(realms'[k].routes)
           /\ Described(realms'[k].routes, file'[g[k]].children, MetIn(g[k])')
    BY <2>1, <2>11, <2>12
  <2>14. \A i, j \in DOMAIN realms' : i < j => g[i] < g[j]
    BY <2>3, <2>6
  <2> QED
    BY <2>9, <2>13, <2>14 DEF RealmsSound
<1>6. CASE ReadRoute
  <2> DEFINE n == Len(realms)
             rs == Insert(realms[n].routes, RouteOf(file[child].children[nephew]))
             Then(i) == IF i = child THEN 1 .. nephew ELSE DOMAIN file[i].children
  <2>1. /\ nephew > 0 /\ nephew' = nephew + 1 /\ nephew <= Len(Child.children)
        /\ UNCHANGED <<file, pass, child>> /\ pass = "read" /\ Child.tag = "Realm"
        /\ child \in 1 .. Len(file)
        /\ realms' = [realms EXCEPT ![n] = [realms[n] EXCEPT !.routes = rs]]
    BY <1>0, <1>6 DEF ReadRoute, ConfigTypeOK, Child
  <2>2. /\ n \in DOMAIN realms /\ f[n] = child
        /\ \A k \in DOMAIN realms : k # n => f[k] # child
    BY <1>1, <2>1, LastIsOpen
  <2>3. /\ DOMAIN realms' = DOMAIN realms
        /\ \A k \in DOMAIN realms : k # n => realms'[k] = realms[k]
        /\ realms'[n].realm = realms[n].realm /\ realms'[n].routes = rs
    <3>1. realms[n] \in AllRealms
      BY <1>0, <2>2
    <3> HIDE DEF rs, n
    <3> QED
      BY <1>0, <2>1, <2>2, <3>1 DEF AllRealms
  <2>4. Met("Realm")' = Met("Realm")
    BY <1>0, <2>1 DEF Met
  <2>5. /\ MetIn(child) = 1 .. nephew - 1 /\ Then(child) = 1 .. nephew
        /\ \A i : MetIn(i)' = Then(i)
        /\ \A i : i # child => Then(i) = MetIn(i)
    BY <1>0, <2>1 DEF MetIn
  <2> HIDE DEF Then
  <2>6. /\ RouteOf(file[child].children[nephew]) \in AllRoutes
        /\ \A x \in AllRoutes : x.metric \in Int
        /\ realms[n].routes \in Seq(AllRoutes)
    <3>1. nephew \in 1 .. Len(file[child].children) /\ file[child].tag = "Realm"
      <4>1. Len(file[child].children) \in Nat
        BY <2>1, ChildIs DEF Child
      <4> QED
        BY <1>0, <2>1, <4>1 DEF Child
    <3>2. realms[n] \in AllRealms
      BY <1>0, <2>2
    <3> QED
      BY <2>1, <3>1, <3>2, ChildIs DEF AllRealms
  <2>7. nephew \notin MetIn(child) /\ MetIn(child) \cup {nephew} = Then(child)
    BY <1>0, <2>1, <2>5
  <2>8. Described(realms[n].routes, file[child].children, MetIn(child)) /\ Ascending(realms[n].routes)
    BY <1>1, <2>2
  <2>9. /\ Described(rs, file[child].children, Then(child))
        /\ Ascending(rs)
    <3>1. Described(rs, file[child].children, MetIn(child) \cup {nephew}) /\ Ascending(rs)
      BY <2>6, <2>7, <2>8, DescribedGrows
    <3> QED
      BY <2>7, <3>1
  <2> HIDE DEF rs, n
  <2>10. ASSUME NEW k \in DOMAIN realms
         PROVE  /\ realms'[k].realm = Trimmed(file[f[k]].name)
                /\ Ascending(realms'[k].routes)
                /\ Described(realms'[k].routes, file[f[k]].children, Then(f[k]))
    <3>1. CASE k = n
      BY <1>1, <2>2, <2>3, <2>9, <3>1
    <3>2. CASE k # n
      BY <1>1, <2>2, <2>3, <2>5, <3>2
    <3> QED
      BY <3>1, <3>2
  <2>11. \A k \in DOMAIN realms' :
           /\ realms'[k].realm = Trimmed(file'[f[k]].name)
           /\ Ascending(realms'[k].routes)
           /\ Described(realms'[k].routes, file'[f[k]].children, MetIn(f[k])')
    BY <2>1, <2>3, <2>5, <2>10
  <2> QED
    BY <1>1, <2>3, <2>4, <2>11 DEF RealmsSound
<1> QED
  BY <1>3, <1>4, <1>5, <1>6, WhatPasses DEF ConfigNext

LEMMA ConfigInitInv ==
  ASSUME ConfigAssumption, ConfigInit
  PROVE  ConfigIInv
<1>1. ConfigTypeOK
  <2>1. PICK n \in 0 .. MaxElements : file \in [1 .. n -> XmlElements]
    BY DEF ConfigInit, Files
  <2>2. Len(file) = n /\ n \in Nat
    BY <2>1, ConfigAssumption
  <2>3. child \in 1 .. Len(file) + 1 /\ nephew \in Nat /\ ~(nephew > 0)
    BY <2>2 DEF ConfigInit
  <2>4. /\ config \in [Arrays -> Seq(Entries)] /\ sizes \in [Arrays -> Nat]
        /\ routes \in Seq(AllRoutes) /\ realms \in Seq(AllRealms)
    BY EmptySeq DEF ConfigInit
  <2> QED
    BY <2>3, <2>4 DEF ConfigInit, ConfigTypeOK
<1>2. CountedOK
  <2>1. pass = "count" /\ child - 1 = 0 /\ \A a \in Arrays : sizes[a] = 0 /\ Len(config[a]) = 0
    BY DEF ConfigInit
  <2>2. \A a : Cardinality(ToCount(a, 0)) = 0
    BY FS_EmptySet DEF ToCount
  <2> QED
    BY <2>1, <2>2 DEF CountedOK
<1>3. \A t : Met(t) = {}
  BY DEF ConfigInit, Met
<1>4. routes = <<>> /\ realms = <<>> /\ DOMAIN <<>> = {}
  BY DEF ConfigInit
<1>5. \E f : f \in Bijection({}, {})
  <2>1. [x \in {} |-> x] \in Bijection({}, {})
    BY DEF Bijection, Injection, Surjection, IsInjective
  <2> QED
    BY <2>1
<1>6. DefaultsSound
  BY <1>3, <1>4, <1>5 DEF DefaultsSound, Ascending, Described
<1>7. RealmsSound
  BY <1>3, <1>4, <1>5 DEF RealmsSound
<1> QED
  BY <1>1, <1>2, <1>6, <1>7 DEF ConfigIInv

LEMMA ConfigInvariance == ConfigSpec => []ConfigIInv
<1>1. ConfigInit => ConfigIInv
  BY ConfigAssumption, ConfigInitInv
<1>2. ConfigIInv /\ [ConfigNext]_configVars => ConfigIInv'
  BY ConfigAssumption, ConfigTypeStep, CountStep, DefaultsStep, RealmsStep DEF ConfigIInv
<1> QED
  BY <1>1, <1>2, PTL DEF ConfigSpec

\* The arrays and the routing table hold what the elements of the file describe, and the
\* place in the file is one of it (parse_dp_config).
THEOREM ConfigTypeCorrect == ConfigSpec => []ConfigTypeOK
<1>1. ConfigIInv => ConfigTypeOK
  BY DEF ConfigIInv
<1> QED
  BY <1>1, ConfigInvariance, PTL

\* For any file: the second pass fills the arrays that the first one sized to their ends
\* and not beyond, and every list of routes is ordered and has the routes of the file, each
\* once and no other (parse_dp_config).
THEOREM ConfigIsSound == ConfigSpec => []ConfigSound
<1>1. ASSUME ConfigIInv PROVE ArraysFit
  <2> SUFFICES ASSUME pass = "read", NEW a \in Arrays
               PROVE  Len(config[a]) <= sizes[a] /\ (child > Len(file) => Len(config[a]) = sizes[a])
    BY DEF ArraysFit
  <2>1. /\ Len(file) \in Nat /\ child \in Nat /\ child - 1 \in Nat /\ child - 1 <= Len(file)
        /\ child > Len(file) => child - 1 = Len(file)
    BY <1>1, ChildIs, ConfigAssumption DEF ConfigIInv, ConfigTypeOK
  <2>2. sizes[a] = Cardinality(ToCount(a, Len(file))) /\ Len(config[a]) = Cardinality(ToCount(a, child - 1))
    BY <1>1 DEF ConfigIInv, CountedOK
  <2>3. IsFiniteSet(ToCount(a, Len(file))) /\ ToCount(a, child - 1) \in SUBSET ToCount(a, Len(file))
    <3>1. \A i \in 1 .. child - 1 : i \in 1 .. Len(file)
      BY <2>1
    <3>2. IsFiniteSet(ToCount(a, Len(file)))
      BY <2>1, OneMore
    <3> QED
      BY <3>1, <3>2 DEF ToCount
  <2>4. Cardinality(ToCount(a, child - 1)) <= Cardinality(ToCount(a, Len(file)))
    BY <2>3, FS_Subset
  <2> QED
    BY <2>1, <2>2, <2>4
<1>2. ConfigIInv => ConfigSound
  BY <1>1 DEF ConfigIInv, ConfigSound
<1> QED
  BY <1>2, ConfigInvariance, PTL
============================================================================
