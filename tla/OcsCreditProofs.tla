-------------------------- MODULE OcsCreditProofs --------------------------
(***************************************************************************)
(* Proofs about OcsCredit: its types, the lock of the client list, and     *)
(* what happens to the credits of a client, for any number of workers,     *)
(* sessions and requests, repeated ones included; and, while no request is *)
(* repeated, that the list agrees with the sessions of the CTF.            *)
(***************************************************************************)
EXTENDS OcsCredit, SequenceTheorems, FiniteSetTheorems, TLAPS

USE DEF OnceOff, DecRatio

\* The three parts of TypeOK: the list, the workers, and the CTF.
ListOK ==
    /\ list \in Seq(Addrs)
    /\ heap \in [Addrs -> Records \cup {None}]
    /\ \A a \in Listed : heap[a] # None
    /\ lock \in Workers \cup {None}
WorkersOK ==
    /\ pc \in [Workers -> PCs]
    /\ req \in [Workers -> Requests \cup {None}]
    /\ \A w \in Workers : pc[w] # "idle" => req[w] # None
    /\ client \in [Workers -> Addrs \cup {None}]
    /\ \A w \in Workers : pc[w] \in Looping \cup {"delete"} => client[w] # None
    /\ persec \in [Workers -> Nat] /\ perMbyte \in [Workers -> Nat]
CtfOK ==
    /\ session \in [Cids -> {"closed", "busy", "open"}]
    /\ owed \in [Cids -> Amounts]
    /\ reqs \in Nat

\* A worker in a grant loop points to a record; an INTERIM has marked it.
LoopOK ==
    \A w \in Workers : pc[w] \in Looping =>
        /\ heap[client[w]] # None
        /\ pc[w] = "interimLoop" => heap[client[w]].phase \notin {"added", "settled"}

LEMMA TypeParts == TypeOK <=> ListOK /\ WorkersOK /\ CtfOK
BY DEF TypeOK, ListOK, WorkersOK, CtfOK

\* Removing a record leaves a list of records that were in it.
LEMMA WithoutType ==
    ASSUME list \in Seq(Addrs), NEW i \in 1 .. Len(list)
    PROVE  /\ Without(i) \in Seq(Addrs)
           /\ \A j \in 1 .. Len(Without(i)) : Without(i)[j] \in Listed
           /\ Len(Without(i)) = Len(list) - 1
           /\ \A j \in 1 .. Len(list) - 1 :
                Without(i)[j] = IF j < i THEN list[j] ELSE list[j + 1]
<1> DEFINE s == SubSeq(list, 1, i - 1)
           t == SubSeq(list, i + 1, Len(list))
<1>1. /\ s \in Seq(Addrs) /\ Len(s) = i - 1
      /\ \A j \in 1 .. i - 1 : s[j] = list[j]
  <2>1. CASE i = 1  BY <2>1, SubSeqProperties
  <2>2. CASE i > 1  BY <2>2, SubSeqProperties
  <2> QED  BY <2>1, <2>2
<1>2. /\ t \in Seq(Addrs) /\ Len(t) = Len(list) - i
      /\ \A j \in 1 .. Len(list) - i : t[j] = list[i + j]
  <2>1. CASE i = Len(list)  BY <2>1, SubSeqProperties
  <2>2. CASE i < Len(list)
    <3>1. /\ Len(t) = Len(list) - (i + 1) + 1
          /\ \A j \in 1 .. Len(list) - (i + 1) + 1 : t[j] = list[i + 1 + j - 1]
      BY <2>2, SubSeqProperties
    <3> QED  BY <2>2, <3>1, SubSeqProperties
  <2> QED  BY <2>1, <2>2
<1> HIDE DEF s, t
<1>3. /\ s \o t \in Seq(Addrs) /\ Len(s \o t) = Len(list) - 1
      /\ \A j \in 1 .. Len(list) - 1 :
            (s \o t)[j] = IF j <= i - 1 THEN s[j] ELSE t[j - (i - 1)]
  <2>1. /\ s \o t \in Seq(Addrs) /\ Len(s \o t) = Len(s) + Len(t)
        /\ \A j \in 1 .. Len(s) + Len(t) :
              (s \o t)[j] = IF j <= Len(s) THEN s[j] ELSE t[j - Len(s)]
    BY <1>1, <1>2, ConcatProperties
  <2>2. Len(list) \in Nat  OBVIOUS
  <2> QED  BY <1>1, <1>2, <2>1, <2>2
<1>4. ASSUME NEW j \in 1 .. Len(list) - 1
      PROVE  \E k \in 1 .. Len(list) : (s \o t)[j] = list[k]
  <2>1. CASE j <= i - 1
    <3>1. (s \o t)[j] = list[j]  BY <1>1, <1>3, <2>1
    <3> QED  BY <3>1
  <2>2. CASE j > i - 1
    <3>1. PICK n \in 1 .. Len(list) - i : n = j - (i - 1)  BY <2>2
    <3>2. (s \o t)[j] = t[n]  BY <1>3, <2>2, <3>1
    <3>3. t[n] = list[i + n]  BY <1>2
    <3>4. PICK k \in 1 .. Len(list) : k = i + n  OBVIOUS
    <3>5. (s \o t)[j] = list[k]  BY <3>2, <3>3, <3>4
    <3> QED  BY <3>5
  <2>3. j <= i - 1 \/ j > i - 1  OBVIOUS
  <2> QED  BY <2>1, <2>2, <2>3
<1>5. Without(i) = s \o t  BY DEF Without, s, t
<1>6. ASSUME NEW j \in 1 .. Len(list) - 1
      PROVE  (s \o t)[j] = IF j < i THEN list[j] ELSE list[j + 1]
  <2>1. CASE j <= i - 1  BY <1>1, <1>3, <2>1
  <2>2. CASE j > i - 1
    <3>1. PICK n \in 1 .. Len(list) - i : n = j - (i - 1)  BY <2>2
    <3>2. (s \o t)[j] = t[n]  BY <1>3, <2>2, <3>1
    <3>3. t[n] = list[i + n]  BY <1>2
    <3>4. i + n = j + 1 /\ ~(j < i)  BY <2>2, <3>1
    <3>5. (s \o t)[j] = list[j + 1]
      <4>1. list[i + n] = list[j + 1]  BY <3>4
      <4> QED  BY <3>2, <3>3, <4>1
    <3> QED  BY <3>4, <3>5
  <2>3. j <= i - 1 \/ j > i - 1  OBVIOUS
  <2> QED  BY <2>1, <2>2, <2>3
<1>7. Without(i) \in Seq(Addrs) /\ Len(Without(i)) = Len(list) - 1
  BY <1>3, <1>5
<1>8. \A j \in 1 .. Len(list) - 1 : Without(i)[j] \in Listed
  BY <1>4, <1>5 DEF Listed
<1> QED  BY <1>5, <1>6, <1>7, <1>8

\* What the answer to a request changes keeps its types.
LEMMA AnswerType ==
    ASSUME WorkersOK, CtfOK, NEW w \in Workers, pc[w] # "idle",
           NEW g \in Amounts, Answer(w, g)
    PROVE  WorkersOK' /\ CtfOK'
<1>1. req[w] \in Requests /\ req[w].cid \in Cids  BY DEF WorkersOK, Requests
<1>2. Plus(owed[req[w].cid], g) \in Amounts /\ Zero \in Amounts
  BY <1>1 DEF CtfOK, Plus, Zero, Amounts
<1>3. WorkersOK'
  BY DEF Answer, WorkersOK, GoTo, Point, Charge, PCs, Looping
<1>4. CtfOK'
  BY <1>1, <1>2 DEF Answer, CtfOK
<1> QED  BY <1>3, <1>4

LEMMA HalveType ==
    ASSUME WorkersOK, NEW w \in Workers, Halve(w)
    PROVE  persec' \in [Workers -> Nat] /\ perMbyte' \in [Workers -> Nat]
<1>1. persec[w] \div 2 \in Nat /\ perMbyte[w] \div 2 \in Nat  BY DEF WorkersOK
<1> QED  BY <1>1 DEF WorkersOK, Halve, Charge

\* What happens to a record keeps its type.
LEMMA RecordTypes ==
    ASSUME NEW r \in Records
    PROVE  /\ \A g \in Amounts : Reserve(r, g) \in Records
           /\ \A u \in Amounts : Consume(r, u) \in Records /\ Settle(r, u) \in Records
           /\ \A n \in Nat : Extend(r, n) \in Records
<1>1. \A u \in Amounts : Total(u) \in Nat  BY DEF Amounts, Total
<1>2. \A g \in Amounts : Reserve(r, g) \in Records
  BY <1>1 DEF Reserve, Record, Records, Phases
<1>3. \A u \in Amounts : Consume(r, u) \in Records
  BY <1>1 DEF Consume, ConsumeBuf, Record, Records, Phases
<1>4. \A u \in Amounts : Settle(r, u) \in Records
  BY <1>1 DEF Settle, Record, Records, Phases
<1>5. \A n \in Nat : Extend(r, n) \in Records
  BY DEF Extend, Record, Records, Phases
<1> QED  BY <1>2, <1>3, <1>4, <1>5

LEMMA RequestType ==
    ASSUME WorkersOK, CtfOK, NEW w \in Workers, Request(w)
    PROVE  WorkersOK' /\ CtfOK'
<1> PICK k \in Kinds, c \in Cids :
         /\ \E u \in IF k = "START" THEN {Zero} ELSE UsedUpTo(owed[c]) :
              /\ req' = [req EXCEPT ![w] = [kind |-> k, cid |-> c, used |-> u]]
              /\ owed' = IF Retries THEN owed ELSE [owed EXCEPT ![c] = Less(@, u)]
         /\ session' = [session EXCEPT ![c] = "busy"]
         /\ GoTo(w, k)
  BY DEF Request
<1> PICK u \in IF k = "START" THEN {Zero} ELSE UsedUpTo(owed[c]) :
         /\ req' = [req EXCEPT ![w] = [kind |-> k, cid |-> c, used |-> u]]
         /\ owed' = IF Retries THEN owed ELSE [owed EXCEPT ![c] = Less(@, u)]
  OBVIOUS
<1>1. /\ req' = [req EXCEPT ![w] = [kind |-> k, cid |-> c, used |-> u]]
      /\ owed' = IF Retries THEN owed ELSE [owed EXCEPT ![c] = Less(@, u)]
      /\ session' = [session EXCEPT ![c] = "busy"]
      /\ pc' = [pc EXCEPT ![w] = k]
  BY DEF GoTo
<1>2. owed[c] \in Amounts  BY DEF CtfOK
<1>3. u \in Amounts  BY <1>2 DEF UsedUpTo, Amounts, Zero
<1>4. k # "START" => Less(owed[c], u) \in Amounts
  BY <1>2 DEF UsedUpTo, Amounts, Less
<1>5. k = "START" => Less(owed[c], u) \in Amounts
  BY <1>2 DEF Amounts, Less, Zero
<1>6. WorkersOK'
  <2>1. [kind |-> k, cid |-> c, used |-> u] \in Requests  BY <1>3 DEF Requests
  <2>2. req' \in [Workers -> Requests \cup {None}]
    BY <1>1, <2>1 DEF WorkersOK
  <2>3. pc' \in [Workers -> PCs]  BY <1>1 DEF WorkersOK, PCs
  <2>4. \A v \in Workers : pc'[v] # "idle" => req'[v] # None
    <3>1. [kind |-> k, cid |-> c, used |-> u] # None
      BY <2>1, NoneAssumption
    <3> QED  BY <1>1, <3>1 DEF WorkersOK
  <2>5. UNCHANGED <<client, persec, perMbyte>>  BY DEF Request, locals
  <2>6. \A v \in Workers :
            pc'[v] \in Looping \cup {"delete"} => pc[v] \in Looping \cup {"delete"}
    BY <1>1 DEF WorkersOK, Kinds, Looping
  <2> QED  BY <2>2, <2>3, <2>4, <2>5, <2>6 DEF WorkersOK
<1>7. CtfOK'
  <2>1. owed' \in [Cids -> Amounts]  BY <1>1, <1>4, <1>5 DEF CtfOK
  <2>2. reqs' \in Nat  BY DEF Request, CtfOK
  <2> QED  BY <1>1, <2>1, <2>2 DEF CtfOK
<1> QED  BY <1>6, <1>7

\* The search loop ends at a record of the list.
LEMMA FoundListed ==
    ASSUME ListOK, NEW i \in 1 .. Len(list)
    PROVE  list[i] \in Addrs /\ list[i] \in Listed /\ heap[list[i]] \in Records
BY DEF ListOK, Listed

LEMMA TypeStep ==
    ASSUME TypeOK, LoopOK, NEW w \in Workers, Request(w) \/ Step(w)
    PROVE  TypeOK'
<1> USE DEF Looping
<1>0. ListOK /\ WorkersOK /\ CtfOK  BY TypeParts
<1>q. (ListOK /\ WorkersOK /\ CtfOK)' => TypeOK'
  BY DEF TypeOK, ListOK, WorkersOK, CtfOK
<1>z. Zero \in Amounts  BY DEF Zero, Amounts
<1>r. \A v \in Workers : pc[v] # "idle" => req[v] \in Requests
  BY <1>0 DEF WorkersOK
<1>l. ASSUME UNCHANGED records, lock' \in {lock, None, w}  PROVE ListOK'
  BY <1>0, <1>l DEF ListOK, Listed, records
<1>h. ASSUME NEW a \in Addrs, NEW r \in Records, UNCHANGED list,
             heap' = [heap EXCEPT ![a] = r], lock' \in {lock, None, w}
      PROVE  ListOK'
  BY <1>0, <1>h, NoneAssumption DEF ListOK, Listed
<1>i. ASSUME NEW i \in 1 .. Len(list)
      PROVE  list[i] \in Addrs /\ heap[list[i]] \in Records
  BY <1>0, FoundListed
<1>k. ASSUME Crash(w), pc[w] # "idle"  PROVE TypeOK'
  <2>1. WorkersOK'  BY <1>0, <1>k DEF Crash, GoTo, WorkersOK, PCs, locals
  <2>2. CtfOK'  BY <1>0, <1>k DEF Crash, CtfOK, ctf
  <2> QED  BY <1>k, <1>l, <1>q, <2>1, <2>2 DEF Crash
<1>1. CASE Request(w)
  BY <1>0, <1>1, <1>l, <1>q, RequestType DEF Request
<1>2. CASE StartCheck(w)
  <2>1. WorkersOK' /\ CtfOK'
    BY <1>0, <1>2 DEF StartCheck, WorkersOK, CtfOK, GoTo, PCs, locals, ctf
  <2> QED  BY <1>2, <1>l, <1>q, <2>1 DEF StartCheck
<1>3. CASE AddClient(w)
  <2>1. WorkersOK' /\ CtfOK'
    BY <1>0, <1>3 DEF AddClient, WorkersOK, CtfOK, GoTo, PCs, locals, ctf
  <2>2. CASE UNCHANGED records
    BY <1>3, <1>l, <1>q, <2>1, <2>2 DEF AddClient
  <2>3. ASSUME NEW a \in Addrs, NEW b \in Garbage, list' = Append(list, a),
               heap' = [heap EXCEPT ![a] = NewRecord(req[w].cid, b)]
        PROVE  ListOK'
    <3>1. req[w] \in Requests  BY <1>3, <1>r DEF AddClient
    <3>2. NewRecord(req[w].cid, b) \in Records
      BY <3>1, CreditAssumption, GarbageAssumption
      DEF NewRecord, Record, Records, Requests, Phases
    <3>3. heap' \in [Addrs -> Records \cup {None}]
      BY <1>0, <2>3, <3>2 DEF ListOK
    <3>4. list' \in Seq(Addrs)  BY <1>0, <2>3, AppendProperties DEF ListOK
    <3>5. \A x \in Listed' : x \in Listed \/ x = a
      BY <1>0, <2>3, AppendProperties DEF ListOK, Listed
    <3>6. \A x \in Listed' : heap'[x] # None
      BY <1>0, <2>3, <3>2, <3>5, NoneAssumption DEF ListOK, Listed
    <3> QED  BY <1>0, <1>3, <3>3, <3>4, <3>6 DEF ListOK, AddClient
  <2> QED  BY <1>3, <1>q, <2>1, <2>2, <2>3 DEF AddClient
<1>4. CASE StartFind(w)
  <2>1. CASE Crash(w)  BY <1>4, <1>k, <2>1 DEF StartFind
  <2>2. ASSUME NEW i \in 1 .. Len(list), StartEnter(w, list[i]), UNCHANGED records
        PROVE  TypeOK'
    <3>1. CASE Answer(w, Zero) /\ UNCHANGED lock
      BY <1>0, <1>4, <1>l, <1>q, <1>z, <2>2, <3>1, AnswerType DEF StartFind
    <3>2. CASE /\ Point(w, list[i])
               /\ Charge(w, TimeFactor, VolFactor)
               /\ lock' = w
               /\ GoTo(w, "startLoop")
               /\ UNCHANGED <<req, ctf>>
      <4>1. list[i] # None  BY <1>i, <2>2, NoneAssumption
      <4>2. WorkersOK'
        BY <1>0, <1>4, <1>i, <2>2, <3>2, <4>1, FactorAssumption
        DEF WorkersOK, StartFind, Point, Charge, GoTo, PCs
      <4>3. CtfOK'  BY <1>0, <3>2 DEF CtfOK, ctf
      <4> QED  BY <1>l, <1>q, <2>2, <3>2, <4>2, <4>3
    <3> QED  BY <2>2, <3>1, <3>2 DEF StartEnter
  <2>3. CASE GoTo(w, "addAgain") /\ UNCHANGED <<lock, req, locals, ctf>> /\ UNCHANGED records
    <3>1. WorkersOK' /\ CtfOK'
      BY <1>0, <1>4, <2>3 DEF StartFind, WorkersOK, CtfOK, GoTo, PCs, locals, ctf
    <3> QED  BY <1>l, <1>q, <2>3, <3>1
  <2>4. CASE Answer(w, Zero) /\ UNCHANGED lock /\ UNCHANGED records
    BY <1>0, <1>4, <1>l, <1>q, <1>z, <2>4, AnswerType DEF StartFind
  <2> QED  BY <1>4, <2>1, <2>2, <2>3, <2>4 DEF StartFind
<1>5. CASE StartHalve(w) \/ InterimHalve(w)
  <2>1. WorkersOK'
    BY <1>0, <1>5, HalveType DEF StartHalve, InterimHalve, WorkersOK
  <2>2. CtfOK'  BY <1>0, <1>5 DEF StartHalve, InterimHalve, CtfOK, ctf
  <2> QED  BY <1>5, <1>l, <1>q, <2>1, <2>2 DEF StartHalve, InterimHalve
<1>6. CASE StartGrant(w)
  <2> DEFINE a == client[w]
             g == IF /\ Affords(heap[a].credits, OnceOff)
                     /\ Affords(heap[a].credits - OnceOff, persec[w])
                     /\ Affords(heap[a].credits - OnceOff - persec[w], perMbyte[w])
                  THEN [once |-> OnceOff, sec |-> persec[w], mb |-> perMbyte[w]]
                  ELSE Zero
  <2>1. a \in Addrs /\ heap[a] \in Records
    BY <1>0, <1>6 DEF StartGrant, WorkersOK, ListOK, LoopOK
  <2>2. g \in Amounts
    BY <1>0, <1>z DEF Amounts, WorkersOK
  <2>3. heap' = [heap EXCEPT ![a] = Reserve(heap[a], g)] /\ Answer(w, g)
        /\ lock' = None /\ UNCHANGED list
    BY <1>6 DEF StartGrant
  <2> HIDE DEF a, g
  <2>4. Reserve(heap[a], g) \in Records  BY <2>1, <2>2, RecordTypes
  <2>5. ListOK'  BY <1>h, <2>1, <2>3, <2>4
  <2> QED  BY <1>0, <1>6, <1>q, <2>2, <2>3, <2>5, AnswerType DEF StartGrant
<1>7. CASE InterimFind(w)
  <2>1. CASE Crash(w)  BY <1>7, <1>k, <2>1 DEF InterimFind
  <2>2. CASE Answer(w, Zero) /\ UNCHANGED <<records, lock>>
    BY <1>0, <1>7, <1>l, <1>q, <1>z, <2>2, AnswerType DEF InterimFind
  <2>3. ASSUME NEW i \in 1 .. Len(list),
               heap' = [heap EXCEPT ![list[i]] = Consume(@, req[w].used)],
               Point(w, list[i]),
               Charge(w, req[w].used.sec, req[w].used.mb),
               lock' = w, GoTo(w, "interimLoop"), UNCHANGED <<list, req, ctf>>
        PROVE  TypeOK'
    <3>1. req[w] \in Requests  BY <1>7, <1>r DEF InterimFind
    <3>2. req[w].used \in Amounts  BY <3>1 DEF Requests
    <3>3. Consume(heap[list[i]], req[w].used) \in Records
      BY <1>i, <3>2, RecordTypes
    <3>4. ListOK'  BY <1>h, <1>i, <2>3, <3>3
    <3>5. list[i] # None  BY <1>i, NoneAssumption
    <3>6. WorkersOK'
      BY <1>0, <1>7, <1>i, <2>3, <3>2, <3>5
      DEF WorkersOK, InterimFind, Point, Charge, GoTo, PCs, Amounts
    <3>7. CtfOK'  BY <1>0, <2>3 DEF CtfOK, ctf
    <3> QED  BY <1>q, <3>4, <3>6, <3>7
  <2> QED  BY <1>7, <2>1, <2>2, <2>3 DEF InterimFind
<1>8. CASE InterimGrant(w)
  <2> DEFINE a == client[w]
             c == heap[a].credits
             sec == IF Affords(c, persec[w]) THEN persec[w] ELSE 0
             ok == Affords(c, persec[w]) /\ Affords(c - sec, perMbyte[w])
             mb == IF ok THEN perMbyte[w] ELSE 0
             g == IF ok THEN [once |-> 0, sec |-> sec, mb |-> mb] ELSE Zero
  <2>1. a \in Addrs /\ heap[a] \in Records
    BY <1>0, <1>8 DEF InterimGrant, WorkersOK, ListOK, LoopOK
  <2>2. sec \in Nat /\ mb \in Nat /\ sec + mb \in Nat  BY <1>0 DEF WorkersOK
  <2>3. g \in Amounts  BY <1>z, <2>2 DEF Amounts
  <2>4. heap' = [heap EXCEPT ![a] = Extend(heap[a], sec + mb)] /\ Answer(w, g)
        /\ lock' = None /\ UNCHANGED list
    BY <1>8 DEF InterimGrant
  <2> HIDE DEF a, c, sec, ok, mb, g
  <2>5. Extend(heap[a], sec + mb) \in Records  BY <2>1, <2>2, RecordTypes
  <2>6. ListOK'  BY <1>h, <2>1, <2>4, <2>5
  <2> QED  BY <1>0, <1>8, <1>q, <2>3, <2>4, <2>6, AnswerType DEF InterimGrant
<1>9. CASE StopSettle(w)
  <2>1. CASE Crash(w)  BY <1>9, <1>k, <2>1 DEF StopSettle
  <2>2. ASSUME NEW i \in 1 .. Len(list),
               heap' = IF Match(i, req[w].cid)
                       THEN [heap EXCEPT ![list[i]] = Settle(@, req[w].used)]
                       ELSE heap,
               Point(w, list[i]), GoTo(w, "delete"),
               UNCHANGED <<list, lock, req, persec, perMbyte, ctf>>
        PROVE  TypeOK'
    <3>1. req[w] \in Requests  BY <1>9, <1>r DEF StopSettle
    <3>2. req[w].used \in Amounts  BY <3>1 DEF Requests
    <3>3. Settle(heap[list[i]], req[w].used) \in Records
      BY <1>i, <3>2, RecordTypes
    <3>4. ASSUME Match(i, req[w].cid)  PROVE ListOK'
      BY <1>h, <1>i, <2>2, <3>3, <3>4
    <3>5. ASSUME ~Match(i, req[w].cid)  PROVE ListOK'
      BY <1>l, <2>2, <3>5 DEF records
    <3>6. list[i] # None  BY <1>i, NoneAssumption
    <3>7. WorkersOK'
      BY <1>0, <1>9, <1>i, <2>2, <3>6
      DEF WorkersOK, StopSettle, Point, GoTo, PCs
    <3>8. CtfOK'  BY <1>0, <2>2 DEF CtfOK, ctf
    <3> QED  BY <1>q, <3>4, <3>5, <3>7, <3>8
  <2> QED  BY <1>9, <2>1, <2>2 DEF StopSettle
<1>10. CASE StopDelete(w)
  <2>1. CASE Crash(w)  BY <1>10, <1>k, <2>1 DEF StopDelete
  <2>2. ASSUME NEW c, NEW i \in 1 .. Len(list),
               list' = IF Match(i, c) THEN Without(i) ELSE list,
               Answer(w, Zero), UNCHANGED <<heap, lock>>
        PROVE  TypeOK'
    <3>1. list' \in Seq(Addrs) /\ \A x \in Listed' : x \in Listed
      BY <1>0, <2>2, WithoutType DEF ListOK, Listed
    <3>2. ListOK'  BY <1>0, <2>2, <3>1 DEF ListOK
    <3> QED  BY <1>0, <1>10, <1>q, <1>z, <2>2, <3>2, AnswerType DEF StopDelete
  <2> QED  BY <1>10, <2>1, <2>2 DEF StopDelete
<1> QED
  BY <1>1, <1>2, <1>3, <1>4, <1>5, <1>6, <1>7, <1>8, <1>9, <1>10 DEF Step

\* Who holds the lock.
LEMMA LockStep ==
    ASSUME TypeOK, LockHeld, NEW w \in Workers, Request(w) \/ Step(w)
    PROVE  LockHeld'
<1> DEFINE Holding == Looping \cup {"crashed"}
<1> USE DEF Looping
<1>0. pc \in [Workers -> PCs] /\ lock \in Workers \cup {None}  BY DEF TypeOK
<1>a. ASSUME NEW l, GoTo(w, l), l \notin Holding, pc[w] \notin Holding, lock' = lock
      PROVE  LockHeld'
  BY <1>0, <1>a DEF LockHeld, GoTo
<1>b. ASSUME NEW l, GoTo(w, l), l \in Holding, lock = None, lock' = w
      PROVE  LockHeld'
  BY <1>0, <1>b, NoneAssumption DEF LockHeld, GoTo
<1>c. ASSUME NEW l, GoTo(w, l), l \notin Holding, pc[w] \in Holding, lock' = None
      PROVE  LockHeld'
  BY <1>0, <1>c, NoneAssumption DEF LockHeld, GoTo
<1>1. CASE Request(w)
  BY <1>1, <1>a DEF Request, Kinds
<1>2. CASE StartCheck(w)  BY <1>2, <1>a DEF StartCheck
<1>3. CASE AddClient(w)  BY <1>3, <1>a DEF AddClient
<1>4. CASE StartFind(w)
  <2>1. CASE Crash(w)  BY <1>4, <1>b, <2>1 DEF StartFind, Crash
  <2>2. ASSUME NEW a, StartEnter(w, a)  PROVE LockHeld'
    BY <1>4, <1>a, <1>b, <2>2 DEF StartFind, StartEnter, Answer
  <2>3. CASE GoTo(w, "addAgain") /\ UNCHANGED lock
    BY <1>4, <1>a, <2>3 DEF StartFind
  <2>4. CASE Answer(w, Zero) /\ UNCHANGED lock
    BY <1>4, <1>a, <2>4 DEF StartFind, Answer
  <2> QED  BY <1>4, <2>1, <2>2, <2>3, <2>4 DEF StartFind
<1>5. CASE StartHalve(w) \/ InterimHalve(w)
  BY <1>5 DEF StartHalve, InterimHalve, LockHeld
<1>6. CASE StartGrant(w)  BY <1>6, <1>c DEF StartGrant, Answer
<1>7. CASE InterimFind(w)
  BY <1>7, <1>a, <1>b DEF InterimFind, Crash, Answer
<1>8. CASE InterimGrant(w)  BY <1>8, <1>c DEF InterimGrant, Answer
<1>9. CASE StopSettle(w)
  BY <1>9, <1>a, <1>b DEF StopSettle, Crash
<1>10. CASE StopDelete(w)
  BY <1>10, <1>a, <1>b DEF StopDelete, Crash, Answer
<1> QED
  BY <1>1, <1>2, <1>3, <1>4, <1>5, <1>6, <1>7, <1>8, <1>9, <1>10 DEF Step

\* The two claims about a record, and how each update keeps them.
Sound(r) ==
    /\ r.phase \in {"added", "open", "mixed"} => r.credits >= 1
    /\ Balanced(r)

LEMMA ReserveSound ==
    ASSUME NEW r \in Records, NEW g \in Amounts, Sound(r), r.credits >= 1,
           g = Zero \/ r.credits - Total(g) > 0
    PROVE  Sound(Reserve(r, g))
<1>1. Total(g) \in Nat /\ Total(Zero) = 0  BY DEF Total, Amounts, Zero
<1>2. r.credits - Total(g) >= 1  BY <1>1 DEF Records
<1> QED
  BY <1>1, <1>2, CreditAssumption DEF Sound, Balanced, Reserve, Record, Records, Phases

LEMMA ConsumeSound ==
    ASSUME NEW r \in Records, NEW u \in Amounts, Sound(r)
    PROVE  /\ Sound(Consume(r, u))
           /\ Consume(r, u).phase \notin {"added", "settled"}
<1>1. Total(u) \in Nat  BY DEF Total, Amounts
<1> QED
  BY <1>1, CreditAssumption
  DEF Sound, Balanced, Consume, ConsumeBuf, Record, Records, Phases

LEMMA ExtendSound ==
    ASSUME NEW r \in Records, NEW n \in Nat, Sound(r), r.credits - n > 0,
           r.phase \notin {"added", "settled"}
    PROVE  Sound(Extend(r, n))
BY CreditAssumption DEF Sound, Balanced, Extend, Record, Records, Phases

LEMMA SettleSound ==
    ASSUME NEW r \in Records, NEW u \in Amounts, Sound(r)
    PROVE  Sound(Settle(r, u))
<1>1. Total(u) \in Nat  BY DEF Total, Amounts
<1> QED
  BY <1>1, CreditAssumption DEF Sound, Balanced, Settle, Record, Records, Phases

AllSound == \A a \in Addrs : heap[a] # None => Sound(heap[a])

LEMMA SoundParts == AllSound <=> NeverOverdrawn /\ Conservation
BY DEF AllSound, Sound, NeverOverdrawn, Conservation

\* What the records and the loops look like after a step.
LEMMA RecordsStep ==
    ASSUME TypeOK, LockHeld, LoopOK, AllSound, NEW w \in Workers,
           Request(w) \/ Step(w)
    PROVE  LoopOK' /\ AllSound'
<1> USE DEF Looping
<1>0. ListOK /\ WorkersOK /\ CtfOK  BY TypeParts
<1>r. \A v \in Workers : pc[v] # "idle" => req[v].used \in Amounts /\ req[v].cid \in Cids
  BY <1>0 DEF WorkersOK, Requests
<1>i. ASSUME NEW i \in 1 .. Len(list)
      PROVE  list[i] \in Addrs /\ heap[list[i]] \in Records /\ Sound(heap[list[i]])
  BY <1>0, FoundListed, NoneAssumption DEF AllSound
\* Nobody else is in a loop.
<1>o. ASSUME lock = None \/ pc[w] \in Looping, NEW v \in Workers \ {w}
      PROVE  pc[v] \notin Looping
  BY <1>o, NoneAssumption DEF LockHeld
\* Three kinds of steps: no record changes, one does, one is added.
<1>k. ASSUME NEW l, GoTo(w, l), l \notin Looping, UNCHANGED heap,
             \A v \in Workers \ {w} : client'[v] = client[v]
      PROVE  LoopOK' /\ AllSound'
  BY <1>0, <1>k DEF LoopOK, AllSound, WorkersOK, GoTo
<1>h. ASSUME NEW a \in Addrs, NEW r \in Records, Sound(r), NEW l, GoTo(w, l),
             heap' = [heap EXCEPT ![a] = r],
             lock = None \/ pc[w] \in Looping,
             l \in Looping => client'[w] = a,
             l = "interimLoop" => r.phase \notin {"added", "settled"}
      PROVE  LoopOK' /\ AllSound'
  <2>1. AllSound'  BY <1>0, <1>h DEF AllSound, ListOK
  <2>2. \A v \in Workers \ {w} : pc'[v] \notin Looping
    BY <1>0, <1>h, <1>o DEF WorkersOK, GoTo
  <2>3. pc'[w] = l  BY <1>0, <1>h DEF WorkersOK, GoTo
  <2>4. heap'[a] = r /\ r # None  BY <1>0, <1>h, NoneAssumption DEF ListOK
  <2>5. LoopOK'  BY <1>h, <2>2, <2>3, <2>4 DEF LoopOK
  <2> QED  BY <2>1, <2>5
<1>p. ASSUME NEW g, Answer(w, g), UNCHANGED heap
      PROVE  LoopOK' /\ AllSound'
  BY <1>k, <1>p, <1>0 DEF Answer, Point, WorkersOK
<1>1. CASE Request(w)
  BY <1>1, <1>k, <1>0 DEF Request, Kinds, records, locals
<1>2. CASE StartCheck(w)
  BY <1>2, <1>k DEF StartCheck, records, locals
<1>3. CASE AddClient(w)
  <2> DEFINE l == IF pc[w] = "add" THEN "find" ELSE "findAgain"
  <2>1. CASE UNCHANGED records
    BY <1>3, <1>k, <2>1 DEF AddClient, records, locals
  <2>2. ASSUME NEW a \in Addrs, NEW b \in Garbage,
               heap' = [heap EXCEPT ![a] = NewRecord(req[w].cid, b)]
        PROVE  LoopOK' /\ AllSound'
    <3>1. /\ NewRecord(req[w].cid, b) \in Records
          /\ Sound(NewRecord(req[w].cid, b))
      BY <1>3, <1>r, CreditAssumption, GarbageAssumption
      DEF AddClient, NewRecord, Record, Records, Sound, Balanced, Phases
    <3>2. GoTo(w, l) /\ l \notin Looping /\ lock = None  BY <1>3 DEF AddClient
    <3> HIDE DEF l
    <3> QED  BY <1>h, <2>2, <3>1, <3>2
  <2> QED  BY <1>3, <2>1, <2>2 DEF AddClient
<1>4. CASE StartFind(w)
  <2>1. CASE Crash(w)  BY <1>k, <2>1 DEF Crash, records, locals
  <2>2. ASSUME NEW i \in 1 .. Len(list), StartEnter(w, list[i]), UNCHANGED records
        PROVE  LoopOK' /\ AllSound'
    <3>1. CASE Answer(w, Zero)  BY <1>p, <2>2, <3>1 DEF records
    <3>2. CASE Point(w, list[i]) /\ GoTo(w, "startLoop")
      <4>1. AllSound'  BY <2>2 DEF AllSound, records
      <4>2. \A v \in Workers \ {w} : pc'[v] \notin Looping
        BY <1>0, <1>4, <1>o, <3>2 DEF StartFind, WorkersOK, GoTo
      <4>3. pc'[w] = "startLoop" /\ client'[w] = list[i]
        BY <1>0, <3>2 DEF WorkersOK, GoTo, Point
      <4>4. heap'[list[i]] # None
        BY <1>i, <2>2, NoneAssumption DEF records
      <4> QED  BY <4>1, <4>2, <4>3, <4>4 DEF LoopOK
    <3> QED  BY <2>2, <3>1, <3>2 DEF StartEnter
  <2>3. CASE GoTo(w, "addAgain") /\ UNCHANGED locals /\ UNCHANGED records
    BY <1>k, <2>3 DEF records, locals
  <2>4. CASE Answer(w, Zero) /\ UNCHANGED records
    BY <1>p, <2>4 DEF records
  <2> QED  BY <1>4, <2>1, <2>2, <2>3, <2>4 DEF StartFind
<1>5. CASE StartHalve(w) \/ InterimHalve(w)
  BY <1>5 DEF StartHalve, InterimHalve, LoopOK, AllSound, records
<1>6. CASE StartGrant(w)
  <2> DEFINE a == client[w]
             n == heap[a].credits
             g == IF /\ Affords(n, OnceOff)
                     /\ Affords(n - OnceOff, persec[w])
                     /\ Affords(n - OnceOff - persec[w], perMbyte[w])
                  THEN [once |-> OnceOff, sec |-> persec[w], mb |-> perMbyte[w]]
                  ELSE Zero
  <2>1. a \in Addrs /\ heap[a] \in Records /\ heap[a] # None
    BY <1>0, <1>6 DEF StartGrant, WorkersOK, ListOK, LoopOK
  <2>2. persec[w] \in Nat /\ perMbyte[w] \in Nat /\ n \in Int
    BY <1>0, <2>1 DEF WorkersOK, Records
  <2>3. g \in Amounts  BY <2>2 DEF Amounts, Zero
  <2>4. n >= 1  BY <1>6, <2>2 DEF StartGrant, StartCovered, Affords
  <2>5. g = Zero \/ n - Total(g) > 0  BY <2>2 DEF Affords, Total
  <2>6. heap' = [heap EXCEPT ![a] = Reserve(heap[a], g)] /\ Answer(w, g)
    BY <1>6 DEF StartGrant
  <2> HIDE DEF a, g
  <2>7. Sound(Reserve(heap[a], g)) /\ Reserve(heap[a], g) \in Records
    BY <2>1, <2>3, <2>4, <2>5, ReserveSound, RecordTypes DEF AllSound
  <2> QED  BY <1>6, <1>h, <2>1, <2>6, <2>7 DEF StartGrant, Answer
<1>7. CASE InterimFind(w)
  <2>1. CASE Crash(w)  BY <1>k, <2>1 DEF Crash, records, locals
  <2>2. CASE Answer(w, Zero) /\ UNCHANGED records
    BY <1>p, <2>2 DEF records
  <2>3. ASSUME NEW i \in 1 .. Len(list),
               heap' = [heap EXCEPT ![list[i]] = Consume(@, req[w].used)],
               Point(w, list[i]), GoTo(w, "interimLoop")
        PROVE  LoopOK' /\ AllSound'
    <3>1. req[w].used \in Amounts  BY <1>7, <1>r DEF InterimFind
    <3> DEFINE r == Consume(heap[list[i]], req[w].used)
    <3>2. r \in Records /\ Sound(r) /\ r.phase \notin {"added", "settled"}
      BY <1>i, <3>1, ConsumeSound, RecordTypes
    <3>3. client'[w] = list[i]  BY <1>0, <2>3 DEF Point, WorkersOK
    <3>4. heap' = [heap EXCEPT ![list[i]] = r]  BY <2>3
    <3>5. lock = None  BY <1>7 DEF InterimFind
    <3> HIDE DEF r
    <3> QED  BY <1>h, <1>i, <2>3, <3>2, <3>3, <3>4, <3>5
  <2> QED  BY <1>7, <2>1, <2>2, <2>3 DEF InterimFind
<1>8. CASE InterimGrant(w)
  <2> DEFINE a == client[w]
             n == heap[a].credits
             sec == IF Affords(n, persec[w]) THEN persec[w] ELSE 0
             ok == Affords(n, persec[w]) /\ Affords(n - sec, perMbyte[w])
             mb == IF ok THEN perMbyte[w] ELSE 0
             g == IF ok THEN [once |-> 0, sec |-> sec, mb |-> mb] ELSE Zero
  <2>1. a \in Addrs /\ heap[a] \in Records /\ heap[a] # None
        /\ heap[a].phase \notin {"added", "settled"}
    BY <1>0, <1>8 DEF InterimGrant, WorkersOK, ListOK, LoopOK
  <2>2. persec[w] \in Nat /\ perMbyte[w] \in Nat /\ n \in Int
    BY <1>0, <2>1 DEF WorkersOK, Records
  <2>3. sec + mb \in Nat /\ n - (sec + mb) > 0
    BY <1>8, <2>2 DEF InterimGrant, InterimCovered, Affords
  <2>4. heap' = [heap EXCEPT ![a] = Extend(heap[a], sec + mb)] /\ Answer(w, g)
    BY <1>8 DEF InterimGrant
  <2> HIDE DEF a, sec, ok, mb, g
  <2>5. Sound(Extend(heap[a], sec + mb)) /\ Extend(heap[a], sec + mb) \in Records
    BY <2>1, <2>3, ExtendSound, RecordTypes DEF AllSound
  <2> QED  BY <1>8, <1>h, <2>1, <2>4, <2>5 DEF InterimGrant, Answer
<1>9. CASE StopSettle(w)
  <2>1. CASE Crash(w)  BY <1>k, <2>1 DEF Crash, records, locals
  <2>2. ASSUME NEW i \in 1 .. Len(list), GoTo(w, "delete"), Point(w, list[i]),
               heap' = IF Match(i, req[w].cid)
                       THEN [heap EXCEPT ![list[i]] = Settle(@, req[w].used)]
                       ELSE heap
        PROVE  LoopOK' /\ AllSound'
    <3>1. CASE ~Match(i, req[w].cid)
      BY <1>0, <1>k, <2>2, <3>1 DEF Point, WorkersOK
    <3>2. CASE Match(i, req[w].cid)
      <4>1. req[w].used \in Amounts  BY <1>9, <1>r DEF StopSettle
      <4>2. /\ Settle(heap[list[i]], req[w].used) \in Records
            /\ Sound(Settle(heap[list[i]], req[w].used))
        BY <1>i, <4>1, SettleSound, RecordTypes
      <4> QED  BY <1>9, <1>h, <1>i, <2>2, <3>2, <4>2 DEF StopSettle
    <3> QED  BY <3>1, <3>2
  <2> QED  BY <1>9, <2>1, <2>2 DEF StopSettle
<1>10. CASE StopDelete(w)
  BY <1>10, <1>p, <1>k DEF StopDelete, Crash, records, locals
<1> QED
  BY <1>1, <1>2, <1>3, <1>4, <1>5, <1>6, <1>7, <1>8, <1>9, <1>10 DEF Step

-----------------------------------------------------------------------------
(***************************************************************************)
(* The inductive invariant and what follows from it.                       *)
(***************************************************************************)
IInv == TypeOK /\ LockHeld /\ LoopOK /\ AllSound

LEMMA InitInv == Init => IInv
<1> SUFFICES ASSUME Init PROVE IInv  OBVIOUS
<1>1. Listed = {}  BY DEF Init, Listed
<1>2. TypeOK
  BY <1>1 DEF Init, TypeOK, PCs, Looping, Zero, Amounts
<1>3. LockHeld  BY NoneAssumption DEF Init, LockHeld, Looping
<1>4. LoopOK /\ AllSound  BY DEF Init, LoopOK, AllSound, Looping
<1> QED  BY <1>2, <1>3, <1>4 DEF IInv

LEMMA NextInv == IInv /\ [Next]_vars => IInv'
<1> SUFFICES ASSUME IInv, [Next]_vars PROVE IInv'  OBVIOUS
<1>1. CASE Next
  <2> PICK w \in Workers : Request(w) \/ Step(w)  BY <1>1 DEF Next
  <2> QED  BY TypeStep, LockStep, RecordsStep DEF IInv
<1>2. CASE UNCHANGED vars
  BY <1>2 DEF vars, records, locals, ctf, IInv, TypeOK, Listed, LockHeld,
              LoopOK, AllSound
<1> QED  BY <1>1, <1>2

\* IInv holds in every reachable state of msg_handler, for any number of
\* workers, sessions, records and repeated requests.
THEOREM Inductive == Spec => []IInv
BY InitInv, NextInv, PTL DEF Spec

\* Every variable keeps its type; the charges of a grant never go negative.
THEOREM TypeCorrect == Spec => []TypeOK
BY Inductive, PTL DEF IInv

\* The client list's lock is held exactly by the worker in a grant loop, or
\* by one that died in a critical section.
THEOREM ListLocked == Spec => []LockHeld
BY Inductive, PTL DEF IInv

\* No sequence of requests takes the last credit of a client before a STOP.
THEOREM CreditLeft == Spec => []NeverOverdrawn
<1>1. IInv => NeverOverdrawn  BY SoundParts DEF IInv
<1> QED  BY <1>1, Inductive, PTL

\* Credits are conserved from START to STOP.
THEOREM CreditsConserved == Spec => []Conservation
<1>1. IInv => Conservation  BY SoundParts DEF IInv
<1> QED  BY <1>1, Inductive, PTL

-----------------------------------------------------------------------------
(***************************************************************************)
(* Sessions.  While no request is repeated, a session has one request at a *)
(* time, and what the list and the ledgers say of it follows from where    *)
(* that request is.                                                        *)
(***************************************************************************)

\* add_client finds memory for as many clients as there are sessions.
EnoughMemory ==
    /\ IsFiniteSet(Cids) /\ IsFiniteSet(Addrs)
    /\ Cardinality(Cids) <= Cardinality(Addrs)

Has(c) == \E a \in Listed : heap[a].cid = c
Reserved(c, n) ==
    \A a \in Listed : heap[a].cid = c => Total(owed[c]) + n = heap[a].credits_buf
Pointed(w) == client[w] \in Listed /\ heap[client[w]].cid = req[w].cid

\* A block is in the list once, and so is a charging id.
OneEach ==
    /\ \A i, j \in 1 .. Len(list) : list[i] = list[j] => i = j
    /\ \A a, b \in Listed : heap[a].cid = heap[b].cid => a = b

Alone ==
    \A v, w \in Workers :
        pc[v] # "idle" /\ pc[w] # "idle" /\ req[v].cid = req[w].cid => v = w

\* A session without a request under way.
IdleOK(c) ==
    /\ session[c] = "closed" => ~Has(c) /\ owed[c] = Zero
    /\ session[c] = "open" => Has(c) /\ Reserved(c, 0)

\* A session with one, by where its worker is.
StartOK(w, c) ==
    /\ pc[w] \in {"START", "add", "find", "addAgain", "findAgain", "startLoop"} =>
         req[w].kind = "START" /\ owed[c] = Zero
    /\ pc[w] \in {"START", "add", "addAgain"} => ~Has(c)
    /\ pc[w] \in {"find", "findAgain"} =>
         \A a \in Listed : heap[a].cid = c => heap[a].phase = "added"
    /\ pc[w] = "findAgain" => Has(c)
InterimOK(w, c) ==
    /\ pc[w] \in {"INTERIM", "interimLoop"} => req[w].kind = "INTERIM"
    /\ pc[w] = "INTERIM" => Has(c) /\ Reserved(c, Total(req[w].used))
    /\ pc[w] = "interimLoop" => Reserved(c, 0)
StopOK(w, c) ==
    /\ pc[w] \in {"STOP", "delete"} => req[w].kind = "STOP"
    /\ pc[w] = "STOP" => Has(c)
BusyOK(w) ==
    pc[w] # "idle" =>
        /\ session[req[w].cid] = "busy"
        /\ StartOK(w, req[w].cid) /\ InterimOK(w, req[w].cid) /\ StopOK(w, req[w].cid)
        /\ pc[w] \in Looping \cup {"delete"} => Pointed(w)

SessionsOK ==
    /\ OneEach /\ Alone
    /\ \A c \in Cids : IdleOK(c)
    /\ \A w \in Workers : BusyOK(w)

\* A step that concerns session c leaves what is said of the others.
LEMMA OthersKept ==
    ASSUME TypeOK, NEW w \in Workers, NEW c \in Cids,
           \A d \in Cids : IdleOK(d), \A v \in Workers : BusyOK(v),
           \A v \in Workers \ {w} :
             /\ pc'[v] = pc[v] /\ req'[v] = req[v] /\ client'[v] = client[v]
             /\ pc[v] # "idle" => req[v].cid # c,
           \A d \in Cids \ {c} : session'[d] = session[d] /\ owed'[d] = owed[d],
           \A a \in Listed' : heap'[a].cid # c => a \in Listed /\ heap'[a] = heap[a],
           \A a \in Listed : heap[a].cid # c => a \in Listed' /\ heap'[a] = heap[a]
    PROVE  /\ \A d \in Cids \ {c} : IdleOK(d)'
           /\ \A v \in Workers \ {w} : BusyOK(v)'
<1>1. ASSUME NEW d \in Cids \ {c}
      PROVE  /\ Has(d)' <=> Has(d)
             /\ \A n : Reserved(d, n) => Reserved(d, n)'
  BY <1>1 DEF Has, Reserved
<1>2. ASSUME NEW d \in Cids \ {c}  PROVE IdleOK(d)'
  BY <1>1, <1>2 DEF IdleOK
<1>3. ASSUME NEW v \in Workers \ {w}  PROVE BusyOK(v)'
  <2> SUFFICES ASSUME pc'[v] # "idle"
               PROVE  BusyOK(v)'
    BY DEF BusyOK
  <2> DEFINE d == req[v].cid
  <2>1. pc'[v] = pc[v] /\ req'[v] = req[v] /\ client'[v] = client[v]
    OBVIOUS
  <2>2. d \in Cids \ {c}
    BY <2>1 DEF TypeOK, Requests
  <2>3. /\ session[d] = "busy" /\ StartOK(v, d) /\ InterimOK(v, d) /\ StopOK(v, d)
        /\ pc[v] \in Looping \cup {"delete"} => Pointed(v)
    BY <2>1 DEF BusyOK
  <2>4. session'[d] = "busy"
    BY <2>2, <2>3
  <2>5. StartOK(v, d)'
    <3>1. \A a \in Listed' : heap'[a].cid = d => a \in Listed /\ heap'[a] = heap[a]
      BY <2>2
    <3> QED  BY <1>1, <2>1, <2>2, <2>3, <3>1 DEF StartOK
  <2>6. InterimOK(v, d)'
    BY <1>1, <2>1, <2>2, <2>3 DEF InterimOK
  <2>7. StopOK(v, d)'
    BY <1>1, <2>1, <2>2, <2>3 DEF StopOK
  <2>8. pc'[v] \in Looping \cup {"delete"} => Pointed(v)'
    BY <2>1, <2>2, <2>3 DEF Pointed
  <2> QED  BY <2>1, <2>4, <2>5, <2>6, <2>7, <2>8 DEF BusyOK
<1> QED  BY <1>2, <1>3

\* The search ends at the record of a session that is listed.
LEMMA SearchFinds ==
    ASSUME NEW c, NEW i \in 1 .. Len(list), Found(i, c), Len(list) \in Nat
    PROVE  Has(c) <=> Match(i, c)
BY DEF Has, Found, Match, Listed

LEMMA MemoryIsLeft ==
    ASSUME EnoughMemory, ListOK, OneEach, NEW c \in Cids, ~Has(c)
    PROVE  ~(Addrs \subseteq Listed)
<1> SUFFICES ASSUME Addrs \subseteq Listed PROVE FALSE
  OBVIOUS
<1> DEFINE f == [a \in Addrs |-> heap[a].cid]
<1>1. f \in [Addrs -> Cids \ {c}]
  BY NoneAssumption DEF ListOK, Has, Records
<1>2. IsFiniteSet(Cids \ {c}) /\ Cardinality(Cids \ {c}) < Cardinality(Addrs)
  <2>1. Cardinality(Cids) \in Nat /\ Cardinality(Addrs) \in Nat
    BY FS_CardinalityType DEF EnoughMemory
  <2>2. IsFiniteSet(Cids \ {c}) /\ Cardinality(Cids \ {c}) = Cardinality(Cids) - 1
    BY FS_RemoveElement DEF EnoughMemory
  <2> QED  BY <2>1, <2>2 DEF EnoughMemory
<1> HIDE DEF f
<1>3. PICK x, y \in Addrs : x # y /\ f[x] = f[y]
  BY <1>1, <1>2, FS_PigeonHole DEF EnoughMemory
<1>4. heap[x].cid = heap[y].cid
  BY <1>3 DEF f
<1> QED  BY <1>3, <1>4 DEF OneEach

\* A step of the worker that handles a request of session c.
LEMMA SessionStep ==
    ASSUME TypeOK, SessionsOK, NEW w \in Workers, pc[w] # "idle",
           NEW c \in Cids, c = req[w].cid,
           \A v \in Workers \ {w} :
             pc'[v] = pc[v] /\ req'[v] = req[v] /\ client'[v] = client[v],
           \A d \in Cids \ {c} : session'[d] = session[d] /\ owed'[d] = owed[d],
           \A a \in Listed' : heap'[a].cid # c => a \in Listed /\ heap'[a] = heap[a],
           \A a \in Listed : heap[a].cid # c => a \in Listed' /\ heap'[a] = heap[a],
           pc'[w] # "idle" => req'[w] = req[w],
           OneEach', IdleOK(c)', BusyOK(w)'
    PROVE  SessionsOK'
<1>1. \A v \in Workers \ {w} : pc[v] # "idle" => req[v].cid # c
  BY DEF SessionsOK, Alone
<1>2. /\ \A d \in Cids \ {c} : IdleOK(d)'
      /\ \A v \in Workers \ {w} : BusyOK(v)'
  BY <1>1, OthersKept DEF SessionsOK
<1>3. Alone'
  <2> SUFFICES ASSUME NEW v \in Workers, NEW x \in Workers, pc'[v] # "idle", pc'[x] # "idle",
                      req'[v].cid = req'[x].cid
               PROVE  v = x
    BY DEF Alone
  <2>1. \A y \in {v, x} : pc[y] # "idle" /\ req'[y] = req[y]
    OBVIOUS
  <2> QED  BY <2>1 DEF SessionsOK, Alone
<1> QED  BY <1>2, <1>3 DEF SessionsOK

\* Three kinds of steps on the records: none changes, one does, one more is listed.
LEMMA NoRecord ==
    ASSUME SessionsOK, UNCHANGED records
    PROVE  /\ Listed' = Listed /\ UNCHANGED heap /\ OneEach'
           /\ \A d : Has(d)' <=> Has(d)
           /\ \A a \in Listed' : a \in Listed /\ heap'[a] = heap[a]
           /\ \A a \in Listed : a \in Listed' /\ heap'[a] = heap[a]
<1>1. Listed' = Listed /\ UNCHANGED list /\ UNCHANGED heap
  BY DEF Listed, records
<1> QED  BY <1>1 DEF SessionsOK, OneEach, Has

LEMMA OneRecord ==
    ASSUME TypeOK, SessionsOK, NEW a \in Listed, NEW r, NEW c, heap[a].cid = c, r.cid = c,
           heap' = [heap EXCEPT ![a] = r], UNCHANGED list
    PROVE  /\ Listed' = Listed /\ OneEach' /\ heap'[a] = r
           /\ \A b \in Listed' : heap'[b].cid = c => b = a
           /\ \A b \in Listed' : heap'[b].cid # c => b \in Listed /\ heap'[b] = heap[b]
           /\ \A b \in Listed : heap[b].cid # c => b \in Listed' /\ heap'[b] = heap[b]
<1>1. a \in Addrs /\ Listed' = Listed /\ Listed \subseteq Addrs
  BY DEF TypeOK, Listed
<1>2. heap'[a] = r /\ \A b \in Listed \ {a} : heap'[b] = heap[b]
  BY <1>1 DEF TypeOK
<1>3. \A b \in Listed : heap[b].cid = c => b = a
  BY DEF SessionsOK, OneEach
<1>4. \A b \in Listed : heap'[b].cid = heap[b].cid
  BY <1>2
<1>5. OneEach'
  BY <1>1, <1>4 DEF SessionsOK, OneEach
<1> QED  BY <1>1, <1>2, <1>3, <1>4, <1>5

LEMMA NewlyListed ==
    ASSUME TypeOK, SessionsOK, NEW a \in Addrs \ Listed, NEW r, NEW c, ~Has(c), r.cid = c,
           heap' = [heap EXCEPT ![a] = r], list' = Append(list, a)
    PROVE  /\ a \in Listed' /\ OneEach' /\ heap'[a] = r
           /\ \A b \in Listed' : heap'[b].cid = c => b = a
           /\ \A b \in Listed' : heap'[b].cid # c => b \in Listed /\ heap'[b] = heap[b]
           /\ \A b \in Listed : heap[b].cid # c => b \in Listed' /\ heap'[b] = heap[b]
<1>1. list \in Seq(Addrs) /\ Len(list) \in Nat
  BY DEF TypeOK
<1>2. /\ Len(list') = Len(list) + 1 /\ list'[Len(list) + 1] = a
      /\ \A i \in 1 .. Len(list) : list'[i] = list[i]
  BY <1>1, AppendProperties
<1>3. Listed' = Listed \cup {a} /\ Listed \subseteq Addrs
  <2>1. \A i \in 1 .. Len(list) + 1 : i \in 1 .. Len(list) \/ i = Len(list) + 1
    BY <1>1
  <2>2. Len(list) + 1 \in 1 .. Len(list) + 1 /\ \A i \in 1 .. Len(list) : i \in 1 .. Len(list) + 1
    BY <1>1
  <2> QED  BY <1>1, <1>2, <2>1, <2>2 DEF Listed
<1>4. heap'[a] = r /\ \A b \in Listed : heap'[b] = heap[b]
  BY <1>3 DEF TypeOK
<1>5. \A b \in Listed : heap[b].cid # c
  BY DEF Has
<1>6. \A i, j \in 1 .. Len(list') : list'[i] = list'[j] => i = j
  <2> SUFFICES ASSUME NEW i \in 1 .. Len(list'), NEW j \in 1 .. Len(list'), list'[i] = list'[j]
               PROVE  i = j
    OBVIOUS
  <2>1. \A k \in 1 .. Len(list') :
          \/ k \in 1 .. Len(list) /\ list'[k] = list[k] /\ list[k] \in Listed
          \/ k = Len(list) + 1 /\ list'[k] = a
    BY <1>1, <1>2 DEF Listed
  <2> QED  BY <2>1 DEF SessionsOK, OneEach
<1>7. \A b, d \in Listed' : heap'[b].cid = heap'[d].cid => b = d
  BY <1>3, <1>4, <1>5 DEF SessionsOK, OneEach
<1>8. OneEach'
  BY <1>6, <1>7 DEF OneEach
<1> QED  BY <1>3, <1>4, <1>5, <1>8

LEMMA Delisted ==
    ASSUME TypeOK, SessionsOK, NEW i \in 1 .. Len(list), NEW c, Match(i, c),
           UNCHANGED heap, list' = Without(i)
    PROVE  /\ ~Has(c)' /\ OneEach'
           /\ \A b \in Listed' : b \in Listed
           /\ \A b \in Listed : heap[b].cid # c => b \in Listed'
<1>1. list \in Seq(Addrs) /\ Len(list) \in Nat
  BY DEF TypeOK
<1>2. /\ Len(list') = Len(list) - 1
      /\ \A j \in 1 .. Len(list) - 1 : list'[j] = IF j < i THEN list[j] ELSE list[j + 1]
  BY <1>1, WithoutType
<1>3. \A j \in 1 .. Len(list') : \E k \in 1 .. Len(list) :
         k # i /\ list'[j] = list[k] /\ k = IF j < i THEN j ELSE j + 1
  <2> SUFFICES ASSUME NEW j \in 1 .. Len(list')
               PROVE  \E k \in 1 .. Len(list) :
                        k # i /\ list'[j] = list[k] /\ k = IF j < i THEN j ELSE j + 1
    OBVIOUS
  <2>1. CASE j < i  BY <1>1, <1>2, <2>1
  <2>2. CASE ~(j < i)
    <3>1. j + 1 \in 1 .. Len(list) /\ j + 1 # i  BY <1>1, <1>2, <2>2
    <3> QED  BY <1>2, <2>2, <3>1
  <2> QED  BY <2>1, <2>2
<1>4. \A k \in 1 .. Len(list) : k # i => \E j \in 1 .. Len(list') : list'[j] = list[k]
  <2> SUFFICES ASSUME NEW k \in 1 .. Len(list), k # i
               PROVE  \E j \in 1 .. Len(list') : list'[j] = list[k]
    OBVIOUS
  <2>1. CASE k < i
    <3>1. k \in 1 .. Len(list')  BY <1>1, <1>2, <2>1
    <3> QED  BY <1>2, <2>1, <3>1
  <2>2. CASE k > i
    <3>1. k - 1 \in 1 .. Len(list') /\ ~(k - 1 < i) /\ k - 1 + 1 = k  BY <1>1, <1>2, <2>2
    <3> QED  BY <1>2, <3>1
  <2> QED  BY <2>1, <2>2
<1>5. list[i] \in Listed /\ heap[list[i]].cid = c
  BY DEF Match, Listed
<1>6. \A b \in Listed' : b \in Listed /\ b # list[i]
  BY <1>3 DEF Listed, SessionsOK, OneEach
<1>7. \A b \in Listed : b # list[i] => b \in Listed'
  BY <1>4 DEF Listed
<1>8. ~Has(c)'
  BY <1>5, <1>6 DEF Has, SessionsOK, OneEach
<1>9. \A j, k \in 1 .. Len(list') : list'[j] = list'[k] => j = k
  <2> SUFFICES ASSUME NEW j \in 1 .. Len(list'), NEW k \in 1 .. Len(list'), list'[j] = list'[k]
               PROVE  j = k
    OBVIOUS
  <2>1. PICK m \in 1 .. Len(list) : list'[j] = list[m] /\ m # i /\ m = IF j < i THEN j ELSE j + 1
    BY <1>3
  <2>2. PICK n \in 1 .. Len(list) : list'[k] = list[n] /\ n # i /\ n = IF k < i THEN k ELSE k + 1
    BY <1>3
  <2>3. m = n
    BY <2>1, <2>2 DEF SessionsOK, OneEach
  <2>4. j \in Nat /\ k \in Nat
    OBVIOUS
  <2> QED  BY <2>1, <2>2, <2>3, <2>4
<1>10. OneEach'
  BY <1>6, <1>9 DEF OneEach, SessionsOK
<1> QED  BY <1>5, <1>6, <1>7, <1>8, <1>10

\* A new request: of a closed session a START, of an open one an INTERIM or the STOP.
LEMMA RequestSessions ==
    ASSUME Retries = FALSE, TypeOK, SessionsOK, NEW w \in Workers, Request(w)
    PROVE  SessionsOK'
<1> PICK k \in Kinds, c \in Cids :
         /\ session[c] = (IF k = "START" THEN "closed" ELSE "open")
         /\ \E u \in IF k = "START" THEN {Zero} ELSE UsedUpTo(owed[c]) :
              /\ req' = [req EXCEPT ![w] = [kind |-> k, cid |-> c, used |-> u]]
              /\ owed' = [owed EXCEPT ![c] = Less(@, u)]
         /\ session' = [session EXCEPT ![c] = "busy"]
         /\ GoTo(w, k)
  BY DEF Request, Ready
<1> PICK u \in IF k = "START" THEN {Zero} ELSE UsedUpTo(owed[c]) :
         /\ req' = [req EXCEPT ![w] = [kind |-> k, cid |-> c, used |-> u]]
         /\ owed' = [owed EXCEPT ![c] = Less(@, u)]
  OBVIOUS
<1>1. /\ pc'[w] = k /\ req'[w] = [kind |-> k, cid |-> c, used |-> u]
      /\ session'[c] = "busy" /\ owed'[c] = Less(owed[c], u)
      /\ \A v \in Workers \ {w} :
           pc'[v] = pc[v] /\ req'[v] = req[v] /\ client'[v] = client[v]
      /\ \A d \in Cids \ {c} : session'[d] = session[d] /\ owed'[d] = owed[d]
  BY DEF TypeOK, GoTo, Request, locals
<1>2. \A v \in Workers : pc[v] # "idle" => req[v].cid # c
  BY DEF SessionsOK, BusyOK
<1>3. UNCHANGED records
  BY DEF Request
<1>4. Listed' = Listed /\ OneEach' /\ (Has(c)' <=> Has(c)) /\ UNCHANGED heap
  BY <1>3, NoRecord
<1>5. /\ \A d \in Cids \ {c} : IdleOK(d)'
      /\ \A v \in Workers \ {w} : BusyOK(v)'
  <2>1. /\ \A a \in Listed' : heap'[a].cid # c => a \in Listed /\ heap'[a] = heap[a]
        /\ \A a \in Listed : heap[a].cid # c => a \in Listed' /\ heap'[a] = heap[a]
    BY <1>4
  <2>2. \A v \in Workers \ {w} :
          /\ pc'[v] = pc[v] /\ req'[v] = req[v] /\ client'[v] = client[v]
          /\ pc[v] # "idle" => req[v].cid # c
    BY <1>1, <1>2
  <2>3. \A d \in Cids \ {c} : session'[d] = session[d] /\ owed'[d] = owed[d]
    BY <1>1
  <2>4. (\A d \in Cids : IdleOK(d)) /\ (\A v \in Workers : BusyOK(v))
    BY DEF SessionsOK
  <2> QED  BY <2>1, <2>2, <2>3, <2>4, OthersKept
<1>6. IdleOK(c)'
  BY <1>1 DEF IdleOK
<1>7. Alone'
  BY <1>1, <1>2 DEF Alone, SessionsOK
<1>8. owed[c] \in Amounts
  BY DEF TypeOK
<1>9. k # "START" => Total(Less(owed[c], u)) + Total(u) = Total(owed[c])
  BY <1>8 DEF UsedUpTo, Amounts, Less, Total
<1>10. k = "START" => Less(owed[c], u) = Zero
  BY DEF SessionsOK, IdleOK, Less, Zero
<1>11. BusyOK(w)'
  <2>1. CASE k = "START"
    BY <1>1, <1>4, <1>10, <2>1 DEF SessionsOK, IdleOK, BusyOK, StartOK, InterimOK, StopOK, Looping
  <2>2. CASE k = "INTERIM"
    <3>1. Has(c) /\ Reserved(c, 0)
      BY <2>2 DEF SessionsOK, IdleOK
    <3>2. Reserved(c, Total(u))'
      <4> SUFFICES ASSUME NEW a \in Listed, heap[a].cid = c
                   PROVE  Total(owed'[c]) + Total(u) = heap[a].credits_buf
        BY <1>4 DEF Reserved
      <4>1. Total(owed[c]) + 0 = heap[a].credits_buf
        BY <3>1 DEF Reserved
      <4>2. Total(owed[c]) \in Nat
        BY <1>8 DEF Total, Amounts
      <4> QED  BY <1>1, <1>9, <2>2, <4>1, <4>2
    <3> QED
      BY <1>1, <1>4, <2>2, <3>1, <3>2 DEF BusyOK, StartOK, InterimOK, StopOK, Looping
  <2>3. CASE k = "STOP"
    BY <1>1, <1>4, <2>3 DEF SessionsOK, IdleOK, BusyOK, StartOK, InterimOK, StopOK, Looping
  <2> QED  BY <2>1, <2>2, <2>3 DEF Kinds
<1> QED  BY <1>4, <1>5, <1>6, <1>7, <1>11 DEF SessionsOK

\* What a worker of msg_handler does to its own session and to the others.
LEMMA HandlerSessions ==
    ASSUME Retries = FALSE, EnoughMemory, TypeOK, AllSound, SessionsOK,
           NEW w \in Workers, Step(w), NEW c, c = req[w].cid
    PROVE  SessionsOK'
<1> USE DEF Looping
<1>0. pc[w] # "idle"
  BY DEF Step, StartCheck, AddClient, StartFind, StartHalve, StartGrant, InterimFind,
         InterimHalve, InterimGrant, StopSettle, StopDelete
<1>c. req[w] \in Requests /\ c \in Cids /\ req[w].used \in Amounts
  BY <1>0 DEF TypeOK, Requests
<1>b. /\ session[c] = "busy" /\ StartOK(w, c) /\ InterimOK(w, c) /\ StopOK(w, c)
      /\ pc[w] \in {"startLoop", "interimLoop", "delete"} => Pointed(w)
  BY <1>0 DEF SessionsOK, BusyOK
<1>l. list \in Seq(Addrs) /\ Len(list) \in Nat /\ ListOK
  BY TypeParts DEF TypeOK
<1>o. owed[c] \in Amounts
  BY <1>c DEF TypeOK
<1>n. UNCHANGED records =>
        /\ Listed' = Listed /\ UNCHANGED heap /\ OneEach'
        /\ \A d : Has(d)' <=> Has(d)
        /\ \A a \in Listed' : a \in Listed /\ heap'[a] = heap[a]
        /\ \A a \in Listed : a \in Listed' /\ heap'[a] = heap[a]
  BY NoRecord
\* What a step on the way to the answer leaves alone.
<1>w. ASSUME NEW l, GoTo(w, l), UNCHANGED <<req, ctf>>,
             \A v \in Workers \ {w} : client'[v] = client[v]
      PROVE  /\ pc'[w] = l /\ req'[w] = req[w] /\ owed'[c] = owed[c] /\ session'[c] = "busy"
             /\ \A v \in Workers \ {w} :
                  pc'[v] = pc[v] /\ req'[v] = req[v] /\ client'[v] = client[v]
             /\ \A d \in Cids \ {c} : session'[d] = session[d] /\ owed'[d] = owed[d]
             /\ IdleOK(c)'
  BY <1>b, <1>w DEF TypeOK, GoTo, ctf, IdleOK
\* What the answer does.
<1>a. ASSUME NEW g, Answer(w, g)
      PROVE  /\ pc'[w] = "idle" /\ BusyOK(w)'
             /\ session'[c] = IF req[w].kind = "STOP" THEN "closed" ELSE "open"
             /\ owed'[c] = IF req[w].kind = "STOP" THEN Zero ELSE Plus(owed[c], g)
             /\ \A v \in Workers \ {w} :
                  pc'[v] = pc[v] /\ req'[v] = req[v] /\ client'[v] = client[v]
             /\ \A d \in Cids \ {c} : session'[d] = session[d] /\ owed'[d] = owed[d]
  BY <1>c, <1>a DEF TypeOK, Answer, GoTo, Point, BusyOK
<1>k. ASSUME Crash(w)  PROVE SessionsOK'
  <2>1. GoTo(w, "crashed") /\ UNCHANGED <<req, ctf>> /\ UNCHANGED records /\ UNCHANGED client
    BY <1>k DEF Crash, locals
  <2>2. pc'[w] = "crashed" /\ req'[w] = req[w] /\ session'[c] = "busy"
    BY <1>w, <2>1
  <2>3. BusyOK(w)'
    BY <2>2 DEF BusyOK, StartOK, InterimOK, StopOK
  <2> QED
    BY <1>0, <1>c, <1>w, <2>1, <2>2, <2>3, <1>n, SessionStep
<1>1. CASE StartCheck(w)
  <2> DEFINE l == IF list = << >> THEN "add" ELSE "find"
  <2>1. GoTo(w, l) /\ UNCHANGED <<req, ctf>> /\ UNCHANGED records /\ UNCHANGED client
    BY <1>1 DEF StartCheck, locals
  <2>2. l \in {"add", "find"}
    OBVIOUS
  <2> HIDE DEF l
  <2>3. pc'[w] = l /\ req'[w] = req[w] /\ session'[c] = "busy" /\ owed'[c] = owed[c]
    BY <1>w, <2>1
  <2>4. ~Has(c) /\ ~Has(c)' /\ req[w].kind = "START" /\ owed[c] = Zero
    BY <1>1, <1>b, <1>n, <2>1 DEF StartCheck, StartOK
  <2>5. BusyOK(w)'
    BY <2>2, <2>3, <2>4 DEF BusyOK, StartOK, InterimOK, StopOK, Has
  <2> QED
    BY <1>0, <1>c, <1>w, <2>1, <2>3, <2>5, <1>n, SessionStep
<1>2. CASE AddClient(w)
  <2> DEFINE l == IF pc[w] = "add" THEN "find" ELSE "findAgain"
  <2>1. GoTo(w, l) /\ UNCHANGED <<req, ctf>> /\ UNCHANGED client
    BY <1>2 DEF AddClient, locals
  <2>2. l \in {"find", "findAgain"}
    OBVIOUS
  <2> HIDE DEF l
  <2>3. pc'[w] = l /\ req'[w] = req[w] /\ session'[c] = "busy" /\ owed'[c] = owed[c]
    BY <1>w, <2>1
  <2>4. ~Has(c) /\ req[w].kind = "START" /\ owed[c] = Zero
    BY <1>2, <1>b DEF AddClient, StartOK
  <2>5. PICK a \in Addrs \ Listed, b \in Garbage :
          heap' = [heap EXCEPT ![a] = NewRecord(c, b)] /\ list' = Append(list, a)
    BY <1>2, <1>c, <1>l, <2>4, MemoryIsLeft DEF AddClient, SessionsOK
  <2>6. PICK r : r.cid = c /\ r.phase = "added" /\ heap' = [heap EXCEPT ![a] = r]
    BY <2>5 DEF NewRecord, Record
  <2>7. /\ a \in Listed' /\ OneEach' /\ heap'[a] = r
        /\ \A x \in Listed' : heap'[x].cid = c => x = a
        /\ \A x \in Listed' : heap'[x].cid # c => x \in Listed /\ heap'[x] = heap[x]
        /\ \A x \in Listed : heap[x].cid # c => x \in Listed' /\ heap'[x] = heap[x]
    BY <2>4, <2>5, <2>6, NewlyListed
  <2>8. BusyOK(w)'
    BY <2>2, <2>3, <2>4, <2>6, <2>7 DEF BusyOK, StartOK, InterimOK, StopOK, Has
  <2> QED
    BY <1>0, <1>c, <1>w, <2>1, <2>3, <2>7, <2>8, SessionStep
<1>3. CASE StartFind(w)
  <2>1. CASE Crash(w)
    BY <1>k, <2>1
  <2>2. CASE ~Crash(w)
    <3>1. PICK i \in 1 .. Len(list) :
            /\ Found(i, c)
            /\ \/ Match(i, c) /\ StartEnter(w, list[i])
               \/ /\ ~Match(i, c) /\ pc[w] = "find"
                  /\ GoTo(w, "addAgain")
                  /\ UNCHANGED <<lock, req, locals, ctf>>
               \/ /\ ~Match(i, c) /\ pc[w] = "findAgain"
                  /\ Answer(w, Zero)
                  /\ UNCHANGED lock
            /\ UNCHANGED records
      BY <1>3, <2>2 DEF StartFind
    <3>2. Has(c) <=> Match(i, c)
      BY <1>l, <3>1, SearchFinds
    <3>3. req[w].kind = "START" /\ owed[c] = Zero /\ (pc[w] = "findAgain" => Has(c))
      BY <1>3, <1>b DEF StartFind, StartOK
    <3>4. CASE Match(i, c)
      <4>1. list[i] \in Listed /\ heap[list[i]].cid = c /\ heap[list[i]] \in Records
        BY <1>l, <3>4, FoundListed DEF Match
      <4>2. heap[list[i]].phase = "added"
        BY <1>3, <1>b, <4>1 DEF StartFind, StartOK
      <4>3. heap[list[i]].credits >= 1 /\ heap[list[i]].credits \in Int
        BY <1>l, <4>1, <4>2, FoundListed, NoneAssumption DEF AllSound, Sound, Records
      <4>4. StartEnter(w, list[i]) /\ heap[list[i]].credits > 0 /\ ~(heap[list[i]].credits <= 0)
        BY <3>1, <3>4, <4>3
      <4>5. Point(w, list[i]) /\ GoTo(w, "startLoop") /\ UNCHANGED <<req, ctf>>
        BY <4>4 DEF StartEnter
      <4>6. /\ client'[w] = list[i]
            /\ \A v \in Workers \ {w} : client'[v] = client[v]
        BY <4>5 DEF Point, TypeOK
      <4>7. pc'[w] = "startLoop" /\ req'[w] = req[w] /\ session'[c] = "busy" /\ owed'[c] = owed[c]
        BY <1>w, <4>5, <4>6
      <4>8. Listed' = Listed /\ UNCHANGED heap
        BY <1>n, <3>1
      <4>9. BusyOK(w)'
        BY <3>3, <4>1, <4>6, <4>7, <4>8 DEF BusyOK, StartOK, InterimOK, StopOK, Pointed
      <4> QED
        BY <1>0, <1>c, <1>w, <3>1, <4>5, <4>6, <4>7, <4>9, <1>n, SessionStep
    <3>5. CASE ~Match(i, c)
      <4>1. GoTo(w, "addAgain") /\ UNCHANGED <<req, ctf>> /\ UNCHANGED client
        BY <3>1, <3>2, <3>3, <3>5 DEF locals
      <4>2. pc'[w] = "addAgain" /\ req'[w] = req[w] /\ session'[c] = "busy" /\ owed'[c] = owed[c]
        BY <1>w, <4>1
      <4>3. ~Has(c)'
        BY <1>n, <3>1, <3>2, <3>5
      <4>4. BusyOK(w)'
        BY <3>3, <4>2, <4>3 DEF BusyOK, StartOK, InterimOK, StopOK
      <4> QED
        BY <1>0, <1>c, <1>w, <3>1, <4>1, <4>2, <4>4, <1>n, SessionStep
    <3> QED  BY <3>4, <3>5
  <2> QED  BY <2>1, <2>2
<1>4. CASE StartHalve(w) \/ InterimHalve(w)
  <2>1. /\ UNCHANGED records /\ UNCHANGED heap
        /\ UNCHANGED pc /\ UNCHANGED req /\ UNCHANGED client
        /\ UNCHANGED session /\ UNCHANGED owed
    BY <1>4 DEF StartHalve, InterimHalve, records, ctf
  <2>2. Listed' = Listed /\ OneEach'
    BY <1>n, <2>1
  <2>3. /\ \A d : Has(d)' <=> Has(d)
        /\ \A d, n : Reserved(d, n)' <=> Reserved(d, n)
        /\ \A v : Pointed(v)' <=> Pointed(v)
    BY <2>1, <2>2 DEF Has, Reserved, Pointed
  <2>4. IdleOK(c)'
    BY <1>c, <2>1, <2>3 DEF SessionsOK, IdleOK
  <2>5. StartOK(w, c)' /\ InterimOK(w, c)' /\ StopOK(w, c)'
    BY <1>b, <2>1, <2>2, <2>3 DEF StartOK, InterimOK, StopOK
  <2>6. BusyOK(w)'
    BY <1>b, <2>1, <2>3, <2>5 DEF BusyOK
  <2> QED  BY <1>0, <1>c, <2>1, <2>2, <2>4, <2>6, SessionStep
<1>5. CASE StartGrant(w)
  <2> DEFINE a == client[w]
             g == IF /\ Affords(heap[a].credits, OnceOff)
                     /\ Affords(heap[a].credits - OnceOff, persec[w])
                     /\ Affords(heap[a].credits - OnceOff - persec[w], perMbyte[w])
                  THEN [once |-> OnceOff, sec |-> persec[w], mb |-> perMbyte[w]]
                  ELSE Zero
             r == Reserve(heap[a], g)
  <2>1. a \in Listed /\ heap[a].cid = c /\ req[w].kind = "START" /\ owed[c] = Zero
    BY <1>5, <1>b DEF StartGrant, Pointed, StartOK
  <2>2. g \in Amounts
    BY DEF TypeOK, Amounts, Zero
  <2>3. /\ heap' = [heap EXCEPT ![a] = r] /\ Answer(w, g) /\ UNCHANGED list
    BY <1>5 DEF StartGrant
  <2> HIDE DEF a, g
  <2>4. r.cid = c /\ r.credits_buf = Total(g)
    BY <2>1 DEF Reserve, Record
  <2> HIDE DEF r
  <2>5. /\ Listed' = Listed /\ OneEach' /\ heap'[a] = r
        /\ \A b \in Listed' : heap'[b].cid = c => b = a
        /\ \A b \in Listed' : heap'[b].cid # c => b \in Listed /\ heap'[b] = heap[b]
        /\ \A b \in Listed : heap[b].cid # c => b \in Listed' /\ heap'[b] = heap[b]
    <3>1. heap' = [heap EXCEPT ![a] = r] /\ UNCHANGED list
      BY <2>3
    <3>2. a \in Listed /\ heap[a].cid = c /\ r.cid = c
      BY <2>1, <2>4
    <3> QED  BY <3>1, <3>2, OneRecord
  <2>6. session'[c] = "open" /\ owed'[c] = Plus(Zero, g)
    BY <1>a, <2>1, <2>3
  <2>7. Total(Plus(Zero, g)) + 0 = Total(g)
    BY <2>2 DEF Plus, Zero, Total, Amounts
  <2>8. IdleOK(c)'
    BY <2>1, <2>4, <2>5, <2>6, <2>7 DEF IdleOK, Has, Reserved
  <2> QED
    BY <1>0, <1>c, <1>a, <2>3, <2>5, <2>8, SessionStep
<1>6. CASE InterimFind(w)
  <2> DEFINE u == req[w].used
  <2>1. CASE Crash(w)
    BY <1>k, <2>1
  <2>2. CASE ~Crash(w)
    <3>1. req[w].kind = "INTERIM" /\ Has(c) /\ Reserved(c, Total(u))
      BY <1>6, <1>b DEF InterimFind, InterimOK
    <3>2. PICK i \in 1 .. Len(list) :
            /\ Match(i, c)
            /\ heap' = [heap EXCEPT ![list[i]] = Consume(heap[list[i]], u)]
            /\ Point(w, list[i])
            /\ GoTo(w, "interimLoop")
            /\ UNCHANGED <<list, req, ctf>>
      <4>1. \A i \in 1 .. Len(list) : Found(i, c) => Match(i, c)
        BY <1>l, <3>1, SearchFinds
      <4> QED  BY <1>6, <2>2, <4>1 DEF InterimFind
    <3> DEFINE a == list[i]
               r == Consume(heap[a], u)
    <3>3. a \in Listed /\ heap[a].cid = c /\ heap[a] \in Records /\ a \in Addrs
      BY <1>l, <3>2, FoundListed DEF Match
    <3>4. heap' = [heap EXCEPT ![a] = r] /\ UNCHANGED list
      BY <3>2
    <3>5. r.cid = c /\ r.credits_buf = heap[a].credits_buf - Total(u)
      BY <3>3 DEF Consume, ConsumeBuf, Record
    <3>6. client'[w] = a /\ \A v \in Workers \ {w} : client'[v] = client[v]
      BY <3>2 DEF Point, TypeOK
    <3>7. Total(owed[c]) + Total(u) = heap[a].credits_buf
      BY <3>1, <3>3 DEF Reserved
    <3> HIDE DEF a, r, u
    <3>8. /\ Listed' = Listed /\ OneEach' /\ heap'[a] = r
          /\ \A b \in Listed' : heap'[b].cid = c => b = a
          /\ \A b \in Listed' : heap'[b].cid # c => b \in Listed /\ heap'[b] = heap[b]
          /\ \A b \in Listed : heap[b].cid # c => b \in Listed' /\ heap'[b] = heap[b]
      BY <3>3, <3>4, <3>5, OneRecord
    <3>9. pc'[w] = "interimLoop" /\ req'[w] = req[w] /\ session'[c] = "busy" /\ owed'[c] = owed[c]
      BY <1>w, <3>2, <3>6
    <3>10. Total(owed[c]) + 0 = r.credits_buf
      <4>1. Total(owed[c]) \in Nat /\ Total(u) \in Nat
        <5>1. u \in Amounts  BY <1>c DEF u
        <5>2. \A x \in Amounts : Total(x) \in Nat  BY DEF Total, Amounts
        <5> QED  BY <1>o, <5>1, <5>2
      <4> QED  BY <3>5, <3>7, <4>1
    <3>11. BusyOK(w)'
      <4>1. Pointed(w)'
        BY <3>3, <3>5, <3>6, <3>8, <3>9 DEF Pointed
      <4>2. Reserved(c, 0)'
        BY <3>8, <3>9, <3>10 DEF Reserved
      <4> QED
        BY <3>1, <3>9, <4>1, <4>2 DEF BusyOK, StartOK, InterimOK, StopOK
    <3> QED
      BY <1>0, <1>c, <1>w, <3>2, <3>6, <3>8, <3>9, <3>11, SessionStep
  <2> QED  BY <2>1, <2>2
<1>7. CASE InterimGrant(w)
  <2> DEFINE a == client[w]
             g == [once |-> 0, sec |-> persec[w], mb |-> perMbyte[w]]
             r == Extend(heap[a], persec[w] + perMbyte[w])
  <2>1. /\ a \in Listed /\ heap[a].cid = c /\ req[w].kind = "INTERIM"
        /\ Total(owed[c]) + 0 = heap[a].credits_buf
    BY <1>7, <1>b DEF InterimGrant, Pointed, InterimOK, Reserved
  <2>2. heap[a] \in Records /\ persec[w] \in Nat /\ perMbyte[w] \in Nat
    BY <2>1, TypeParts DEF TypeOK, Listed
  <2>3. /\ Affords(heap[a].credits, persec[w])
        /\ Affords(heap[a].credits - persec[w], perMbyte[w])
    BY <1>7, <2>2 DEF InterimGrant, InterimCovered, Affords, Records
  <2>4. heap' = [heap EXCEPT ![a] = r] /\ Answer(w, g) /\ UNCHANGED list
    BY <1>7, <2>3 DEF InterimGrant
  <2>5. r.cid = c /\ r.credits_buf = heap[a].credits_buf + (persec[w] + perMbyte[w])
    BY <2>1 DEF Extend, Record
  <2>6. Total(Plus(owed[c], g)) + 0 = r.credits_buf
    <3>1. Total(Plus(owed[c], g)) = Total(owed[c]) + (persec[w] + perMbyte[w])
      BY <1>o, <2>2 DEF Plus, Total, Amounts
    <3>2. Total(owed[c]) \in Nat
      BY <1>o DEF Total, Amounts
    <3> QED  BY <2>1, <2>2, <2>5, <3>1, <3>2
  <2> HIDE DEF a, r, g
  <2>7. /\ Listed' = Listed /\ OneEach' /\ heap'[a] = r
        /\ \A b \in Listed' : heap'[b].cid = c => b = a
        /\ \A b \in Listed' : heap'[b].cid # c => b \in Listed /\ heap'[b] = heap[b]
        /\ \A b \in Listed : heap[b].cid # c => b \in Listed' /\ heap'[b] = heap[b]
    BY <2>1, <2>4, <2>5, OneRecord
  <2>8. session'[c] = "open" /\ owed'[c] = Plus(owed[c], g)
    BY <1>a, <2>1, <2>4
  <2>9. IdleOK(c)'
    BY <2>1, <2>5, <2>6, <2>7, <2>8 DEF IdleOK, Has, Reserved
  <2> QED
    BY <1>0, <1>c, <1>a, <2>4, <2>7, <2>9, SessionStep
<1>8. CASE StopSettle(w)
  <2>1. CASE Crash(w)
    BY <1>k, <2>1
  <2>2. CASE ~Crash(w)
    <3>1. req[w].kind = "STOP" /\ Has(c)
      BY <1>8, <1>b DEF StopSettle, StopOK
    <3>2. PICK i \in 1 .. Len(list) :
            /\ Match(i, c)
            /\ heap' = [heap EXCEPT ![list[i]] = Settle(heap[list[i]], req[w].used)]
            /\ Point(w, list[i])
            /\ GoTo(w, "delete")
            /\ UNCHANGED <<list, lock, req, persec, perMbyte, ctf>>
      <4>1. \A i \in 1 .. Len(list) : Found(i, c) => Match(i, c)
        BY <1>l, <3>1, SearchFinds
      <4> QED  BY <1>8, <2>2, <4>1 DEF StopSettle
    <3> DEFINE a == list[i]
               r == Settle(heap[a], req[w].used)
    <3>3. a \in Listed /\ heap[a].cid = c
      BY <1>l, <3>2, FoundListed DEF Match
    <3>4. heap' = [heap EXCEPT ![a] = r] /\ UNCHANGED list
      BY <3>2
    <3>5. r.cid = c
      BY <3>3 DEF Settle, Record
    <3>6. client'[w] = a /\ \A v \in Workers \ {w} : client'[v] = client[v]
      BY <3>2 DEF Point, TypeOK
    <3> HIDE DEF a, r
    <3>7. /\ Listed' = Listed /\ OneEach' /\ heap'[a] = r
          /\ \A b \in Listed' : heap'[b].cid = c => b = a
          /\ \A b \in Listed' : heap'[b].cid # c => b \in Listed /\ heap'[b] = heap[b]
          /\ \A b \in Listed : heap[b].cid # c => b \in Listed' /\ heap'[b] = heap[b]
      BY <3>3, <3>4, <3>5, OneRecord
    <3>8. pc'[w] = "delete" /\ req'[w] = req[w] /\ session'[c] = "busy"
      BY <1>w, <3>2, <3>6
    <3>9. BusyOK(w)'
      <4>1. Pointed(w)'
        BY <3>3, <3>5, <3>6, <3>7, <3>8 DEF Pointed
      <4> QED
        BY <3>1, <3>8, <4>1 DEF BusyOK, StartOK, InterimOK, StopOK
    <3> QED
      BY <1>0, <1>c, <1>w, <3>2, <3>6, <3>7, <3>8, <3>9, SessionStep
  <2> QED  BY <2>1, <2>2
<1>9. CASE StopDelete(w)
  <2>1. CASE Crash(w)
    BY <1>k, <2>1
  <2>2. CASE ~Crash(w)
    <3>1. req[w].kind = "STOP" /\ client[w] \in Listed /\ heap[client[w]].cid = c
      BY <1>9, <1>b DEF StopDelete, StopOK, Pointed
    <3>2. PICK i \in 1 .. Len(list) :
            /\ Match(i, c) /\ list' = Without(i)
            /\ Answer(w, Zero) /\ UNCHANGED heap
      <4>1. \A i \in 1 .. Len(list) : Found(i, c) => Match(i, c)
        BY <1>l, <3>1, SearchFinds DEF Has
      <4> QED  BY <1>9, <2>2, <3>1, <4>1 DEF StopDelete
    <3>3. /\ ~Has(c)' /\ OneEach'
          /\ \A b \in Listed' : b \in Listed
          /\ \A b \in Listed : heap[b].cid # c => b \in Listed'
      BY <3>2, Delisted
    <3>4. session'[c] = "closed" /\ owed'[c] = Zero
      BY <1>a, <3>1, <3>2
    <3>5. IdleOK(c)'
      BY <3>3, <3>4 DEF IdleOK
    <3> QED
      BY <1>0, <1>c, <1>a, <3>2, <3>3, <3>5, SessionStep
  <2> QED  BY <2>1, <2>2
<1> QED
  BY <1>1, <1>2, <1>3, <1>4, <1>5, <1>6, <1>7, <1>8, <1>9 DEF Step

\* Without repeated requests, and with memory for every session, what SessionsOK says of
\* the sessions holds in every reachable state.
THEOREM SessionsKept ==
    ASSUME Retries = FALSE, EnoughMemory
    PROVE  Spec => [](IInv /\ SessionsOK)
<1>1. Init => IInv /\ SessionsOK
  <2> SUFFICES ASSUME Init PROVE IInv /\ SessionsOK  OBVIOUS
  <2>1. Listed = {}  BY DEF Init, Listed
  <2>2. SessionsOK
    BY <2>1 DEF Init, SessionsOK, OneEach, Alone, IdleOK, BusyOK, Has
  <2> QED  BY <2>2, InitInv
<1>2. IInv /\ SessionsOK /\ [Next]_vars => (IInv /\ SessionsOK)'
  <2> SUFFICES ASSUME IInv, SessionsOK, [Next]_vars PROVE SessionsOK'
    BY NextInv
  <2>1. TypeOK /\ AllSound
    BY DEF IInv
  <2>2. CASE Next
    <3> PICK w \in Workers : Request(w) \/ Step(w)  BY <2>2 DEF Next
    <3>1. CASE Request(w)  BY <2>1, <3>1, RequestSessions
    <3>2. CASE Step(w)  BY <2>1, <3>2, HandlerSessions
    <3> QED  BY <3>1, <3>2
  <2>3. CASE UNCHANGED vars
    <3>1. UNCHANGED <<list, heap, pc, req, client, session, owed>> /\ UNCHANGED records
      BY <2>3 DEF vars, records, locals, ctf
    <3>2. Listed' = Listed /\ OneEach'
      BY <3>1, NoRecord
    <3>3. /\ \A d : Has(d)' <=> Has(d)
          /\ \A d, n : Reserved(d, n)' <=> Reserved(d, n)
          /\ \A v : Pointed(v)' <=> Pointed(v)
      BY <3>1, <3>2 DEF Has, Reserved, Pointed
    <3>4. \A d \in Cids : IdleOK(d)'
      BY <3>1, <3>3 DEF SessionsOK, IdleOK
    <3>5. \A v \in Workers : BusyOK(v)'
      BY <3>1, <3>2, <3>3 DEF SessionsOK, BusyOK, StartOK, InterimOK, StopOK
    <3>6. Alone'
      BY <3>1 DEF SessionsOK, Alone
    <3> QED  BY <3>2, <3>4, <3>5, <3>6 DEF SessionsOK
  <2> QED  BY <2>2, <2>3
<1> QED  BY <1>1, <1>2, PTL DEF Spec

\* The two ledgers agree between two requests of a session: what the charging trigger
\* function may still use is what msg_handler has reserved.
THEOREM LedgersAgreed ==
    ASSUME Retries = FALSE, EnoughMemory
    PROVE  Spec => []LedgersAgree
<1>1. IInv /\ SessionsOK => LedgersAgree
  <2> SUFFICES ASSUME IInv, SessionsOK, NEW c \in Cids, NEW a \in Listed,
                      session[c] = "open", heap[a].cid = c
               PROVE  Total(owed[c]) = heap[a].credits_buf
    BY DEF LedgersAgree
  <2>1. Total(owed[c]) + 0 = heap[a].credits_buf
    BY DEF SessionsOK, IdleOK, Reserved
  <2>2. Total(owed[c]) \in Nat
    BY DEF IInv, TypeOK, Total, Amounts
  <2> QED  BY <2>1, <2>2
<1> QED  BY <1>1, SessionsKept, PTL

\* One record in the list for every open session and none for a closed one, however the
\* sections of msg_handler interleave.
THEOREM OneRecordPerSession ==
    ASSUME Retries = FALSE, EnoughMemory
    PROVE  Spec => []RecordPerSession
<1>1. IInv /\ SessionsOK => RecordPerSession
  <2> SUFFICES ASSUME IInv, SessionsOK, NEW c \in Cids
               PROVE  LET mine == {i \in 1 .. Len(list) : Match(i, c)}
                      IN /\ session[c] = "open" => \E i \in mine : mine = {i}
                         /\ session[c] = "closed" => mine = {}
    BY DEF RecordPerSession
  <2> DEFINE mine == {i \in 1 .. Len(list) : Match(i, c)}
  <2>1. \A i, j \in mine : i = j
    BY DEF SessionsOK, OneEach, Match, Listed
  <2>2. Has(c) <=> mine # {}
    BY DEF Has, Match, Listed
  <2>3. session[c] = "open" => \E i \in mine : mine = {i}
    <3>1. ASSUME session[c] = "open"  PROVE mine # {}
      BY <2>2, <3>1 DEF SessionsOK, IdleOK
    <3> HIDE DEF mine
    <3> QED  BY <2>1, <3>1
  <2>4. session[c] = "closed" => mine = {}
    BY <2>2 DEF SessionsOK, IdleOK
  <2> QED  BY <2>3, <2>4
<1> QED  BY <1>1, SessionsKept, PTL
=============================================================================
