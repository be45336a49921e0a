------------------------- MODULE CtfChargingProofs -------------------------
(***************************************************************************)
(* The charging trigger function keeps what ChargingSession promises, for  *)
(* any calls, workers, intervals, credits and failures. What an INTERIM    *)
(* will report has been moved from the seconds not yet reported (used less *)
(* used_crtdpsec_buf1) to used_crtdpsec_buf, and no call is charged before *)
(* its START was heard or after its STOP was.                              *)
(***************************************************************************)
EXTENDS CtfCharging, TLAPS

USE CtfAssumption

\* The timer process works on a client that is listed.
AtOK ==
  IF pc \in {"send", "wait", "answered", "tick", "next"}
  THEN at \in Calls /\ IsListed(at) ELSE at = Nil

NoTwins == \A i, j \in DOMAIN list : list[i] = list[j] => i = j

Sending(m) == pc = "send" /\ msg = m

\* A call that was not heard of has used nothing, and only its START puts it in the list.
FreshOK ==
  \A c \in Calls : phase[c] = "none" =>
    /\ reported[c] = 0
    /\ client[c].used = 0 /\ client[c].buf = 0 /\ client[c].buf1 = 0
    /\ IsListed(c) => Sending("START") /\ at = c

\* A call that was closed is deleted before anything else happens to it.
ClosedOK ==
  \A c \in Calls : phase[c] = "closed" /\ IsListed(c) =>
    at = c /\ pc \in {"wait", "answered"} /\ msg = "STOP"

SendingOK ==
  /\ Sending("START") => phase[at] = "none"
  /\ Sending("INTERIM") => client[at].events = "SStart"
  /\ Sending("STOP") => client[at].buf = client[at].used - client[at].buf1

\* The interval of a running call has not ended.
ClockOK ==
  /\ \A c \in Calls : client[c].events = "SStart" => client[c].timeout >= 1
  /\ pc \in {"send", "wait", "answered"} /\ msg = "START" => client[at].timeout >= 1

\* The seconds that an INTERIM is about to report.
Due(c) ==
  IF client[c].events = "Interim" \/ (Sending("INTERIM") /\ at = c) THEN client[c].buf ELSE 0

CountOK ==
  \A c \in Calls :
    /\ client[c].buf <= client[c].used /\ client[c].buf1 <= client[c].used
    /\ phase[c] \in {"none", "open"} => reported[c] + Due(c) <= client[c].buf1

IInv ==
  TypeOK /\ AtOK /\ NoTwins /\ FreshOK /\ ClosedOK /\ SendingOK /\ ClockOK /\ CountOK

LEMMA NoJobIsJob == NoJob \in JobType
  BY DEF NoJob, JobType

LEMMA JobSteps ==
  ASSUME NEW j \in JobType, NEW n \in Int
  PROVE  [j EXCEPT !.step = "add", !.credit = n] \in JobType
  BY DEF JobType

\* The assignments to a client keep its type.
LEMMA AssignedIs ==
  ASSUME NEW r \in ClientType
  PROVE  /\ \A e \in Events : [r EXCEPT !.events = e] \in ClientType
         /\ \A e \in Events, n \in 0 .. MaxUsed : [r EXCEPT !.events = e, !.buf = n] \in ClientType
         /\ \A e \in Events, t \in 0 .. Interval : [r EXCEPT !.events = e, !.timeout = t] \in ClientType
         /\ \A n \in 0 .. MaxUsed : [r EXCEPT !.buf = n] \in ClientType
         /\ \A k \in Int, v \in BOOLEAN : [r EXCEPT !.credit = k, !.volume = v] \in ClientType
  BY DEF ClientType

LEMMA CreditedIs ==
  ASSUME TypeOK, NEW c \in Calls, NEW old \in Int, NEW grant \in Grants \cup {0}
  PROVE  LET s == Credited(c, old, grant)
         IN /\ s \in ClientType
            /\ s.events = client[c].events /\ s.timeout = client[c].timeout
            /\ s.used = client[c].used /\ s.buf = client[c].buf /\ s.buf1 = client[c].buf1
  <1>1. client[c] \in ClientType /\ old + grant \in Int /\ grant \in Int
    BY DEF TypeOK
  <1>2. PICK k \in Int, v \in BOOLEAN :
          Credited(c, old, grant) = [client[c] EXCEPT !.credit = k, !.volume = v]
    <2>1. CASE client[c].online
      <3>1. (client[c].volume \/ grant > 0) \in BOOLEAN
        BY <1>1 DEF ClientType
      <3> QED
        BY <2>1, <3>1, <1>1 DEF Credited
    <2>2. CASE ~client[c].online
      <3>1. (grant > 0) \in BOOLEAN
        BY <1>1
      <3> QED
        BY <2>2, <3>1, <1>1 DEF Credited
    <2> QED
      BY <2>1, <2>2
  <1>3. Credited(c, old, grant) \in ClientType
    BY <1>1, <1>2 DEF ClientType
  <1>4. LET s == Credited(c, old, grant)
        IN /\ s.events = client[c].events /\ s.timeout = client[c].timeout
           /\ s.used = client[c].used /\ s.buf = client[c].buf /\ s.buf1 = client[c].buf1
    BY <1>1, <1>2 DEF ClientType
  <1> QED
    BY <1>3, <1>4

\* What RemoveAt leaves of a list.
LEMMA RemoveAtIs ==
  ASSUME NEW s \in Seq(Calls), NEW i \in DOMAIN s
  PROVE  /\ RemoveAt(s, i) \in Seq(Calls)
         /\ Len(RemoveAt(s, i)) = Len(s) - 1
         /\ \A k \in 1 .. Len(s) - 1 : RemoveAt(s, i)[k] = s[IF k < i THEN k ELSE k + 1]
  <1> DEFINE l == SubSeq(s, 1, i - 1)
             r == SubSeq(s, i + 1, Len(s))
  <1>1. i \in 1 .. Len(s) /\ Len(s) \in Nat
    OBVIOUS
  <1>2. l \in Seq(Calls) /\ Len(l) = i - 1 /\ \A k \in 1 .. i - 1 : l[k] = s[k]
    BY <1>1
  <1>3. /\ r \in Seq(Calls) /\ Len(r) = Len(s) - i
        /\ \A k \in 1 .. Len(s) - i : r[k] = s[i + k]
    BY <1>1
  <1>4. RemoveAt(s, i) = l \o r
    BY DEF RemoveAt
  <1> HIDE DEF l, r
  <1>5. l \o r \in Seq(Calls) /\ Len(l \o r) = Len(s) - 1
    BY <1>1, <1>2, <1>3
  <1>6. ASSUME NEW k \in 1 .. Len(s) - 1 PROVE (l \o r)[k] = s[IF k < i THEN k ELSE k + 1]
    <2>1. CASE k < i
      BY <2>1, <1>1, <1>2, <1>3
    <2>2. CASE k >= i
      <3>1. (l \o r)[k] = r[k - (i - 1)] /\ k - (i - 1) \in 1 .. Len(s) - i
        BY <2>2, <1>1, <1>2, <1>3
      <3> QED
        BY <3>1, <2>2, <1>1, <1>3
    <2>3. k < i \/ k >= i
      BY <1>1
    <2> QED
      BY <2>1, <2>2, <2>3
  <1> QED
    BY <1>4, <1>5, <1>6

\* Where a call is in the list.
LEMMA PlaceIs ==
  ASSUME TypeOK, NEW c \in Calls, IsListed(c)
  PROVE  Place(c) \in DOMAIN list /\ list[Place(c)] = c
  BY DEF TypeOK, IsListed, Contains, Place

\* The client after another one is listed, or there is none.
LEMMA AfterIs ==
  ASSUME TypeOK, NEW c \in Calls, IsListed(c)
  PROVE  /\ After(c) \in Calls \cup {Nil}
         /\ After(c) # Nil => IsListed(After(c))
  <1>1. Place(c) \in 1 .. Len(list) /\ Len(list) \in Nat
    BY PlaceIs DEF TypeOK
  <1>2. CASE Place(c) = Len(list)
    BY <1>2 DEF After
  <1>3. CASE Place(c) # Len(list)
    <2>1. Place(c) + 1 \in 1 .. Len(list)
      BY <1>1, <1>3
    <2>2. After(c) = list[Place(c) + 1] /\ After(c) \in Calls
      BY <1>3, <2>1 DEF After, TypeOK
    <2> QED
      BY <2>1, <2>2 DEF IsListed, Contains
  <1> QED
    BY <1>2, <1>3

LEMMA InitInv == Init => IInv
  <1> SUFFICES ASSUME Init PROVE IInv
    OBVIOUS
  <1> USE DEF Init
  <1>1. NewClient(FALSE, "none") \in ClientType
    BY DEF ClientType, NewClient, Events
  <1>2. client \in [Calls -> ClientType] /\ job \in [Workers -> JobType]
    BY <1>1, NoJobIsJob
  <1>5. TypeOK
    <2>1. list \in Seq(Calls) /\ phase \in [Calls -> {"none", "failed", "open", "closed"}]
          /\ reported \in [Calls -> Nat]
      OBVIOUS
    <2>2. lock = Nil /\ pc = "idle" /\ msg = "START" /\ at = Nil
      OBVIOUS
    <2> HIDE DEF Init
    <2> QED
      BY <1>2, <2>1, <2>2 DEF TypeOK
  <1>3. AtOK /\ NoTwins /\ ClosedOK /\ SendingOK
    BY DEF AtOK, NoTwins, ClosedOK, SendingOK, Sending
  <1>4. FreshOK /\ ClockOK /\ CountOK
    BY DEF FreshOK, ClockOK, CountOK, Due, Sending, NewClient, IsListed, Contains
  <1> QED
    BY <1>3, <1>4, <1>5 DEF IInv

LEMMA AnsweredInv == ASSUME IInv, NEW w \in Workers, Answered(w) PROVE IInv'
  <1> USE DEF IInv, Answered
  <1>1. job' \in [Workers -> JobType]
    BY DEF TypeOK, AtOK, JobType
  <1>2. TypeOK'
    BY <1>1 DEF TypeOK
  <1>3. AtOK'
    BY DEF TypeOK, AtOK, IsListed, Contains
  <1>4. NoTwins'
    BY DEF TypeOK, NoTwins
  <1>5. FreshOK'
    BY DEF TypeOK, AtOK, FreshOK, IsListed, Contains, Sending
  <1>6. ClosedOK'
    BY DEF TypeOK, AtOK, ClosedOK, IsListed, Contains
  <1>7. SendingOK'
    BY DEF TypeOK, AtOK, SendingOK, Sending
  <1>8. ClockOK'
    BY DEF TypeOK, AtOK, ClockOK
  <1>9. CountOK'
    BY DEF TypeOK, AtOK, CountOK, Due, Sending
  <1> QED
    BY <1>2, <1>3, <1>4, <1>5, <1>6, <1>7, <1>8, <1>9

LEMMA RefusedInv == ASSUME IInv, Refused PROVE IInv'
  <1> USE DEF IInv, Refused
  <1>1. TypeOK'
    BY DEF TypeOK
  <1>2. AtOK'
    BY DEF TypeOK, AtOK, IsListed, Contains
  <1>3. NoTwins'
    BY DEF TypeOK, NoTwins
  <1>4. FreshOK'
    BY DEF TypeOK, AtOK, FreshOK, IsListed, Contains, Sending
  <1>5. ClosedOK'
    BY DEF TypeOK, AtOK, ClosedOK, IsListed, Contains
  <1>6. SendingOK'
    BY DEF TypeOK, AtOK, SendingOK, Sending
  <1>7. ClockOK'
    BY DEF TypeOK, AtOK, ClockOK
  <1>8. CountOK'
    BY DEF TypeOK, AtOK, CountOK, Due, Sending
  <1> QED
    BY <1>1, <1>2, <1>3, <1>4, <1>5, <1>6, <1>7, <1>8

LEMMA InterimedInv == ASSUME IInv, Interimed PROVE IInv'
  <1> USE DEF IInv, Interimed
  <1>1. TypeOK'
    BY DEF TypeOK
  <1>2. AtOK'
    BY DEF TypeOK, AtOK, IsListed, Contains
  <1>3. NoTwins'
    BY DEF TypeOK, NoTwins
  <1>4. FreshOK'
    BY DEF TypeOK, AtOK, FreshOK, IsListed, Contains, Sending
  <1>5. ClosedOK'
    BY DEF TypeOK, AtOK, ClosedOK, IsListed, Contains
  <1>6. SendingOK'
    BY DEF TypeOK, AtOK, SendingOK, Sending
  <1>7. ClockOK'
    BY DEF TypeOK, AtOK, ClockOK
  <1>8. CountOK'
    BY DEF TypeOK, AtOK, CountOK, Due, Sending
  <1> QED
    BY <1>1, <1>2, <1>3, <1>4, <1>5, <1>6, <1>7, <1>8

LEMMA TickStartInv == ASSUME IInv, TickStart PROVE IInv'
  <1> USE DEF IInv, TickStart
  <1>1. Head(list) \in Calls /\ IsListed(Head(list))
    BY DEF TypeOK, IsListed, Contains
  <1>2. TypeOK'
    BY <1>1 DEF TypeOK
  <1>3. AtOK'
    BY <1>1 DEF AtOK, IsListed
  <1>4. NoTwins'
    BY DEF TypeOK, NoTwins
  <1>5. FreshOK'
    BY DEF TypeOK, AtOK, FreshOK, IsListed, Contains, Sending
  <1>6. ClosedOK'
    BY DEF TypeOK, AtOK, ClosedOK, IsListed, Contains
  <1>7. SendingOK'
    BY DEF TypeOK, AtOK, SendingOK, Sending
  <1>8. ClockOK'
    BY DEF TypeOK, AtOK, ClockOK
  <1>9. CountOK'
    BY DEF TypeOK, AtOK, CountOK, Due, Sending
  <1> QED
    BY <1>2, <1>3, <1>4, <1>5, <1>6, <1>7, <1>8, <1>9

LEMMA TickOtherInv == ASSUME IInv, TickOther PROVE IInv'
  <1> USE DEF IInv, TickOther
  <1>1. TypeOK'
    BY DEF TypeOK
  <1>2. AtOK'
    BY DEF TypeOK, AtOK, IsListed, Contains
  <1>3. NoTwins'
    BY DEF TypeOK, NoTwins
  <1>4. FreshOK'
    BY DEF TypeOK, AtOK, FreshOK, IsListed, Contains, Sending
  <1>5. ClosedOK'
    BY DEF TypeOK, AtOK, ClosedOK, IsListed, Contains
  <1>6. SendingOK'
    BY DEF TypeOK, AtOK, SendingOK, Sending
  <1>7. ClockOK'
    BY DEF TypeOK, AtOK, ClockOK
  <1>8. CountOK'
    BY DEF TypeOK, AtOK, CountOK, Due, Sending
  <1> QED
    BY <1>1, <1>2, <1>3, <1>4, <1>5, <1>6, <1>7, <1>8

LEMMA NextClientInv == ASSUME IInv, NextClient PROVE IInv'
  <1> USE DEF IInv, NextClient
  <1>1. After(at) \in Calls \cup {Nil} /\ (After(at) # Nil => IsListed(After(at)))
    BY AfterIs DEF AtOK
  <1>2. TypeOK'
    BY <1>1 DEF TypeOK
  <1>3. AtOK'
    BY <1>1 DEF AtOK, IsListed
  <1>4. NoTwins'
    BY DEF TypeOK, NoTwins
  <1>5. FreshOK'
    BY DEF TypeOK, AtOK, FreshOK, IsListed, Contains, Sending
  <1>6. ClosedOK'
    BY DEF TypeOK, AtOK, ClosedOK, IsListed, Contains
  <1>7. SendingOK'
    BY DEF TypeOK, AtOK, SendingOK, Sending
  <1>8. ClockOK'
    BY DEF TypeOK, AtOK, ClockOK
  <1>9. CountOK'
    BY DEF TypeOK, AtOK, CountOK, Due, Sending
  <1> QED
    BY <1>2, <1>3, <1>4, <1>5, <1>6, <1>7, <1>8, <1>9

LEMMA TickEndInv == ASSUME IInv, TickEnd PROVE IInv'
  <1> USE DEF IInv, TickEnd
  <1>1. TypeOK'
    BY DEF TypeOK
  <1>2. AtOK'
    BY DEF TypeOK, AtOK, IsListed, Contains
  <1>3. NoTwins'
    BY DEF TypeOK, NoTwins
  <1>4. FreshOK'
    BY DEF TypeOK, AtOK, FreshOK, IsListed, Contains, Sending
  <1>5. ClosedOK'
    BY DEF TypeOK, AtOK, ClosedOK, IsListed, Contains
  <1>6. SendingOK'
    BY DEF TypeOK, AtOK, SendingOK, Sending
  <1>7. ClockOK'
    BY DEF TypeOK, AtOK, ClockOK
  <1>8. CountOK'
    BY DEF TypeOK, AtOK, CountOK, Due, Sending
  <1> QED
    BY <1>1, <1>2, <1>3, <1>4, <1>5, <1>6, <1>7, <1>8

LEMMA CreditReadInv == ASSUME IInv, NEW w \in Workers, CreditRead(w) PROVE IInv'
  <1> USE DEF IInv, CreditRead
  <1>1. NoJob \in JobType
    BY DEF NoJob, JobType
  <1>2. job[w].call \in Calls => client[job[w].call].credit \in Int
    BY DEF TypeOK, ClientType
  <1>3. IsListed(job[w].call) => job[w].call \in Calls
    BY DEF TypeOK, IsListed, Contains
  <1>4. IsListed(job[w].call) => [job[w] EXCEPT !.step = "add", !.credit = client[job[w].call].credit] \in JobType
    BY <1>2, <1>3, JobSteps DEF TypeOK
  <1>5. job' \in [Workers -> JobType]
    BY <1>1, <1>4 DEF TypeOK
  <1>6. TypeOK'
    BY <1>5 DEF TypeOK
  <1>7. AtOK'
    BY DEF TypeOK, AtOK, IsListed, Contains
  <1>8. NoTwins'
    BY DEF TypeOK, NoTwins
  <1>9. FreshOK'
    BY DEF TypeOK, AtOK, FreshOK, IsListed, Contains, Sending
  <1>10. ClosedOK'
    BY DEF TypeOK, AtOK, ClosedOK, IsListed, Contains
  <1>11. SendingOK'
    BY DEF TypeOK, AtOK, SendingOK, Sending
  <1>12. ClockOK'
    BY DEF TypeOK, AtOK, ClockOK
  <1>13. CountOK'
    BY DEF TypeOK, AtOK, CountOK, Due, Sending
  <1> QED
    BY <1>6, <1>7, <1>8, <1>9, <1>10, <1>11, <1>12, <1>13

LEMMA CreditWriteInv == ASSUME IInv, NEW w \in Workers, CreditWrite(w) PROVE IInv'
  <1> USE DEF IInv
  <1>1. /\ UNCHANGED <<list, pc, msg, at, phase, reported>>
        /\ \A d \in Calls : IsListed(d)' = IsListed(d)
    BY DEF CreditWrite, IsListed, Contains
  <1>2. /\ job' = [job EXCEPT ![w] = NoJob] /\ lock' = Nil
        /\ client' = [client EXCEPT ![job[w].call] = Credited(job[w].call, job[w].credit, job[w].grant)]
    BY DEF CreditWrite
  <1>3. job' \in [Workers -> JobType]
    BY <1>2 DEF TypeOK, JobType, NoJob
  <1>4. ASSUME NEW d \in Calls, d = job[w].call
        PROVE /\ client'[d] \in ClientType
             /\ client'[d].events = client[d].events /\ client'[d].timeout = client[d].timeout
             /\ client'[d].used = client[d].used /\ client'[d].buf = client[d].buf
             /\ client'[d].buf1 = client[d].buf1
    <2>1. job[w].credit \in Int /\ job[w].grant \in Grants \cup {0}
      BY DEF TypeOK, JobType
    <2>2. client'[d] = Credited(d, job[w].credit, job[w].grant)
      BY <1>2, <1>4 DEF TypeOK
    <2> DEFINE s == Credited(d, job[w].credit, job[w].grant)
    <2>3. /\ s \in ClientType
          /\ s.events = client[d].events /\ s.timeout = client[d].timeout
          /\ s.used = client[d].used /\ s.buf = client[d].buf /\ s.buf1 = client[d].buf1
      BY <2>1, CreditedIs
    <2> QED
      BY <2>2, <2>3
  <1>5. ASSUME NEW d \in Calls, d # job[w].call PROVE client'[d] = client[d]
    BY <1>2, <1>5 DEF TypeOK
  <1>6. \A d \in Calls :
             /\ client'[d].events = client[d].events /\ client'[d].timeout = client[d].timeout
             /\ client'[d].used = client[d].used /\ client'[d].buf = client[d].buf
             /\ client'[d].buf1 = client[d].buf1
    BY <1>4, <1>5
  <1>7. client' \in [Calls -> ClientType]
    BY <1>2, <1>4, <1>5 DEF TypeOK
  <1>8. TypeOK'
    BY <1>1, <1>2, <1>3, <1>7 DEF TypeOK
  <1>9. AtOK'
    BY <1>1 DEF AtOK
  <1>10. NoTwins'
    BY <1>1 DEF NoTwins
  <1>11. FreshOK'
    BY <1>1, <1>6 DEF FreshOK, Sending
  <1>12. ClosedOK'
    BY <1>1 DEF ClosedOK
  <1>13. SendingOK'
    BY <1>1, <1>6 DEF AtOK, SendingOK, Sending
  <1>14. ClockOK'
    BY <1>1, <1>6 DEF AtOK, ClockOK
  <1>15. CountOK'
    BY <1>1, <1>6 DEF CountOK, Due, Sending
  <1> QED
    BY <1>8, <1>9, <1>10, <1>11, <1>12, <1>13, <1>14, <1>15

LEMMA InviteInv == ASSUME IInv, NEW c \in Calls, Invite(c) PROVE IInv'
  <1> USE DEF IInv
  <1>1. PICK type \in BOOLEAN, e \in Garbage : client' = [client EXCEPT ![c] = NewClient(type, e)]
    BY DEF Invite
  <1>2. /\ pc = "idle" /\ ~IsListed(c) /\ phase[c] = "none"
        /\ list' = Append(list, c) /\ pc' = "send" /\ msg' = "START" /\ at' = c
        /\ UNCHANGED <<lock, job, phase, reported>>
    BY DEF Invite
  <1>3. NewClient(type, e) \in ClientType
    BY DEF NewClient, ClientType, Events
  <1>4. /\ client'[c] = NewClient(type, e) /\ client' \in [Calls -> ClientType]
        /\ \A d \in Calls : d # c => client'[d] = client[d]
    BY <1>1, <1>3 DEF TypeOK
  <1>5. \A d \in Calls : IsListed(d)' <=> IsListed(d) \/ d = c
    <2>1. list \in Seq(Calls) /\ Len(list) \in Nat
      BY DEF TypeOK
    <2>2. /\ Len(list') = Len(list) + 1 /\ list'[Len(list) + 1] = c
          /\ \A i \in 1 .. Len(list) : list'[i] = list[i]
      BY <1>2, <2>1
    <2>3. \A i : i \in 1 .. Len(list') <=> i \in 1 .. Len(list) \/ i = Len(list) + 1
      BY <2>1, <2>2
    <2> QED
      BY <2>2, <2>3 DEF IsListed, Contains
  <1>6. client'[c].timeout >= 1 /\ client'[c].used = 0 /\ client'[c].buf = 0 /\ client'[c].buf1 = 0
    BY <1>4 DEF NewClient
  <1>7. at = Nil
    BY <1>2 DEF AtOK
  <1>8. TypeOK'
    BY <1>2, <1>4 DEF TypeOK
  <1>9. AtOK'
    BY <1>2, <1>5 DEF AtOK
  <1>10. NoTwins'
    BY <1>2 DEF TypeOK, NoTwins, IsListed, Contains
  <1>11. FreshOK'
    BY <1>2, <1>4, <1>5, <1>6, <1>7 DEF FreshOK, Sending
  <1>12. ClosedOK'
    BY <1>2, <1>5, <1>7 DEF ClosedOK
  <1>13. SendingOK'
    BY <1>2 DEF SendingOK, Sending
  <1>14. ClockOK'
    BY <1>2, <1>4, <1>6 DEF ClockOK
  <1>15. CountOK'
    BY <1>2, <1>4, <1>6 DEF CountOK, Due, Sending, FreshOK
  <1> QED
    BY <1>8, <1>9, <1>10, <1>11, <1>12, <1>13, <1>14, <1>15

LEMMA ClosedInv == ASSUME IInv, NEW c \in Calls, Closed(c) PROVE IInv'
  <1> USE DEF IInv
  <1>1. /\ UNCHANGED <<list, lock, pc, msg, at, job, phase, reported>>
        /\ \A d \in Calls : IsListed(d)' = IsListed(d)
    BY DEF Closed, IsListed, Contains
  <1>2. /\ pc = "idle" /\ phase[c] = "open"
        /\ client' = [client EXCEPT ![c].events = "SStop", ![c].buf = client[c].used - client[c].buf]
    BY DEF Closed
  <1>3. client[c] \in ClientType /\ client[c].buf <= client[c].used
    BY DEF TypeOK, CountOK
  <1>4. /\ client'[c].events = "SStop" /\ client'[c].buf = client[c].used - client[c].buf
        /\ client'[c].used = client[c].used /\ client'[c].buf1 = client[c].buf1
        /\ client'[c].timeout = client[c].timeout
    BY <1>2 DEF TypeOK, ClientType
  <1>5. client[c].used - client[c].buf \in 0 .. client[c].used
    BY <1>3 DEF ClientType
  <1>6. client'[c] \in ClientType
    <2>1. client[c].used - client[c].buf \in 0 .. MaxUsed /\ "SStop" \in Events
      BY <1>3, <1>5 DEF ClientType, Events
    <2>2. client'[c] = [client[c] EXCEPT !.events = "SStop", !.buf = client[c].used - client[c].buf]
      BY <1>2 DEF TypeOK
    <2> QED
      BY <2>1, <2>2, <1>3 DEF ClientType
  <1>7. client' \in [Calls -> ClientType] /\ \A d \in Calls : d # c => client'[d] = client[d]
    BY <1>2, <1>6 DEF TypeOK
  <1>8. TypeOK'
    BY <1>1, <1>7 DEF TypeOK
  <1>9. AtOK'
    BY <1>1 DEF AtOK
  <1>10. NoTwins'
    BY <1>1 DEF NoTwins
  <1>11. FreshOK'
    BY <1>1, <1>2, <1>4, <1>7 DEF FreshOK, Sending
  <1>12. ClosedOK'
    BY <1>1 DEF ClosedOK
  <1>13. SendingOK'
    BY <1>1, <1>2 DEF SendingOK, Sending
  <1>14. ClockOK'
    BY <1>1, <1>2, <1>4, <1>7 DEF ClockOK
  <1>15. CountOK'
    <2> SUFFICES ASSUME NEW d \in Calls
                 PROVE  /\ client'[d].buf <= client'[d].used /\ client'[d].buf1 <= client'[d].used
                        /\ phase'[d] \in {"none", "open"} => reported'[d] + Due(d)' <= client'[d].buf1
      BY DEF CountOK
    <2>1. CASE d # c
      BY <2>1, <1>1, <1>7 DEF CountOK, Due, Sending
    <2>2. CASE d = c
      <3>1. /\ client[c].buf1 <= client[c].used
            /\ reported[c] + Due(c) <= client[c].buf1
        BY <1>2 DEF CountOK
      <3>3. /\ reported[c] \in Nat /\ Due(c) \in Nat /\ client[c].buf1 \in Int
        BY <1>3 DEF Due, TypeOK, ClientType
      <3>2. Due(c)' = 0
        BY <1>1, <1>2, <1>4 DEF Due, Sending
      <3> QED
        BY <2>2, <3>1, <3>2, <3>3, <1>1, <1>3, <1>4, <1>5 DEF ClientType, Due
    <2> QED
      BY <2>1, <2>2
  <1> QED
    BY <1>8, <1>9, <1>10, <1>11, <1>12, <1>13, <1>14, <1>15

LEMMA SendInv == ASSUME IInv, Send PROVE IInv'
  <1> USE DEF IInv
  <1>1. /\ UNCHANGED <<list, client, lock, msg, at, job>>
        /\ \A d \in Calls : IsListed(d)' = IsListed(d)
    BY DEF Send, IsListed, Contains
  <1>2. /\ pc = "send" /\ pc' = "wait" /\ at \in Calls /\ IsListed(at)
    BY DEF Send, AtOK
  <1>3. /\ phase' = [phase EXCEPT ![at] = IF @ = "failed" THEN @ ELSE IF msg = "STOP" THEN "closed" ELSE "open"]
        /\ reported' = [reported EXCEPT ![at] = IF msg = "START" THEN @ ELSE @ + client[at].buf]
    BY DEF Send, Heard
  <1>4. /\ client[at].buf \in Nat /\ reported[at] \in Nat /\ phase[at] \in {"none", "failed", "open", "closed"}
    BY <1>2 DEF TypeOK, ClientType
  <1>5. /\ phase'[at] = IF phase[at] = "failed" THEN "failed" ELSE IF msg = "STOP" THEN "closed" ELSE "open"
        /\ reported'[at] = IF msg = "START" THEN reported[at] ELSE reported[at] + client[at].buf
        /\ \A d \in Calls : d # at => phase'[d] = phase[d] /\ reported'[d] = reported[d]
    BY <1>2, <1>3 DEF TypeOK
  <1>6. phase[at] # "closed" /\ (phase[at] = "none" => msg = "START")
    BY <1>2 DEF ClosedOK, FreshOK, Sending
  <1>7. TypeOK'
    BY <1>1, <1>2, <1>3, <1>4 DEF TypeOK
  <1>8. AtOK'
    BY <1>1, <1>2 DEF AtOK
  <1>9. NoTwins'
    BY <1>1 DEF NoTwins
  <1>10. FreshOK'
    BY <1>1, <1>2, <1>5 DEF FreshOK, Sending
  <1>11. ClosedOK'
    BY <1>1, <1>2, <1>5 DEF ClosedOK, TypeOK
  <1>12. SendingOK'
    BY <1>1, <1>2 DEF SendingOK, Sending
  <1>13. ClockOK'
    BY <1>1, <1>2 DEF ClockOK
  <1>14. CountOK'
    <2> SUFFICES ASSUME NEW d \in Calls
                 PROVE  /\ client[d].buf <= client[d].used /\ client[d].buf1 <= client[d].used
                        /\ phase'[d] \in {"none", "open"} => reported'[d] + Due(d)' <= client[d].buf1
      BY <1>1 DEF CountOK
    <2>1. /\ client[d].buf <= client[d].used /\ client[d].buf1 <= client[d].used
          /\ phase[d] \in {"none", "open"} => reported[d] + Due(d) <= client[d].buf1
      BY DEF CountOK
    <2>2. Due(d)' = IF client[d].events = "Interim" THEN client[d].buf ELSE 0
      BY <1>1, <1>2 DEF Due, Sending
    <2>3. CASE d # at
      BY <2>1, <2>2, <2>3, <1>5 DEF Due
    <2>4. CASE d = at /\ msg = "START"
      BY <2>1, <2>2, <2>4, <1>2, <1>5, <1>6 DEF Due, Sending, SendingOK
    <2>5. CASE d = at /\ msg = "INTERIM"
      BY <2>1, <2>2, <2>5, <1>2, <1>4, <1>5, <1>6 DEF Due, Sending, SendingOK
    <2>6. CASE d = at /\ msg = "STOP"
      BY <2>1, <2>6, <1>5
    <2> QED
      BY <2>1, <2>3, <2>4, <2>5, <2>6 DEF TypeOK
  <1> QED
    BY <1>7, <1>8, <1>9, <1>10, <1>11, <1>12, <1>13, <1>14

LEMMA SendFailedInv == ASSUME IInv, SendFailed PROVE IInv'
  <1> USE DEF IInv
  <1>1. /\ UNCHANGED <<list, client, lock, msg, job, reported>>
        /\ \A d \in Calls : IsListed(d)' = IsListed(d)
    BY DEF SendFailed, IsListed, Contains
  <1>2. /\ pc = "send" /\ at \in Calls /\ IsListed(at)
        /\ pc' = (IF msg = "START" THEN "idle" ELSE "next") /\ at' = (IF msg = "START" THEN Nil ELSE at)
    BY DEF SendFailed, AtOK
  <1>3. /\ phase' = [phase EXCEPT ![at] = IF msg = "START" THEN "failed" ELSE @]
        /\ phase'[at] = IF msg = "START" THEN "failed" ELSE phase[at]
        /\ \A d \in Calls : d # at => phase'[d] = phase[d]
    BY <1>2 DEF SendFailed, TypeOK
  <1>4. phase[at] # "closed" /\ (phase[at] = "none" => msg = "START")
    BY <1>2 DEF ClosedOK, FreshOK, Sending
  <1>5. TypeOK'
    BY <1>1, <1>2, <1>3 DEF TypeOK
  <1>6. AtOK'
    BY <1>1, <1>2 DEF AtOK
  <1>7. NoTwins'
    BY <1>1 DEF NoTwins
  <1>8. FreshOK'
    BY <1>1, <1>2, <1>3, <1>4 DEF FreshOK, Sending
  <1>9. ClosedOK'
    BY <1>1, <1>2, <1>3, <1>4 DEF ClosedOK, TypeOK
  <1>10. SendingOK'
    BY <1>1, <1>2 DEF SendingOK, Sending
  <1>11. ClockOK'
    BY <1>1, <1>2 DEF ClockOK
  <1>12. CountOK'
    BY <1>1, <1>2, <1>3, <1>4 DEF TypeOK, ClientType, CountOK, Due, Sending
  <1> QED
    BY <1>5, <1>6, <1>7, <1>8, <1>9, <1>10, <1>11, <1>12

\* What is owed stays covered when a step changes only what is due, and that to nothing.
LEMMA CountKept ==
    ASSUME TypeOK, CountOK, UNCHANGED <<phase, reported>>,
           \A c \in Calls :
             /\ client'[c].buf <= client'[c].used /\ client'[c].used = client[c].used
             /\ client'[c].buf1 = client[c].buf1
             /\ Due(c)' \in {0, Due(c)}
    PROVE  CountOK'
  <1> SUFFICES ASSUME NEW c \in Calls
               PROVE  /\ client'[c].buf <= client'[c].used /\ client'[c].buf1 <= client'[c].used
                      /\ phase'[c] \in {"none", "open"} => reported'[c] + Due(c)' <= client'[c].buf1
    BY DEF CountOK
  <1>1. client[c].buf1 <= client[c].used
    BY DEF CountOK
  <1>2. phase[c] \in {"none", "open"} => reported[c] + Due(c) <= client[c].buf1
    BY DEF CountOK
  <1>3. client[c] \in ClientType /\ reported[c] \in Nat
    BY DEF TypeOK
  <1>4. client[c].buf \in Nat /\ client[c].buf1 \in Nat
    BY <1>3 DEF ClientType
  <1>5. Due(c) \in Nat
    BY <1>4 DEF Due
  <1> QED
    BY <1>1, <1>2, <1>3, <1>4, <1>5

LEMMA StartedInv == ASSUME IInv, Started PROVE IInv'
  <1> USE DEF IInv
  <1>1. /\ UNCHANGED <<list, lock, msg, job, phase, reported>>
        /\ \A d \in Calls : IsListed(d)' = IsListed(d)
    BY DEF Started, IsListed, Contains
  <1>2. /\ pc = "answered" /\ msg = "START" /\ pc' = "idle" /\ at' = Nil /\ at \in Calls /\ IsListed(at)
        /\ client' = [client EXCEPT ![at].events = "SStart"]
    BY DEF Started, AtOK
  <1>3. /\ client'[at].events = "SStart" /\ client'[at].buf = client[at].buf
        /\ client'[at].used = client[at].used /\ client'[at].buf1 = client[at].buf1
        /\ client'[at].timeout = client[at].timeout
    BY <1>2 DEF TypeOK, ClientType
  <1>4. client'[at] \in ClientType
    <2>1. client'[at] = [client[at] EXCEPT !.events = "SStart"] /\ client[at] \in ClientType
      BY <1>2 DEF TypeOK
    <2> QED
      BY <2>1 DEF Events, ClientType
  <1>5. client' \in [Calls -> ClientType] /\ \A d \in Calls : d # at => client'[d] = client[d]
    BY <1>2, <1>4 DEF TypeOK
  <1>6. TypeOK'
    BY <1>1, <1>2, <1>5 DEF TypeOK
  <1>7. AtOK'
    BY <1>1, <1>2 DEF AtOK
  <1>8. NoTwins'
    BY <1>1 DEF NoTwins
  <1>9. FreshOK'
    BY <1>1, <1>2, <1>3, <1>5 DEF FreshOK, Sending
  <1>10. ClosedOK'
    BY <1>1, <1>2 DEF ClosedOK
  <1>11. SendingOK'
    BY <1>1, <1>2 DEF SendingOK, Sending
  <1>12. ClockOK'
    BY <1>1, <1>2, <1>3, <1>5 DEF ClockOK
  <1>13. CountOK'
    <2>1. \A d \in Calls : Due(d)' \in {0, Due(d)}
      BY <1>1, <1>2, <1>3, <1>5 DEF Due, Sending
    <2>2. \A d \in Calls : client[d].buf <= client[d].used
      BY DEF CountOK
    <2> QED
      BY <1>1, <1>3, <1>5, <2>1, <2>2, CountKept
  <1> QED
    BY <1>6, <1>7, <1>8, <1>9, <1>10, <1>11, <1>12, <1>13

LEMMA DeletedInv == ASSUME IInv, Deleted PROVE IInv'
  <1> USE DEF IInv
  <1>1. After(at) \in Calls \cup {Nil} /\ (After(at) # Nil => IsListed(After(at)))
    BY AfterIs DEF AtOK, Deleted
  <1>2. /\ UNCHANGED <<client, lock, msg, job, phase, reported>>
        /\ pc = "answered" /\ msg = "STOP" /\ at \in Calls /\ IsListed(at) /\ at' = After(at)
        /\ list' = RemoveAt(list, Place(at))
        /\ pc' = IF After(at) = Nil THEN "end" ELSE "tick"
    BY DEF Deleted, AtOK
  <1>3. Place(at) \in 1 .. Len(list) /\ list[Place(at)] = at /\ Len(list) \in Nat
    BY <1>2, PlaceIs DEF TypeOK
  <1>4. /\ list' \in Seq(Calls) /\ Len(list') = Len(list) - 1
        /\ \A k \in 1 .. Len(list) - 1 : list'[k] = list[IF k < Place(at) THEN k ELSE k + 1]
    <2>1. list \in Seq(Calls) /\ Place(at) \in DOMAIN list
      BY <1>3 DEF TypeOK
    <2> QED
      BY <1>2, <2>1, RemoveAtIs
  <1>5. ASSUME NEW d \in Calls, IsListed(d)' PROVE IsListed(d) /\ d # at
    <2>1. PICK k \in 1 .. Len(list) - 1 : list'[k] = d
      BY <1>4, <1>5 DEF IsListed, Contains
    <2>2. /\ (IF k < Place(at) THEN k ELSE k + 1) \in 1 .. Len(list)
          /\ (IF k < Place(at) THEN k ELSE k + 1) # Place(at)
          /\ list[IF k < Place(at) THEN k ELSE k + 1] = d
      BY <1>3, <1>4, <2>1
    <2> QED
      BY <1>3, <2>2 DEF NoTwins, IsListed, Contains
  <1>6. ASSUME NEW d \in Calls, IsListed(d), d # at PROVE IsListed(d)'
    <2>1. PICK k \in 1 .. Len(list) : list[k] = d
      BY <1>6 DEF IsListed, Contains
    <2>2. k # Place(at)
      BY <1>3, <1>6, <2>1
    <2>3. CASE k < Place(at)
      BY <1>3, <1>4, <2>1, <2>3 DEF IsListed, Contains
    <2>4. CASE k > Place(at)
      <3>1. k - 1 \in 1 .. Len(list) - 1 /\ list'[k - 1] = list[k]
        BY <1>3, <1>4, <2>1, <2>4
      <3> QED
        BY <1>4, <2>1, <3>1 DEF IsListed, Contains
    <2> QED
      BY <1>3, <2>1, <2>2, <2>3, <2>4
  <1>7. After(at) # at
    BY <1>2, <1>3 DEF After, NoTwins, AtOK
  <1>8. TypeOK'
    BY <1>1, <1>2, <1>4 DEF TypeOK
  <1>9. AtOK'
    BY <1>1, <1>2, <1>6, <1>7 DEF AtOK
  <1>10. NoTwins'
    <2> SUFFICES ASSUME NEW i \in 1 .. Len(list) - 1, NEW j \in 1 .. Len(list) - 1, list'[i] = list'[j]
                 PROVE  i = j
      BY <1>3, <1>4 DEF NoTwins
    <2> DEFINE old(k) == IF k < Place(at) THEN k ELSE k + 1
    <2>1. old(i) \in 1 .. Len(list) /\ old(j) \in 1 .. Len(list)
      BY <1>3
    <2>2. list[old(i)] = list[old(j)]
      BY <1>4
    <2>3. old(i) = old(j)
      BY <2>1, <2>2 DEF NoTwins
    <2> QED
      BY <2>3, <1>3
  <1>11. FreshOK'
    BY <1>2, <1>5 DEF FreshOK, Sending
  <1>12. ClosedOK'
    BY <1>2, <1>5 DEF ClosedOK
  <1>13. SendingOK'
    BY <1>2 DEF SendingOK, Sending
  <1>14. ClockOK'
    BY <1>2 DEF ClockOK
  <1>15. CountOK'
    BY <1>2 DEF CountOK, Due, Sending
  <1> QED
    BY <1>8, <1>9, <1>10, <1>11, <1>12, <1>13, <1>14, <1>15

LEMMA TickInterimInv == ASSUME IInv, TickInterim PROVE IInv'
  <1> USE DEF IInv
  <1>1. /\ UNCHANGED <<list, at, job, phase, reported>>
        /\ \A d \in Calls : IsListed(d)' = IsListed(d)
    BY DEF TickInterim, IsListed, Contains
  <1>2. /\ pc = "tick" /\ at \in Calls /\ IsListed(at) /\ client[at].events = "Interim"
        /\ lock' = Nil /\ pc' = "send" /\ msg' = "INTERIM"
        /\ client' = [client EXCEPT ![at].events = "SStart", ![at].timeout = Interval]
    BY DEF TickInterim, AtOK
  <1>3. client[at] \in ClientType /\ client[at].buf1 <= client[at].used /\ client[at].buf <= client[at].used
    BY <1>2 DEF TypeOK, CountOK
  <1>4. /\ client'[at].events = "SStart" /\ client'[at].timeout = Interval
        /\ client'[at].used = client[at].used /\ client'[at].buf = client[at].buf
        /\ client'[at].buf1 = client[at].buf1
    BY <1>2 DEF TypeOK, ClientType
  <1>5. client'[at] \in ClientType
    <2>1. client[at].used - client[at].buf1 \in 0 .. MaxUsed /\ Interval \in 0 .. Interval /\ "SStart" \in Events
      BY <1>3 DEF ClientType, Events
    <2>2. client'[at] = [client[at] EXCEPT !.events = "SStart", !.timeout = Interval]
      BY <1>2 DEF TypeOK
    <2> QED
      BY <2>1, <2>2, <1>3 DEF ClientType
  <1>6. client' \in [Calls -> ClientType] /\ \A d \in Calls : d # at => client'[d] = client[d]
    BY <1>2, <1>5 DEF TypeOK
  <1>7. phase[at] \in {"open", "failed"}
    BY <1>2 DEF TypeOK, ClosedOK, FreshOK, Sending
  <1>8. TypeOK'
    BY <1>1, <1>2, <1>6 DEF TypeOK
  <1>9. AtOK'
    BY <1>1, <1>2 DEF AtOK
  <1>10. NoTwins'
    BY <1>1 DEF NoTwins
  <1>11. FreshOK'
    BY <1>1, <1>2, <1>4, <1>6, <1>7 DEF FreshOK, Sending
  <1>12. ClosedOK'
    BY <1>1, <1>2 DEF ClosedOK
  <1>13. SendingOK'
    BY <1>1, <1>2, <1>4 DEF SendingOK, Sending
  <1>14. ClockOK'
    BY <1>1, <1>2, <1>4, <1>6 DEF ClockOK
  <1>15. CountOK'
    <2>1. \A d \in Calls : Due(d)' \in {0, Due(d)}
      BY <1>1, <1>2, <1>4, <1>6 DEF Due, Sending
    <2>2. \A d \in Calls : client[d].buf <= client[d].used
      BY DEF CountOK
    <2> QED
      BY <1>1, <1>4, <1>6, <2>1, <2>2, CountKept
  <1> QED
    BY <1>8, <1>9, <1>10, <1>11, <1>12, <1>13, <1>14, <1>15

LEMMA TickStopInv == ASSUME IInv, TickStop PROVE IInv'
  <1> USE DEF IInv
  <1>1. /\ UNCHANGED <<list, at, job, phase, reported>>
        /\ \A d \in Calls : IsListed(d)' = IsListed(d)
    BY DEF TickStop, IsListed, Contains
  <1>2. /\ pc = "tick" /\ at \in Calls /\ IsListed(at) /\ client[at].events = "SStop"
        /\ lock' = Nil /\ pc' = "send" /\ msg' = "STOP"
        /\ client' = [client EXCEPT ![at].buf = client[at].used - client[at].buf1]
    BY DEF TickStop, AtOK
  <1>3. client[at] \in ClientType /\ client[at].buf1 <= client[at].used /\ client[at].buf <= client[at].used
    BY <1>2 DEF TypeOK, CountOK
  <1>4. /\ client'[at].events = "SStop" /\ client'[at].timeout = client[at].timeout
        /\ client'[at].used = client[at].used /\ client'[at].buf = client[at].used - client[at].buf1
        /\ client'[at].buf1 = client[at].buf1
    BY <1>2 DEF TypeOK, ClientType
  <1>5. client'[at] \in ClientType
    <2>1. client[at].used - client[at].buf1 \in 0 .. MaxUsed /\ Interval \in 0 .. Interval /\ "SStart" \in Events
      BY <1>3 DEF ClientType, Events
    <2>2. client'[at] = [client[at] EXCEPT !.buf = client[at].used - client[at].buf1]
      BY <1>2 DEF TypeOK
    <2> QED
      BY <2>1, <2>2, <1>3 DEF ClientType
  <1>6. client' \in [Calls -> ClientType] /\ \A d \in Calls : d # at => client'[d] = client[d]
    BY <1>2, <1>5 DEF TypeOK
  <1>7. phase[at] \in {"open", "failed"}
    BY <1>2 DEF TypeOK, ClosedOK, FreshOK, Sending
  <1>8. TypeOK'
    BY <1>1, <1>2, <1>6 DEF TypeOK
  <1>9. AtOK'
    BY <1>1, <1>2 DEF AtOK
  <1>10. NoTwins'
    BY <1>1 DEF NoTwins
  <1>11. FreshOK'
    BY <1>1, <1>2, <1>4, <1>6, <1>7 DEF FreshOK, Sending
  <1>12. ClosedOK'
    BY <1>1, <1>2 DEF ClosedOK
  <1>13. SendingOK'
    BY <1>1, <1>2, <1>4 DEF SendingOK, Sending
  <1>14. ClockOK'
    BY <1>1, <1>2, <1>4, <1>6 DEF ClockOK
  <1>15. CountOK'
    <2>1. \A d \in Calls : Due(d)' \in {0, Due(d)}
      BY <1>1, <1>2, <1>4, <1>6 DEF Due, Sending
    <2>2. client'[at].buf <= client'[at].used
      BY <1>3, <1>4 DEF ClientType
    <2>3. \A d \in Calls : client[d].buf <= client[d].used
      BY DEF CountOK
    <2> QED
      BY <1>1, <1>4, <1>6, <2>1, <2>2, <2>3, CountKept
  <1> QED
    BY <1>8, <1>9, <1>10, <1>11, <1>12, <1>13, <1>14, <1>15


\* What a second does to the counters of a call.
LEMMA SecondIs ==
  ASSUME NEW r \in ClientType, NEW last \in BOOLEAN, r.used < MaxUsed, r.timeout >= 1,
         r.events = "SStart", r.buf <= r.used, r.buf1 <= r.used
  PROVE  LET s == Second(r, last)
         IN /\ s \in ClientType
            /\ s.used = r.used + 1 /\ s.buf <= s.used /\ s.buf1 <= s.used
            /\ s.events = "SStart" => s.timeout >= 1
            /\ s.events = "Interim" => s.buf = s.used - r.buf1 /\ s.buf1 = s.used
            /\ s.events # "Interim" => s.buf1 = r.buf1
  <1> DEFINE left == IF r.online THEN r.credit - 1 ELSE r.credit
             over == r.timeout = 1
             newbuf == IF over THEN r.used + 1 - r.buf1
                       ELSE IF last /\ left = 0 THEN r.used + 1 - r.buf ELSE r.buf
             newbuf1 == IF over THEN r.used + 1 ELSE r.buf1
             event == IF over THEN "Interim"
                      ELSE IF left = 0 \/ ~r.volume THEN "SStop" ELSE r.events
             s == Second(r, last)
  <1>1. s = [r EXCEPT !.timeout = r.timeout - 1, !.used = r.used + 1, !.credit = left,
                      !.buf = newbuf, !.buf1 = newbuf1, !.events = event]
    BY DEF Second
  <1>2. /\ r.timeout - 1 \in 0 .. Interval /\ r.used + 1 \in 0 .. MaxUsed /\ left \in Int
        /\ newbuf \in 0 .. MaxUsed /\ newbuf <= r.used + 1
        /\ newbuf1 \in 0 .. MaxUsed /\ newbuf1 <= r.used + 1
        /\ event \in Events
        /\ event = "SStart" => r.timeout - 1 >= 1
        /\ event = "Interim" => newbuf = r.used + 1 - r.buf1 /\ newbuf1 = r.used + 1
        /\ event # "Interim" => newbuf1 = r.buf1
    BY DEF ClientType, Events
  <1> HIDE DEF left, newbuf, newbuf1, event, s
  <1>3. s \in ClientType
    BY <1>1, <1>2 DEF ClientType
  <1>4. /\ s.timeout = r.timeout - 1 /\ s.used = r.used + 1 /\ s.buf = newbuf
        /\ s.buf1 = newbuf1 /\ s.events = event
    BY <1>1 DEF ClientType
  <1>5. /\ s.used = r.used + 1 /\ s.buf <= s.used /\ s.buf1 <= s.used
        /\ s.events = "SStart" => s.timeout >= 1
        /\ s.events = "Interim" => s.buf = s.used - r.buf1 /\ s.buf1 = s.used
        /\ s.events # "Interim" => s.buf1 = r.buf1
    <2>1. r.used \in Int /\ r.buf1 \in Int /\ newbuf \in Int /\ newbuf1 \in Int
      BY <1>2 DEF ClientType
    <2> HIDE DEF over
    <2> QED
      BY <1>2, <1>4, <2>1
  <1> QED
    BY <1>3, <1>5 DEF s

LEMMA TickRunningInv == ASSUME IInv, TickRunning PROVE IInv'
  <1> USE DEF IInv
  <1>1. /\ UNCHANGED <<list, lock, msg, at, job, phase, reported>>
        /\ \A d \in Calls : IsListed(d)' = IsListed(d)
    BY DEF TickRunning, IsListed, Contains
  <1>2. /\ pc = "tick" /\ at \in Calls /\ IsListed(at) /\ client[at].events = "SStart" /\ pc' = "next"
        /\ client' = [client EXCEPT ![at] = IF @.used < MaxUsed THEN Second(@, After(at) = Nil) ELSE @]
    BY DEF TickRunning, AtOK
  <1>3. client[at] \in ClientType /\ client[at].buf1 <= client[at].used /\ client[at].buf <= client[at].used /\ client[at].timeout >= 1
    BY <1>2 DEF TypeOK, CountOK, ClockOK
  <1>4. client'[at] = IF client[at].used < MaxUsed THEN Second(client[at], After(at) = Nil) ELSE client[at]
    BY <1>2 DEF TypeOK
  <1>5. /\ client'[at] \in ClientType
        /\ client'[at].buf <= client'[at].used /\ client'[at].buf1 <= client'[at].used
        /\ client'[at].events = "SStart" => client'[at].timeout >= 1
        /\ client'[at].events = "Interim" => client'[at].buf + client[at].buf1 <= client'[at].buf1
        /\ client'[at].events # "Interim" => client'[at].buf1 = client[at].buf1
    <2>1. CASE client[at].used < MaxUsed
      <3>1. client'[at] = Second(client[at], After(at) = Nil)
        BY <1>4, <2>1
      <3>2. LET s == Second(client[at], After(at) = Nil)
            IN /\ s \in ClientType
               /\ s.used = client[at].used + 1 /\ s.buf <= s.used /\ s.buf1 <= s.used
               /\ s.events = "SStart" => s.timeout >= 1
               /\ s.events = "Interim" => s.buf = s.used - client[at].buf1 /\ s.buf1 = s.used
               /\ s.events # "Interim" => s.buf1 = client[at].buf1
        BY <1>2, <1>3, <2>1, SecondIs
      <3> QED
        BY <3>1, <3>2, <1>3 DEF ClientType
    <2>2. CASE ~(client[at].used < MaxUsed)
      BY <1>2, <1>3, <1>4, <2>2
    <2> QED
      BY <2>1, <2>2
  <1>6. client' \in [Calls -> ClientType] /\ \A d \in Calls : d # at => client'[d] = client[d]
    BY <1>2, <1>4, <1>5 DEF TypeOK
  <1>7. phase[at] \in {"open", "failed"}
    BY <1>2 DEF TypeOK, ClosedOK, FreshOK, Sending
  <1>8. phase[at] = "open" => reported[at] <= client[at].buf1
    BY <1>2, <1>3 DEF CountOK, Due, Sending, TypeOK
  <1>9. TypeOK'
    BY <1>1, <1>2, <1>6 DEF TypeOK
  <1>10. AtOK'
    BY <1>1, <1>2 DEF AtOK
  <1>11. NoTwins'
    BY <1>1 DEF NoTwins
  <1>12. FreshOK'
    BY <1>1, <1>2, <1>6, <1>7 DEF FreshOK, Sending
  <1>13. ClosedOK'
    BY <1>1, <1>2 DEF ClosedOK
  <1>14. SendingOK'
    BY <1>1, <1>2 DEF SendingOK, Sending
  <1>15. ClockOK'
    BY <1>1, <1>2, <1>5, <1>6 DEF ClockOK
  <1>16. CountOK'
    <2> SUFFICES ASSUME NEW d \in Calls
                 PROVE  /\ client'[d].buf <= client'[d].used /\ client'[d].buf1 <= client'[d].used
                        /\ phase'[d] \in {"none", "open"} => reported'[d] + Due(d)' <= client'[d].buf1
      BY DEF CountOK
    <2>1. Due(d)' = IF client'[d].events = "Interim" THEN client'[d].buf ELSE 0
      BY <1>2 DEF Due, Sending
    <2>2. CASE d # at
      BY <2>1, <2>2, <1>1, <1>2, <1>6 DEF CountOK, Due, Sending
    <2>3. CASE d = at
      <3>1. phase[at] = "open" => reported[at] + Due(at)' <= client'[at].buf1
        <4>1. /\ reported[at] \in Int /\ client[at].buf1 \in Int
              /\ client'[at].buf \in Int /\ client'[at].buf1 \in Int
          BY <1>2, <1>3, <1>5 DEF TypeOK, ClientType
        <4> HAVE phase[at] = "open"
        <4>2. reported[at] <= client[at].buf1
          BY <1>8
        <4>3. Due(at)' = IF client'[at].events = "Interim" THEN client'[at].buf ELSE 0
          BY <2>1, <2>3, <1>1
        <4>4. CASE client'[at].events = "Interim"
          BY <4>1, <4>2, <4>3, <4>4, <1>5
        <4>5. CASE client'[at].events # "Interim"
          BY <4>1, <4>2, <4>3, <4>5, <1>5
        <4> QED
          BY <4>4, <4>5
      <3> QED
        BY <2>3, <3>1, <1>1, <1>5, <1>7
    <2> QED
      BY <2>2, <2>3
  <1> QED
    BY <1>9, <1>10, <1>11, <1>12, <1>13, <1>14, <1>15, <1>16

LEMMA StepInv == IInv /\ [Next]_vars => IInv'
  <1> SUFFICES ASSUME IInv, [Next]_vars PROVE IInv'
    OBVIOUS
  <1>1. ASSUME NEW c \in Calls, Invite(c) \/ Closed(c) PROVE IInv'
    BY <1>1, InviteInv, ClosedInv
  <1>2. CASE TimerStep
    BY <1>2, SendInv, SendFailedInv, RefusedInv, StartedInv, InterimedInv, DeletedInv,
       TickStartInv, TickRunningInv, TickInterimInv, TickStopInv, TickOtherInv,
       NextClientInv, TickEndInv DEF TimerStep
  <1>3. ASSUME NEW w \in Workers, Answered(w) \/ CreditRead(w) \/ CreditWrite(w) PROVE IInv'
    BY <1>3, AnsweredInv, CreditReadInv, CreditWriteInv
  <1>4. CASE UNCHANGED vars
    BY <1>4 DEF IInv, TypeOK, AtOK, NoTwins, FreshOK, ClosedOK, SendingOK, ClockOK, CountOK,
       Due, Sending, IsListed, vars
  <1> QED
    BY <1>1, <1>2, <1>3, <1>4 DEF Next

THEOREM Inductive == Spec => []IInv
  BY InitInv, StepInv, PTL DEF Spec

\* Every variable keeps its type.
THEOREM TypeCorrect == Spec => []TypeOK
  <1>1. IInv => TypeOK
    BY DEF IInv
  <1> QED
    BY <1>1, Inductive, PTL

\* No second is reported twice (used_crtdpsec_buf and used_crtdpsec_buf1 in msg_timer),
\* whatever fails and however late the answers come.
THEOREM SecondsReportedOnce == Spec => []NoSecondTwice
  <1>1. ASSUME IInv PROVE NoSecondTwice
    <2> SUFFICES ASSUME NEW c \in Calls, phase[c] = "open"
                 PROVE  reported[c] + Due(c) + (client[c].used - client[c].buf1)
                          <= client[c].used
      BY DEF NoSecondTwice, Due, Sending
    <2>1. reported[c] + Due(c) <= client[c].buf1
      BY <1>1 DEF IInv, CountOK
    <2>2. /\ reported[c] \in Int /\ Due(c) \in Int
          /\ client[c].used \in Int /\ client[c].buf1 \in Int
      BY <1>1 DEF IInv, TypeOK, ClientType, Due
    <2> QED
      BY <2>1, <2>2
  <1> QED
    BY <1>1, Inductive, PTL

sessionVars == <<phase, sessionUsed, reported>>

LEMMA InitSession == Init => Toward!Init
  BY DEF Init, Toward!Init, NewClient, sessionUsed

\* Seconds are used by running calls only.
LEMMA TickRunningSession ==
  ASSUME IInv, TickRunning PROVE [Toward!Next]_sessionVars
  <1> USE DEF IInv
  <1>1. /\ pc = "tick" /\ at \in Calls /\ IsListed(at) /\ client[at].events = "SStart"
        /\ client' = [client EXCEPT ![at] =
                        IF @.used < MaxUsed THEN Second(@, After(at) = Nil) ELSE @]
        /\ UNCHANGED <<phase, reported>>
    BY DEF TickRunning, AtOK
  <1>2. phase[at] \in {"open", "failed"}
    BY <1>1 DEF TypeOK, ClosedOK, FreshOK, Sending
  <1>3. CASE client[at].used < MaxUsed
    <2>1. /\ client[at] \in ClientType /\ client[at].timeout >= 1
          /\ client[at].buf <= client[at].used /\ client[at].buf1 <= client[at].used
      BY <1>1 DEF TypeOK, ClockOK, CountOK
    <2>2. Second(client[at], After(at) = Nil).used = client[at].used + 1
      BY <1>1, <1>3, <2>1, SecondIs
    <2>3. client' = [client EXCEPT ![at] = Second(client[at], After(at) = Nil)]
      BY <1>1, <1>3 DEF TypeOK
    <2>4. \A c \in Calls : client'[c].used = IF c = at THEN client[c].used + 1 ELSE client[c].used
      BY <1>1, <2>2, <2>3 DEF TypeOK
    <2>5. sessionUsed' = [sessionUsed EXCEPT ![at] = @ + 1]
      BY <1>1, <2>4 DEF sessionUsed
    <2>6. CASE phase[at] = "open"
      <3>1. Toward!Second(at)
        BY <1>1, <2>5, <2>6 DEF Toward!Second, sessionUsed
      <3>2. Toward!Next
        BY <1>1, <3>1 DEF Toward!Next
      <3> QED
        BY <3>2
    <2>7. CASE phase[at] = "failed"
      <3>1. sessionUsed' = [sessionUsed EXCEPT ![at] = sessionUsed'[at]]
        BY <1>1, <2>5 DEF sessionUsed
      <3>2. reported' = [reported EXCEPT ![at] = reported'[at]]
        BY <1>1 DEF TypeOK
      <3>3. Toward!Failed(at)
        BY <1>1, <2>7, <3>1, <3>2 DEF Toward!Failed, sessionUsed
      <3>4. Toward!Next
        BY <1>1, <3>3 DEF Toward!Next
      <3> QED
        BY <3>4
    <2> QED
      BY <1>2, <2>6, <2>7
  <1>4. CASE ~(client[at].used < MaxUsed)
    <2>1. client' = client
      BY <1>1, <1>4 DEF TypeOK
    <2> QED
      BY <1>1, <2>1 DEF sessionVars, sessionUsed
  <1> QED
    BY <1>3, <1>4

\* What a request reports was used and not reported before.
LEMMA SendSession == ASSUME IInv, Send PROVE [Toward!Next]_sessionVars
  <1> USE DEF IInv
  <1>1. /\ pc = "send" /\ at \in Calls /\ IsListed(at) /\ client' = client
        /\ phase' = [phase EXCEPT ![at] = IF @ = "failed" THEN @
                                          ELSE IF msg = "STOP" THEN "closed" ELSE "open"]
        /\ reported' = [reported EXCEPT ![at] = IF msg = "START" THEN @ ELSE @ + client[at].buf]
    BY DEF Send, Heard, AtOK
  <1>2. phase[at] # "closed" /\ (phase[at] = "none" <=> msg = "START")
    BY <1>1 DEF ClosedOK, FreshOK, SendingOK, Sending
  <1>3. sessionUsed' = sessionUsed /\ sessionUsed[at] = client[at].used
    BY <1>1 DEF sessionUsed
  <1>4. CASE msg = "START"
    <2>1. reported' = reported /\ phase' = [phase EXCEPT ![at] = "open"]
      BY <1>1, <1>2, <1>4 DEF TypeOK
    <2>2. Toward!Start(at)
      BY <1>2, <1>3, <1>4, <2>1 DEF Toward!Start, sessionUsed
    <2> QED
      BY <1>1, <2>2 DEF Toward!Next
  <1>5. CASE msg # "START" /\ phase[at] = "failed"
    <2>1. phase' = phase /\ reported' = [reported EXCEPT ![at] = reported'[at]]
      BY <1>1, <1>5 DEF TypeOK
    <2>2. sessionUsed' = [sessionUsed EXCEPT ![at] = sessionUsed'[at]]
      BY <1>1, <1>3 DEF sessionUsed
    <2>3. Toward!Failed(at)
      BY <1>5, <2>1, <2>2 DEF Toward!Failed, sessionUsed
    <2>4. Toward!Next
      BY <1>1, <2>3 DEF Toward!Next
    <2> QED
      BY <2>4
  <1>6. CASE msg # "START" /\ phase[at] = "open"
    <2>1. /\ client[at].buf \in 0 .. MaxUsed /\ reported[at] \in Nat
          /\ client[at].buf1 \in Int /\ client[at].used \in Int
      BY <1>1 DEF TypeOK, ClientType
    <2>2. reported[at] + client[at].buf <= client[at].used
      <3>1. /\ client[at].buf1 <= client[at].used
            /\ reported[at] + Due(at) <= client[at].buf1
        BY <1>1, <1>6 DEF CountOK
      <3>2. CASE msg = "INTERIM"
        BY <1>1, <2>1, <3>1, <3>2 DEF Due, Sending
      <3>3. CASE msg = "STOP"
        <4>1. client[at].buf = client[at].used - client[at].buf1
          BY <1>1, <3>3 DEF SendingOK, Sending
        <4>2. Due(at) >= 0 /\ Due(at) \in Int
          BY <1>1, <2>1 DEF Due
        <4> QED
          BY <2>1, <3>1, <4>1, <4>2
      <3> QED
        BY <1>6, <3>2, <3>3 DEF TypeOK
    <2>3. reported' = [reported EXCEPT ![at] = @ + client[at].buf]
      BY <1>1, <1>6
    <2>4. Toward!Report(at)
      BY <1>3, <2>1, <2>2, <2>3 DEF Toward!Report, sessionUsed
    <2>5. CASE msg = "INTERIM"
      <3>1. phase' = phase
        BY <1>1, <1>6, <2>5 DEF TypeOK
      <3>2. Toward!Interim(at)
        BY <1>3, <1>6, <2>4, <3>1 DEF Toward!Interim, sessionUsed
      <3> QED
        BY <1>1, <3>2 DEF Toward!Next
    <2>6. CASE msg = "STOP"
      <3>1. phase' = [phase EXCEPT ![at] = "closed"]
        BY <1>1, <1>6, <2>6 DEF TypeOK
      <3>2. Toward!Stop(at)
        BY <1>3, <1>6, <2>4, <3>1 DEF Toward!Stop, sessionUsed
      <3> QED
        BY <1>1, <3>2 DEF Toward!Next
    <2> QED
      BY <1>6, <2>5, <2>6 DEF TypeOK
  <1> QED
    BY <1>1, <1>2, <1>4, <1>5, <1>6 DEF TypeOK

LEMMA SendFailedSession == ASSUME IInv, SendFailed PROVE [Toward!Next]_sessionVars
  <1> USE DEF IInv
  <1>1. /\ pc = "send" /\ at \in Calls /\ client' = client /\ reported' = reported
        /\ phase' = [phase EXCEPT ![at] = IF msg = "START" THEN "failed" ELSE @]
    BY DEF SendFailed, AtOK
  <1>2. sessionUsed' = sessionUsed
    BY <1>1 DEF sessionUsed
  <1>3. CASE msg = "START"
    <2>1. phase[at] = "none" /\ phase' = [phase EXCEPT ![at] = "failed"]
      BY <1>1, <1>3 DEF SendingOK, Sending
    <2>2. Toward!Fail(at)
      BY <1>1, <1>2, <2>1 DEF Toward!Fail, sessionUsed
    <2> QED
      BY <1>1, <2>2 DEF Toward!Next
  <1>4. CASE msg # "START"
    <2>1. phase' = phase
      BY <1>1, <1>4 DEF TypeOK
    <2> QED
      BY <1>1, <1>2, <2>1 DEF sessionVars
  <1> QED
    BY <1>3, <1>4

\* No other step is heard of by the servers or lasts a second of a call.
LEMMA OtherSession ==
  ASSUME IInv, UNCHANGED <<phase, reported>>,
         \A c \in Calls : client'[c].used = client[c].used
  PROVE  UNCHANGED sessionVars
  BY DEF sessionVars, sessionUsed

LEMMA StepSession == IInv /\ [Next]_vars => [Toward!Next]_sessionVars
  <1> SUFFICES ASSUME IInv, [Next]_vars PROVE [Toward!Next]_sessionVars
    OBVIOUS
  <1> USE DEF IInv
  <1>1. ASSUME NEW c \in Calls, Invite(c) PROVE UNCHANGED sessionVars
    <2>1. UNCHANGED <<phase, reported>> /\ client[c].used = 0
      BY <1>1 DEF Invite, FreshOK
    <2>2. PICK type \in BOOLEAN, e \in Garbage : client' = [client EXCEPT ![c] = NewClient(type, e)]
      BY <1>1 DEF Invite
    <2>3. \A d \in Calls : client'[d].used = client[d].used
      BY <2>1, <2>2 DEF TypeOK, NewClient
    <2> QED
      BY <2>1, <2>3, OtherSession
  <1>2. ASSUME NEW c \in Calls, Closed(c) PROVE UNCHANGED sessionVars
    <2>1. \A d \in Calls : client'[d].used = client[d].used
      BY <1>2 DEF Closed, TypeOK, ClientType
    <2> QED
      BY <1>2, <2>1, OtherSession DEF Closed
  <1>3. ASSUME NEW w \in Workers, CreditWrite(w) PROVE UNCHANGED sessionVars
    <2>1. \A d \in Calls : client'[d].used = client[d].used
      <3> SUFFICES ASSUME NEW d \in Calls PROVE client'[d].used = client[d].used
        OBVIOUS
      <3>1. CASE d = job[w].call
        <4>1. job[w].credit \in Int /\ job[w].grant \in Grants \cup {0}
          BY <1>3 DEF TypeOK, JobType
        <4>2. client'[d] = Credited(d, job[w].credit, job[w].grant)
          BY <1>3, <3>1 DEF CreditWrite, TypeOK
        <4>3. Credited(d, job[w].credit, job[w].grant).used = client[d].used
          BY <4>1, CreditedIs
        <4> QED
          BY <4>2, <4>3
      <3>2. CASE d # job[w].call
        BY <1>3, <3>2 DEF CreditWrite, TypeOK
      <3> QED
        BY <3>1, <3>2
    <2> QED
      BY <1>3, <2>1, OtherSession DEF CreditWrite
  <1>4. CASE Started \/ TickInterim \/ TickStop
    <2>1. at \in Calls /\ UNCHANGED <<phase, reported>>
      BY <1>4 DEF AtOK, Started, TickInterim, TickStop
    <2>2. \A d \in Calls : client'[d].used = client[d].used
      <3>1. CASE Started
        BY <2>1, <3>1 DEF Started, TypeOK, ClientType
      <3>2. CASE TickInterim
        BY <2>1, <3>2 DEF TickInterim, TypeOK, ClientType
      <3>3. CASE TickStop
        BY <2>1, <3>3 DEF TickStop, TypeOK, ClientType
      <3> QED
        BY <1>4, <3>1, <3>2, <3>3
    <2> QED
      BY <2>1, <2>2, OtherSession
  <1>5. CASE Refused \/ Interimed \/ Deleted \/ TickStart \/ TickOther \/ NextClient \/ TickEnd
    BY <1>5 DEF Refused, Interimed, Deleted, TickStart, TickOther, NextClient, TickEnd,
       sessionVars, sessionUsed
  <1>6. ASSUME NEW w \in Workers, Answered(w) \/ CreditRead(w) PROVE UNCHANGED sessionVars
    BY <1>6 DEF Answered, CreditRead, sessionVars, sessionUsed
  <1>7. CASE UNCHANGED vars
    BY <1>7 DEF vars, sessionVars, sessionUsed
  <1>8. CASE TimerStep
    BY <1>4, <1>5, <1>8, SendSession, SendFailedSession, TickRunningSession DEF TimerStep
  <1> QED
    BY <1>1, <1>2, <1>3, <1>6, <1>7, <1>8 DEF Next

\* What the servers hear of a call is what ChargingSession promises: START, INTERIMs and
\* STOP in this order, no second before it was used and none twice.
THEOREM PromiseKept == Spec => KeepsPromise
  <1>1. Init => Toward!Init
    BY InitSession
  <1>2. IInv /\ [Next]_vars => [Toward!Next]_sessionVars
    BY StepSession
  <1> QED
    BY <1>1, <1>2, Inductive, PTL DEF Spec, KeepsPromise, Toward!Spec, sessionVars, sessionUsed
=============================================================================
