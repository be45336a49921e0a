-------------------------- MODULE IptvServerProofs --------------------------
(***************************************************************************)
(* Proofs about two servers: the IPTV application server (IptvServer), for *)
(* any number of calls, and the charging data function (CdfAccounting),    *)
(* for any number of workers, sessions and blocks of memory.               *)
(***************************************************************************)
EXTENDS IptvServer, CdfAccounting, TLAPS, SequenceTheorems

(***************************************************************************)
(* IptvServer: the inductive invariant.                                    *)
(***************************************************************************)

SipEvents == [type : {"CALL_INVITE", "CALL_CLOSED", "CALL_CANCELLED"}, call : Calls]

Invite(c) == Event("CALL_INVITE", c)
Closing(c) == Event("CALL_CLOSED", c)

Queued == {events[i] : i \in 1 .. Len(events)}

IptvTypeOK ==
  /\ sip \in [Calls -> {"none", "invited", "answered", "refused", "cancelled", "closed",
                        "terminated"}]
  /\ offer \in [Calls -> Offers \cup {<<>>}]
  /\ events \in Seq(SipEvents) /\ je \in SipEvents \cup {NoEvent}
  /\ place \in {"wait", "invite", "charging", "freed", "look"}
  /\ client \in [Calls -> {"none", "online", "offline", "other"}]
  /\ stopping \in SUBSET Calls /\ accepted \in SUBSET Calls

\* The event in hand, and what is known of its call.
HandOK ==
  /\ place # "wait" => je \in SipEvents
  /\ place \in {"invite", "charging"} => je.type = "CALL_INVITE" /\ je \notin Queued
  /\ place = "charging" =>
       /\ client[je.call] # "none" /\ je.call \notin stopping /\ je.call \notin accepted
       /\ sip[je.call] \in {"invited", "cancelled"}

\* The calls whose INVITE has not been handled.
Waiting == {c \in Calls : Invite(c) \in Queued \/ (place = "invite" /\ je = Invite(c))}

\* An INVITE is queued once, and nothing is known of its call.
InviteOK ==
  /\ \A i, j \in 1 .. Len(events) :
       events[i] = events[j] /\ events[i].type = "CALL_INVITE" => i = j
  /\ \A c \in Waiting :
       /\ client[c] = "none" /\ c \notin stopping /\ c \notin accepted
       /\ sip[c] \in {"invited", "cancelled"}
  /\ \A c \in Calls :
       sip[c] = "none" => /\ client[c] = "none" /\ c \notin stopping /\ c \notin accepted
                          /\ c \notin Waiting
                          /\ ~(place = "charging" /\ je = Invite(c))

\* The type of a client is one that its SDP may have given.
ClientOK ==
  \A c \in Calls :
    client[c] # "none" => \E ch \in TypesOf(offer[c]) : client[c] = TypeName(ch)

\* Who watches is charged, and stopped while he watches only when his credit is used up.
WatchOK ==
  \A c \in Calls :
    sip[c] = "answered" => /\ c \in accepted /\ client[c] # "none"
                           /\ c \in stopping => client[c] = "online"

\* Who has hung up is stopped, or his CALL_CLOSED is on its way.
HungUpOK ==
  \A c \in Calls :
    /\ Closing(c) \in Queued \/ je = Closing(c) => sip[c] = "closed"
    /\ sip[c] = "closed" => \/ Closing(c) \in Queued \/ (place = "look" /\ je = Closing(c))
                            \/ client[c] = "none" \/ c \in stopping

IptvIInv ==
  IptvTypeOK /\ HandOK /\ InviteOK /\ ClientOK /\ WatchOK /\ HungUpOK

LEMMA EventIs ==
  /\ \A c \in Calls : \A t \in {"CALL_INVITE", "CALL_CLOSED", "CALL_CANCELLED"} :
       /\ Event(t, c) \in SipEvents /\ Event(t, c).type = t /\ Event(t, c).call = c
       /\ \A d \in Calls : \A u \in {"CALL_INVITE", "CALL_CLOSED", "CALL_CANCELLED"} :
            Event(t, c) = Event(u, d) => t = u /\ c = d
  /\ \A e \in SipEvents : e.call \in Calls /\ e = Event(e.type, e.call)
  /\ NoEvent \notin SipEvents
  <1>1. \A c \in Calls : \A t \in {"CALL_INVITE", "CALL_CLOSED", "CALL_CANCELLED"} :
          Event(t, c) \in SipEvents /\ Event(t, c).type = t /\ Event(t, c).call = c
    BY DEF Event, SipEvents
  <1>2. \A e \in SipEvents : e.call \in Calls /\ e = Event(e.type, e.call)
    BY DEF Event, SipEvents
  <1>3. ASSUME NoEvent \in SipEvents
        PROVE  FALSE
    <2>1. DOMAIN NoEvent = {"type"}
      BY DEF NoEvent
    <2>2. DOMAIN NoEvent = {"type", "call"}
      BY <1>3 DEF SipEvents
    <2> QED
      BY <2>1, <2>2
  <1> QED
    BY <1>1, <1>2, <1>3

LEMMA QueueAppend ==
  ASSUME NEW e \in SipEvents, events \in Seq(SipEvents), events' = Append(events, e)
  PROVE  /\ events' \in Seq(SipEvents) /\ Queued' = Queued \cup {e}
         /\ Len(events') = Len(events) + 1 /\ events'[Len(events) + 1] = e
         /\ \A i \in 1 .. Len(events) : events'[i] = events[i]
  <1>1. /\ events' \in Seq(SipEvents) /\ Len(events') = Len(events) + 1
        /\ events'[Len(events) + 1] = e /\ \A i \in 1 .. Len(events) : events'[i] = events[i]
        /\ Len(events) \in Nat
    OBVIOUS
  <1>2. Queued' = Queued \cup {e}
    BY <1>1 DEF Queued
  <1> QED
    BY <1>1, <1>2

LEMMA QueueTail ==
  ASSUME events \in Seq(SipEvents), events # <<>>, events' = Tail(events)
  PROVE  /\ events' \in Seq(SipEvents) /\ Len(events') = Len(events) - 1
         /\ Head(events) = events[1] /\ Head(events) \in SipEvents
         /\ \A i \in 1 .. Len(events') : events'[i] = events[i + 1]
         /\ Queued = Queued' \cup {Head(events)}
  <1>1. /\ events' \in Seq(SipEvents) /\ Len(events') = Len(events) - 1
        /\ Head(events) = events[1] /\ Head(events) \in SipEvents
        /\ \A i \in 1 .. Len(events') : events'[i] = events[i + 1]
        /\ Len(events) \in Nat /\ Len(events) > 0
    OBVIOUS
  <1>2. Queued' \subseteq Queued /\ Head(events) \in Queued
    BY <1>1 DEF Queued
  <1>3. ASSUME NEW i \in 1 .. Len(events), i # 1 PROVE events[i] \in Queued'
    <2>1. i - 1 \in 1 .. Len(events') /\ (i - 1) + 1 = i
      BY <1>1, <1>3
    <2>2. events'[i - 1] = events[i]
      BY <1>1, <2>1
    <2> QED
      BY <2>1, <2>2 DEF Queued
  <1>4. Queued \subseteq Queued' \cup {Head(events)}
    BY <1>1, <1>3 DEF Queued
  <1> QED
    BY <1>1, <1>2, <1>4

LEMMA IptvInitInv == IptvInit => IptvIInv
  <1> SUFFICES ASSUME IptvInit PROVE IptvIInv
    OBVIOUS
  <1>1. events = <<>> /\ Queued = {} /\ je = NoEvent /\ place = "wait" /\ Len(events) = 0
    BY DEF IptvInit, Queued
  <1>2. IptvTypeOK
    BY DEF IptvInit, IptvTypeOK
  <1>3. HandOK /\ Waiting = {} /\ InviteOK
    BY <1>1 DEF IptvInit, HandOK, Waiting, InviteOK
  <1>4. ClientOK /\ WatchOK /\ HungUpOK
    BY <1>1, EventIs DEF IptvInit, ClientOK, WatchOK, HungUpOK, Closing
  <1> QED
    BY <1>2, <1>3, <1>4 DEF IptvIInv

(***************************************************************************)
(* Steps.                                                                  *)
(***************************************************************************)

\* The SIP stack and the user.
LEMMA UserInv ==
  ASSUME IptvIInv, NEW c \in Calls, UserInvites(c) \/ UserCloses(c) \/ UserCancels(c)
  PROVE  IptvIInv'
  <1> USE DEF IptvIInv
  <1>1. PICK e \in SipEvents :
          /\ Raise(e)
          /\ \/ e = Invite(c) /\ sip[c] = "none" /\ sip' = [sip EXCEPT ![c] = "invited"]
                /\ \E o \in Offers : offer' = [offer EXCEPT ![c] = o]
             \/ e = Closing(c) /\ sip[c] = "answered" /\ sip' = [sip EXCEPT ![c] = "closed"]
                /\ offer' = offer
             \/ e = Event("CALL_CANCELLED", c) /\ sip[c] = "invited"
                /\ sip' = [sip EXCEPT ![c] = "cancelled"] /\ offer' = offer
    BY EventIs DEF UserInvites, UserCloses, UserCancels, Invite, Closing
  <1>2. UNCHANGED <<place, client, stopping, accepted>>
    BY DEF UserInvites, UserCloses, UserCancels
  <1>3. /\ place # "charging" /\ events' = Append(events, e)
        /\ IF place = "freed" THEN je' \in {je, e} ELSE je' = je
    BY <1>1 DEF Raise
  <1>4. /\ events' \in Seq(SipEvents) /\ Queued' = Queued \cup {e}
        /\ Len(events') = Len(events) + 1 /\ events'[Len(events) + 1] = e
        /\ \A i \in 1 .. Len(events) : events'[i] = events[i]
    BY <1>3, QueueAppend DEF IptvTypeOK
  <1>5. IptvTypeOK'
    BY <1>1, <1>2, <1>3, <1>4 DEF IptvTypeOK
  <1>6. \A d \in Calls : d # c => sip'[d] = sip[d] /\ offer'[d] = offer[d]
    BY <1>1 DEF IptvTypeOK
  <1>7. e.call = c /\ e = Event(e.type, c)
    BY <1>1, EventIs DEF Invite, Closing
  <1>8. e.type = "CALL_INVITE" => e = Invite(c) /\ sip[c] = "none" /\ sip'[c] = "invited"
    BY <1>1, EventIs DEF Invite, Closing, IptvTypeOK
  <1>9. e.type # "CALL_INVITE" => offer' = offer
    BY <1>1, EventIs DEF Invite
  <1>10. HandOK'
    <2>1. place' = "invite" => je' # e
      <3> SUFFICES ASSUME place = "invite", je = e PROVE FALSE
        BY <1>2, <1>3
      <3>1. e = Invite(c) /\ sip[c] = "none" /\ c \in Waiting
        BY <1>8 DEF HandOK, Waiting
      <3> QED
        BY <3>1 DEF InviteOK
    <2> QED
      BY <1>2, <1>3, <1>4, <2>1 DEF HandOK
  <1>11. \A d \in Calls : d \in Waiting' => d \in Waiting \/ (d = c /\ e = Invite(c))
    BY <1>2, <1>3, <1>4, <1>7, EventIs DEF Waiting, Invite
  <1>12. InviteOK'
    <2>1. ASSUME NEW i \in 1 .. Len(events), events[i] = e, e.type = "CALL_INVITE"
          PROVE  FALSE
      BY <1>8, <2>1 DEF InviteOK, Waiting, Queued
    <2>2. ASSUME NEW i \in 1 .. Len(events'), NEW j \in 1 .. Len(events'),
                 events'[i] = events'[j], events'[i].type = "CALL_INVITE"
          PROVE  i = j
      <3>1. Len(events) \in Nat
        BY DEF IptvTypeOK
      <3>2. /\ i \in 1 .. Len(events) \/ i = Len(events) + 1
            /\ j \in 1 .. Len(events) \/ j = Len(events) + 1
        BY <1>4, <3>1
      <3> QED
        BY <1>4, <2>1, <2>2, <3>2 DEF InviteOK
    <2>3. ASSUME NEW d \in Waiting'
          PROVE  /\ client[d] = "none" /\ d \notin stopping /\ d \notin accepted
                 /\ sip'[d] \in {"invited", "cancelled"}
      <3>1. d \in Calls
        BY DEF Waiting
      <3>2. CASE d = c /\ e = Invite(c)
        BY <1>8, <3>1, <3>2, EventIs DEF InviteOK, Invite
      <3>3. CASE d \in Waiting /\ d # c
        BY <1>6, <3>1, <3>3 DEF InviteOK
      <3>4. CASE d \in Waiting /\ d = c
        <4>1. sip[c] \in {"invited", "cancelled"}
          BY <3>4 DEF InviteOK
        <4>2. sip'[c] = "cancelled"
          BY <1>1, <4>1 DEF IptvTypeOK
        <4> QED
          BY <3>4, <4>2 DEF InviteOK
      <3> QED
        BY <1>11, <3>1, <3>2, <3>3, <3>4
    <2>4. ASSUME NEW d \in Calls, sip'[d] = "none"
          PROVE  /\ client[d] = "none" /\ d \notin stopping /\ d \notin accepted
                 /\ d \notin Waiting'
      <3>1. d # c
        BY <1>1, <2>4 DEF IptvTypeOK
      <3> QED
        BY <1>6, <1>11, <2>4, <3>1 DEF InviteOK
    <2> QED
      BY <1>2, <1>3, <2>2, <2>3, <2>4 DEF InviteOK
  <1>13. ClientOK'
    <2> SUFFICES ASSUME NEW d \in Calls, client[d] # "none"
                 PROVE  \E ch \in TypesOf(offer'[d]) : client[d] = TypeName(ch)
      BY <1>2 DEF ClientOK
    <2>1. offer'[d] = offer[d]
      BY <1>6, <1>8, <1>9 DEF InviteOK
    <2> QED
      BY <2>1 DEF ClientOK
  <1>14. WatchOK'
    <2>1. sip'[c] # "answered"
      BY <1>1 DEF IptvTypeOK
    <2> QED
      BY <1>2, <1>6, <2>1 DEF WatchOK
  <1>15. HungUpOK'
    <2> SUFFICES ASSUME NEW d \in Calls
                 PROVE  /\ Closing(d) \in Queued' \/ je' = Closing(d) => sip'[d] = "closed"
                        /\ sip'[d] = "closed" =>
                             \/ Closing(d) \in Queued' \/ (place = "look" /\ je' = Closing(d))
                             \/ client[d] = "none" \/ d \in stopping
      BY <1>2 DEF HungUpOK, Closing, Event
    <2>1. e = Closing(d) => d = c /\ sip'[d] = "closed"
      BY <1>1, EventIs DEF Invite, Closing, IptvTypeOK
    <2>2. sip[d] = "closed" => sip'[d] = "closed"
      BY <1>1, <1>6
    <2>3. sip'[d] = "closed" => sip[d] = "closed" \/ e = Closing(d)
      BY <1>1, <1>6 DEF IptvTypeOK
    <2>4. place = "look" => je' = je
      BY <1>3
    <2> QED
      BY <1>3, <1>4, <2>1, <2>2, <2>3, <2>4 DEF HungUpOK
  <1> QED
    BY <1>5, <1>10, <1>12, <1>13, <1>14, <1>15

LEMMA WaitInv == ASSUME IptvIInv, Wait PROVE IptvIInv'
  <1> USE DEF IptvIInv
  <1>1. /\ place = "wait" /\ events # <<>>
        /\ je' = Head(events) /\ events' = Tail(events)
        /\ place' = IF je'.type = "CALL_INVITE" THEN "invite" ELSE "look"
        /\ UNCHANGED <<sip, offer, client, stopping, accepted>>
    BY DEF Wait
  <1>2. /\ events' \in Seq(SipEvents) /\ Len(events') = Len(events) - 1
        /\ je' = events[1] /\ je' \in SipEvents
        /\ \A i \in 1 .. Len(events') : events'[i] = events[i + 1]
        /\ Queued = Queued' \cup {je'}
    BY <1>1, QueueTail DEF IptvTypeOK
  <1>3. Len(events) \in Nat /\ Len(events) > 0
    BY <1>1 DEF IptvTypeOK
  <1>4. IptvTypeOK'
    BY <1>1, <1>2 DEF IptvTypeOK
  <1>5. je'.type = "CALL_INVITE" => je' \notin Queued'
    <2> SUFFICES ASSUME je'.type = "CALL_INVITE", NEW i \in 1 .. Len(events'),
                        events'[i] = je'
                 PROVE  FALSE
      BY DEF Queued
    <2>1. i + 1 \in 1 .. Len(events) /\ 1 \in 1 .. Len(events) /\ i + 1 # 1
      BY <1>2, <1>3
    <2>2. events[i + 1] = events[1] /\ events[1].type = "CALL_INVITE"
      BY <1>2
    <2> QED
      BY <2>1, <2>2 DEF InviteOK
  <1>6. HandOK'
    BY <1>1, <1>2, <1>5 DEF HandOK
  <1>7. Waiting' \subseteq Waiting
    BY <1>1, <1>2 DEF Waiting, Invite, Event
  <1>8. InviteOK'
    <2>1. ASSUME NEW i \in 1 .. Len(events'), NEW j \in 1 .. Len(events'),
                 events'[i] = events'[j], events'[i].type = "CALL_INVITE"
          PROVE  i = j
      <3>1. i + 1 \in 1 .. Len(events) /\ j + 1 \in 1 .. Len(events)
        BY <1>2, <1>3
      <3>2. i + 1 = j + 1
        BY <1>2, <2>1, <3>1 DEF InviteOK
      <3> QED
        BY <3>2
    <2>2. place' # "charging"
      BY <1>1
    <2> QED
      BY <1>1, <1>7, <2>1, <2>2 DEF InviteOK
  <1>9. ClientOK' /\ WatchOK'
    BY <1>1 DEF ClientOK, WatchOK
  <1>10. HungUpOK'
    <2> SUFFICES ASSUME NEW d \in Calls
                 PROVE  /\ Closing(d) \in Queued' \/ je' = Closing(d) => sip[d] = "closed"
                        /\ sip[d] = "closed" =>
                             \/ Closing(d) \in Queued' \/ (place' = "look" /\ je' = Closing(d))
                             \/ client[d] = "none" \/ d \in stopping
      BY <1>1 DEF HungUpOK, Closing, Event
    <2>1. je' = Closing(d) => place' = "look"
      BY <1>1, EventIs DEF Closing
    <2> QED
      BY <1>1, <1>2, <2>1 DEF HungUpOK
  <1> QED
    BY <1>4, <1>6, <1>8, <1>9, <1>10

\* The INVITE in hand is answered, refused, or left alone.
LEMMA AnswerInv ==
  ASSUME IptvIInv, UnknownContent \/ Started \/ NotStarted PROVE IptvIInv'
  <1> USE DEF IptvIInv
  <1> DEFINE c == je.call
  <1>1. /\ place \in {"invite", "charging"} /\ place' = "freed"
        /\ \/ Started /\ place = "charging"
           \/ accepted' = accepted
        /\ UNCHANGED <<offer, events, je, client, stopping>>
    BY DEF UnknownContent, Started, NotStarted
  <1>2. c \in Calls /\ je = Invite(c) /\ Queued' = Queued /\ je \notin Queued
    BY <1>1, EventIs DEF HandOK, Invite, Queued
  <1>3. /\ accepted' \in {accepted, accepted \cup {c}}
        /\ \/ sip' = [sip EXCEPT ![c] = IF @ = "invited" THEN "refused" ELSE @]
           \/ sip' = [sip EXCEPT ![c] = IF @ = "invited" THEN "answered" ELSE @] /\ c \in accepted'
              /\ place = "charging"
           \/ sip' = sip
    BY DEF UnknownContent, Started, NotStarted, Answer
  <1>4. sip[c] # "none" /\ (sip'[c] # sip[c] => sip[c] = "invited")
    BY <1>1, <1>2, <1>3 DEF HandOK, InviteOK, Waiting, IptvTypeOK
  <1>5. sip'[c] \in {sip[c], "refused", "answered"}
    BY <1>2, <1>3 DEF IptvTypeOK
  <1>6. \A d \in Calls : d # c => sip'[d] = sip[d] /\ (d \in accepted' <=> d \in accepted)
    BY <1>3 DEF IptvTypeOK
  <1>7. sip'[c] = "answered" => c \in accepted' /\ client[c] # "none" /\ c \notin stopping
    <2>1. sip[c] \in {"invited", "cancelled"}
      BY <1>1, <1>2 DEF HandOK, InviteOK, Waiting
    <2>2. sip'[c] = "answered" => c \in accepted' /\ place = "charging"
      BY <1>2, <1>3, <2>1 DEF IptvTypeOK
    <2> QED
      BY <1>1, <2>2 DEF HandOK
  <1>8. IptvTypeOK'
    BY <1>1, <1>2, <1>3 DEF IptvTypeOK
  <1>9. HandOK'
    BY <1>1 DEF HandOK
  <1>10. Waiting' \subseteq Waiting \ {c}
    BY <1>1, <1>2, EventIs DEF Waiting, Invite
  <1> HIDE DEF c
  <1>11. InviteOK'
    <2>1. ASSUME NEW d \in Waiting'
          PROVE  /\ client[d] = "none" /\ d \notin stopping /\ d \notin accepted'
                 /\ sip'[d] \in {"invited", "cancelled"}
      BY <1>6, <1>10 DEF InviteOK, Waiting
    <2>2. ASSUME NEW d \in Calls, sip'[d] = "none"
          PROVE  /\ client[d] = "none" /\ d \notin stopping /\ d \notin accepted'
                 /\ d \notin Waiting'
      <3>1. d # c
        BY <1>4, <1>5, <2>2
      <3> QED
        BY <1>6, <1>10, <2>2, <3>1 DEF InviteOK
    <2> QED
      BY <1>1, <2>1, <2>2 DEF InviteOK
  <1>12. ClientOK'
    BY <1>1 DEF ClientOK
  <1>13. WatchOK'
    BY <1>1, <1>6, <1>7 DEF WatchOK
  <1>14. HungUpOK'
    <2> SUFFICES ASSUME NEW d \in Calls
                 PROVE  /\ Closing(d) \in Queued \/ je = Closing(d) => sip'[d] = "closed"
                        /\ sip'[d] = "closed" => \/ Closing(d) \in Queued
                                                 \/ client[d] = "none" \/ d \in stopping
      BY <1>1, <1>2 DEF HungUpOK, Closing, Event
    <2>1. sip'[d] = "closed" <=> sip[d] = "closed"
      BY <1>4, <1>5, <1>6
    <2>2. place # "look"
      BY <1>1
    <2> QED
      BY <2>1, <2>2 DEF HungUpOK
  <1> QED
    BY <1>8, <1>9, <1>11, <1>12, <1>13, <1>14

LEMMA StartChargingInv == ASSUME IptvIInv, StartCharging PROVE IptvIInv'
  <1> USE DEF IptvIInv
  <1> DEFINE c == je.call
  <1>1. /\ place = "invite" /\ place' \in {"freed", "charging"}
        /\ UNCHANGED <<sip, offer, events, je, stopping, accepted>>
        /\ \/ place' = "freed" /\ client' = client
           \/ \E ch \in TypesOf(offer[c]) : client' = [client EXCEPT ![c] = TypeName(ch)]
    BY DEF StartCharging
  <1>2. c \in Calls /\ je = Invite(c) /\ Queued' = Queued /\ je \notin Queued
    BY <1>1, EventIs DEF HandOK, Invite, Queued
  <1>3. c \in Waiting
    BY <1>1, <1>2 DEF Waiting
  <1>4. /\ client[c] = "none" /\ c \notin stopping /\ c \notin accepted
        /\ sip[c] \in {"invited", "cancelled"}
    BY <1>3 DEF InviteOK
  <1>5. \A ch : TypeName(ch) \in {"online", "offline", "other"}
    BY DEF TypeName
  <1> HIDE DEF c
  <1>6. /\ \A d \in Calls : d # c => client'[d] = client[d]
        /\ place' = "charging" => client'[c] # "none"
        /\ client' \in [Calls -> {"none", "online", "offline", "other"}]
        /\ client'[c] # "none" => \E ch \in TypesOf(offer[c]) : client'[c] = TypeName(ch)
    <2>1. CASE place' = "freed" /\ client' = client
      BY <2>1, <1>4 DEF IptvTypeOK
    <2>2. ASSUME NEW ch \in TypesOf(offer[c]), client' = [client EXCEPT ![c] = TypeName(ch)]
          PROVE  /\ \A d \in Calls : d # c => client'[d] = client[d]
                 /\ client'[c] # "none"
                 /\ client' \in [Calls -> {"none", "online", "offline", "other"}]
                 /\ client'[c] = TypeName(ch)
      BY <1>2, <1>5, <2>2 DEF IptvTypeOK
    <2> QED
      BY <1>1, <2>1, <2>2 DEF c
  <1>7. IptvTypeOK'
    BY <1>1, <1>6 DEF IptvTypeOK
  <1>8. HandOK'
    <2>1. je'.call = c
      BY <1>1 DEF c
    <2>2. je' \in SipEvents /\ je'.type = "CALL_INVITE" /\ je' \notin Queued'
      BY <1>1, <1>2 DEF HandOK
    <2> QED
      BY <1>1, <1>4, <1>6, <2>1, <2>2 DEF HandOK
  <1>9. Waiting' \subseteq Waiting \ {c}
    BY <1>1, <1>2, EventIs DEF Waiting, Invite
  <1>10. InviteOK'
    <2>1. ASSUME NEW d \in Waiting'
          PROVE  client'[d] = "none" /\ d \in Waiting
      BY <1>6, <1>9 DEF InviteOK, Waiting
    <2>2. ASSUME NEW d \in Calls, sip[d] = "none"
          PROVE  client'[d] = "none" /\ d \notin Waiting' /\ je # Invite(d)
      <3>1. d # c
        BY <1>4, <2>2
      <3> QED
        BY <1>2, <1>6, <1>9, <2>2, <3>1, EventIs DEF InviteOK, Invite
    <2> QED
      BY <1>1, <2>1, <2>2 DEF InviteOK, Invite, Event
  <1>11. ClientOK'
    <2> SUFFICES ASSUME NEW d \in Calls, client'[d] # "none"
                 PROVE  \E ch \in TypesOf(offer[d]) : client'[d] = TypeName(ch)
      BY <1>1 DEF ClientOK
    <2> QED
      BY <1>6 DEF ClientOK
  <1>12. WatchOK' /\ HungUpOK'
    BY <1>1, <1>2, <1>4, <1>6 DEF WatchOK, HungUpOK, Closing, Event
  <1> QED
    BY <1>7, <1>8, <1>10, <1>11, <1>12

\* The freed event is looked at once more.
LEMMA LookAgainInv == ASSUME IptvIInv, LookAgain PROVE IptvIInv'
  <1> USE DEF IptvIInv
  <1>1. /\ place = "freed" /\ place' = "look" /\ Queued' = Queued
        /\ UNCHANGED <<sip, offer, events, je, client, stopping, accepted>>
    BY DEF LookAgain, Queued
  <1>2. IptvTypeOK' /\ HandOK'
    BY <1>1 DEF IptvTypeOK, HandOK
  <1>3. Waiting' \subseteq Waiting
    BY <1>1 DEF Waiting, Invite, Event
  <1>4. InviteOK'
    BY <1>1, <1>3 DEF InviteOK
  <1>5. ClientOK' /\ WatchOK' /\ HungUpOK'
    BY <1>1 DEF ClientOK, WatchOK, HungUpOK, Closing, Event
  <1> QED
    BY <1>2, <1>4, <1>5

LEMMA LookInv == ASSUME IptvIInv, Close \/ LookAway PROVE IptvIInv'
  <1> USE DEF IptvIInv
  <1>1. /\ place = "look" /\ place' = "wait" /\ Queued' = Queued
        /\ UNCHANGED <<sip, offer, events, je, client, accepted>>
        /\ \/ /\ je.type = "CALL_CLOSED" /\ client[je.call] # "none"
              /\ stopping' = stopping \cup {je.call}
           \/ /\ je.type = "CALL_CLOSED" => client[je.call] = "none"
              /\ stopping' = stopping
    BY DEF Close, LookAway, Queued
  <1>2. je \in SipEvents /\ je.call \in Calls /\ je = Event(je.type, je.call)
    BY <1>1, EventIs DEF HandOK
  <1>3. \A d \in Calls : d \in stopping' /\ d \notin stopping => je = Closing(d)
    BY <1>1, <1>2 DEF Closing
  <1>4. \A d \in Calls : d \in stopping' /\ d \notin stopping => sip[d] = "closed" /\ client[d] # "none"
    <2> SUFFICES ASSUME NEW d \in Calls, d \in stopping', d \notin stopping
                 PROVE  sip[d] = "closed" /\ client[d] # "none"
      OBVIOUS
    <2>1. sip[d] = "closed"
      BY <1>3 DEF HungUpOK
    <2> QED
      BY <1>1, <2>1
  <1>5. stopping \subseteq stopping'
    BY <1>1
  <1>6. IptvTypeOK' /\ HandOK'
    BY <1>1, <1>2 DEF IptvTypeOK, HandOK
  <1>7. Waiting' \subseteq Waiting
    BY <1>1 DEF Waiting, Invite, Event
  <1>8. InviteOK'
    <2>1. ASSUME NEW d \in Waiting' PROVE d \notin stopping'
      BY <1>4, <1>7, <2>1 DEF InviteOK, Waiting
    <2>2. ASSUME NEW d \in Calls, sip[d] = "none" PROVE d \notin stopping'
      BY <1>4, <2>2 DEF InviteOK
    <2> QED
      BY <1>1, <1>7, <2>1, <2>2 DEF InviteOK
  <1>9. ClientOK'
    BY <1>1 DEF ClientOK
  <1>10. WatchOK'
    BY <1>1, <1>4 DEF WatchOK
  <1>11. HungUpOK'
    <2> SUFFICES ASSUME NEW d \in Calls, sip[d] = "closed"
                 PROVE  Closing(d) \in Queued \/ client[d] = "none" \/ d \in stopping'
      BY <1>1 DEF HungUpOK, Closing, Event
    <2>1. je = Closing(d) => je.type = "CALL_CLOSED" /\ je.call = d
      BY EventIs DEF Closing
    <2> QED
      BY <1>1, <1>5, <2>1 DEF HungUpOK
  <1> QED
    BY <1>6, <1>8, <1>9, <1>10, <1>11

\* msg_timer.
LEMMA TimerInv ==
  ASSUME IptvIInv, NEW c \in Calls, Exhausted(c) \/ Deleted(c) PROVE IptvIInv'
  <1> USE DEF IptvIInv
  <1>1. /\ place = "wait" /\ client[c] # "none" /\ Queued' = Queued
        /\ UNCHANGED <<offer, events, je, place, accepted>>
    BY DEF Exhausted, Deleted, Queued
  <1>2. Waiting' = Waiting /\ c \notin Waiting /\ sip[c] # "none"
    BY <1>1 DEF Waiting, InviteOK, Invite, Event
  <1>3. HandOK'
    BY <1>1 DEF HandOK
  <1>4. CASE Exhausted(c)
    <2>1. /\ client[c] = "online" \/ c \notin accepted
          /\ stopping' = stopping \cup {c} /\ UNCHANGED <<sip, client>>
      BY <1>4 DEF Exhausted
    <2>2. IptvTypeOK' /\ ClientOK'
      BY <1>1, <2>1 DEF IptvTypeOK, ClientOK
    <2>3. InviteOK'
      BY <1>1, <1>2, <2>1 DEF InviteOK
    <2>4. WatchOK'
      BY <1>1, <2>1 DEF WatchOK
    <2>5. HungUpOK'
      BY <1>1, <2>1 DEF HungUpOK, Closing, Event
    <2> QED
      BY <1>3, <2>2, <2>3, <2>4, <2>5
  <1>5. CASE Deleted(c)
    <2>1. /\ c \in stopping
          /\ sip' = [sip EXCEPT ![c] = IF client[c] = "online" /\ @ = "answered"
                                       THEN "terminated" ELSE @]
          /\ client' = [client EXCEPT ![c] = "none"] /\ stopping' = stopping \ {c}
      BY <1>5 DEF Deleted
    <2>2. IptvTypeOK'
      BY <1>1, <2>1 DEF IptvTypeOK
    <2>3. /\ \A d \in Calls : d # c => sip'[d] = sip[d] /\ client'[d] = client[d]
                                         /\ (d \in stopping' <=> d \in stopping)
          /\ client'[c] = "none" /\ c \notin stopping'
          /\ sip'[c] = IF client[c] = "online" /\ sip[c] = "answered" THEN "terminated" ELSE sip[c]
      BY <2>1 DEF IptvTypeOK
    <2>4. sip'[c] # "answered" /\ sip'[c] # "none"
      BY <1>2, <2>1, <2>3 DEF WatchOK
    <2>5. InviteOK'
      <3>1. ASSUME NEW d \in Waiting
            PROVE  /\ client'[d] = "none" /\ d \notin stopping' /\ d \notin accepted'
                   /\ sip'[d] \in {"invited", "cancelled"}
        BY <1>1, <1>2, <2>3 DEF InviteOK, Waiting
      <3>2. ASSUME NEW d \in Calls, sip'[d] = "none"
            PROVE  client'[d] = "none" /\ d \notin stopping' /\ d \notin accepted' /\ d \notin Waiting
        BY <1>1, <2>3, <2>4, <3>2 DEF InviteOK
      <3> QED
        BY <1>1, <1>2, <3>1, <3>2 DEF InviteOK
    <2>6. ClientOK'
      <3> SUFFICES ASSUME NEW d \in Calls, client'[d] # "none"
                   PROVE  \E ch \in TypesOf(offer[d]) : client'[d] = TypeName(ch)
        BY <1>1 DEF ClientOK
      <3> QED
        BY <2>3 DEF ClientOK
    <2>7. WatchOK'
      BY <1>1, <2>3, <2>4 DEF WatchOK
    <2>8. HungUpOK'
      <3> SUFFICES ASSUME NEW d \in Calls
                   PROVE  /\ Closing(d) \in Queued \/ je = Closing(d) => sip'[d] = "closed"
                          /\ sip'[d] = "closed" =>
                               \/ Closing(d) \in Queued \/ (place = "look" /\ je = Closing(d))
                               \/ client'[d] = "none" \/ d \in stopping'
        BY <1>1 DEF HungUpOK, Closing, Event
      <3>1. sip'[d] = "closed" <=> sip[d] = "closed"
        BY <2>3
      <3> QED
        BY <2>3, <3>1 DEF HungUpOK
    <2> QED
      BY <1>3, <2>2, <2>5, <2>6, <2>7, <2>8
  <1> QED
    BY <1>4, <1>5

LEMMA IptvStepInv == IptvIInv /\ [IptvNext]_iptvVars => IptvIInv'
  <1> SUFFICES ASSUME IptvIInv, [IptvNext]_iptvVars PROVE IptvIInv'
    OBVIOUS
  <1>1. ASSUME NEW c \in Calls, UserInvites(c) \/ UserCloses(c) \/ UserCancels(c)
        PROVE  IptvIInv'
    BY <1>1, UserInv
  <1>2. CASE Wait
    BY <1>2, WaitInv
  <1>3. CASE UnknownContent \/ Started \/ NotStarted
    BY <1>3, AnswerInv
  <1>4. CASE StartCharging
    BY <1>4, StartChargingInv
  <1>5. CASE LookAgain
    BY <1>5, LookAgainInv
  <1>6. CASE Close \/ LookAway
    BY <1>6, LookInv
  <1>7. ASSUME NEW c \in Calls, Exhausted(c) \/ Deleted(c) PROVE IptvIInv'
    BY <1>7, TimerInv
  <1>8. CASE UNCHANGED iptvVars
    <2>1. /\ UNCHANGED <<sip, offer, events, je, place, client, stopping, accepted>>
          /\ Queued' = Queued /\ Waiting' = Waiting
      BY <1>8 DEF iptvVars, Queued, Waiting, Invite, Event
    <2> QED
      BY <2>1 DEF IptvIInv, IptvTypeOK, HandOK, InviteOK, ClientOK, WatchOK, HungUpOK,
                  Invite, Closing, Event
  <1> QED
    BY <1>1, <1>2, <1>3, <1>4, <1>5, <1>6, <1>7, <1>8 DEF IptvNext

THEOREM IptvInductive == IptvSpec => []IptvIInv
  BY IptvInitInv, IptvStepInv, PTL DEF IptvSpec

\* Every variable of get_exosip_events keeps its type.
THEOREM IptvTypeCorrect == IptvSpec => []IptvTypeOK
  <1>1. IptvIInv => IptvTypeOK
    BY DEF IptvIInv
  <1> QED
    BY <1>1, IptvInductive, PTL

\* A call is answered only after its START was accepted, with the type that its SDP
\* gives, and a closed one is not charged on, whatever the queue of SIP events holds and
\* however the memory of a freed event is used again (get_exosip_events).
THEOREM CallsAreSound == IptvSpec => []CallsSound
  <1>1. IptvIInv => CallsSound
    <2> SUFFICES ASSUME IptvIInv PROVE AnsweredIsCharged /\ ClosedIsStopped
      BY DEF CallsSound
    <2>1. AnsweredIsCharged
      BY DEF IptvIInv, WatchOK, ClientOK, AnsweredIsCharged
    <2>2. ASSUME NEW c \in Calls, sip[c] = "closed", place = "wait", ~Pending(c)
          PROVE  ~Running(c)
      <3>1. Closing(c) \notin Queued
        BY <2>2 DEF Pending, Queued, Closing, IptvIInv, IptvTypeOK
      <3> QED
        BY <2>2, <3>1 DEF IptvIInv, HungUpOK, Running
    <2> QED
      BY <2>1, <2>2 DEF ClosedIsStopped
  <1> QED
    BY <1>1, IptvInductive, PTL

(***************************************************************************)
(* CdfAccounting: the inductive invariant.                                 *)
(***************************************************************************)

Pointers == ClientBlocks \cup {NoOne}
Cids == Sessions \cup {NoOne}

CdfTypeOK ==
  /\ traffic \in Traffic
  /\ head \in Pointers /\ tail \in Pointers
  /\ block \in [ClientBlocks -> [cid : Cids, next : Pointers, prev : Pointers]]
  /\ inUse \in SUBSET ClientBlocks
  /\ cdfLock \in CdfWorkers \cup {cdfTimer, NoOne}
  /\ cdfPc \in [CdfWorkers -> {"idle", "test", "add", "first", "search", "delete", "answer",
                               "event", "crashed"}]
  /\ req \in [CdfWorkers -> [type : Types \cup {"none"}, cid : Cids]]
  /\ cursor \in [CdfWorkers -> Pointers]
  /\ session \in [Sessions -> Types \cup {"none", "open"}]
  /\ sent \in Nat

\* The pointers lead from head to tail and back.
ListOK ==
  /\ head = NoOne <=> tail = NoOne
  /\ head # NoOne => head \in Listed /\ tail \in Listed
  /\ \A b \in Listed :
       /\ block[b].next = NoOne <=> b = tail
       /\ block[b].prev = NoOne <=> b = head
       /\ block[b].next # NoOne =>
            block[b].next \in Listed /\ block[block[b].next].prev = b
       /\ block[b].prev # NoOne =>
            block[b].prev \in Listed /\ block[block[b].prev].next = b

\* What a worker is doing, whatever the traffic.
DoingOK(w) ==
  /\ cdfPc[w] # "idle" => req[w].type \in Types /\ req[w].cid \in Sessions
  /\ cdfPc[w] \in {"test", "add"} => req[w].type = "START"
  /\ cdfPc[w] \in {"first", "search"} => req[w].type # "EVENT"
  /\ cdfPc[w] = "delete" => req[w].type = "STOP" /\ cursor[w] # NoOne
  /\ cdfPc[w] = "event" => req[w].type = "EVENT"

\* The session has a client.
Present(s) == \E b \in inUse : block[b].cid = s

\* A session has one request at a time and one client.
OnceOK ==
  /\ \A v, w \in CdfWorkers :
       cdfPc[v] # "idle" /\ cdfPc[w] # "idle" /\ req[v].cid = req[w].cid => v = w
  /\ \A w \in CdfWorkers : cdfPc[w] # "idle" => session[req[w].cid] = req[w].type
  /\ \A b, d \in inUse : block[b].cid = block[d].cid => b = d
  /\ \A b \in inUse :
       block[b].cid \in Sessions /\ session[block[b].cid] \notin {"none", "EVENT"}

\* A session has its client from the START that was authorised to its STOP.
PresentAt(w) ==
  /\ cdfPc[w] # "idle" /\ req[w].type = "INTERIM" => Present(req[w].cid)
  /\ req[w].type = "STOP" /\ cdfPc[w] \in {"first", "search", "delete"} =>
       Present(req[w].cid)
  /\ req[w].type = "STOP" /\ cdfPc[w] = "answer" => ~Present(req[w].cid)
  /\ cdfPc[w] \in {"test", "add"} => ~Present(req[w].cid)
  /\ req[w].type = "START" /\ cdfPc[w] = "answer" => Present(req[w].cid)

PresentOK ==
  /\ \A s \in Sessions : session[s] = "open" => Present(s)
  /\ \A w \in CdfWorkers : PresentAt(w)

\* What a search can still come by: the clients that next leads to, some of them freed,
\* but none that was freed is the one that it looks for.
Ahead(w, C) ==
  /\ cursor[w] \in C \cup {NoOne}
  /\ \A b \in C : /\ block[b].next \in C \cup {NoOne}
                  /\ block[b].cid = req[w].cid => b \in inUse

SearchOK ==
  \A w \in CdfWorkers :
    /\ cdfPc[w] = "search" => \E C \in SUBSET ClientBlocks : Ahead(w, C)
    /\ cdfPc[w] = "delete" => cursor[w] \in inUse /\ block[cursor[w]].cid = req[w].cid

\* What holds while no STOP is repeated.
CalmOK == OnceOK /\ PresentOK /\ SearchOK /\ cdfLock \notin CdfWorkers

\* One session at a time finds its client at once.
SingleOK ==
  /\ \A s, t \in Sessions : session[s] # "none" /\ session[t] # "none" => s = t
  /\ \A w \in CdfWorkers :
       /\ cdfPc[w] \notin {"crashed", "event"}
       /\ cdfPc[w] \in {"first", "search"} => Present(req[w].cid)
       /\ cdfPc[w] = "search" => cursor[w] \in inUse

CdfIInv ==
  /\ CdfTypeOK /\ ListOK /\ Listed = inUse
  /\ \A w \in CdfWorkers : DoingOK(w)
  /\ traffic # "repeated" => CalmOK
  /\ traffic = "single" => SingleOK

(***************************************************************************)
(* The list.                                                                *)
(***************************************************************************)

\* What the pointers reach is closed under them, and within every closed set.
LEMMA ListedClosed ==
  ASSUME CdfAssumption, CdfTypeOK
  PROVE  /\ Closed(Listed) /\ Listed \subseteq ClientBlocks
         /\ \A S \in SUBSET ClientBlocks : Closed(S) => Listed \subseteq S
BY DEF Closed, Listed, CdfTypeOK, CdfAssumption, Pointers

\* A list does not lead back to where it has been.
LEMMA NoLoop ==
  ASSUME CdfAssumption, CdfTypeOK, ListOK, NEW x \in Listed
  PROVE  block[x].next # x /\ block[x].prev # x /\ head # NoOne /\ tail # NoOne
<1>0. head # NoOne /\ tail # NoOne
  <2>1. ASSUME head = NoOne PROVE FALSE
    <3>1. Closed({})
      BY <2>1 DEF Closed
    <3> QED
      BY <3>1, ListedClosed
  <2> QED
    BY <2>1 DEF ListOK
<1>1. SUFFICES ASSUME block[x].prev = x PROVE FALSE
  BY <1>0, ListedClosed DEF ListOK, CdfAssumption
<1>2. x # NoOne /\ x # head
  BY <1>1, ListedClosed DEF ListOK, CdfAssumption
<1>3. Closed(Listed \ {x})
  BY <1>1, <1>2, ListedClosed DEF ListOK, Closed, CdfAssumption
<1> QED
  BY <1>3, ListedClosed

\* The same of the next state.
LEMMA ListedClosedNext ==
  ASSUME CdfAssumption, CdfTypeOK'
  PROVE  /\ Closed(Listed)' /\ Listed' \subseteq ClientBlocks
         /\ \A S \in SUBSET ClientBlocks : Closed(S)' => Listed' \subseteq S
BY DEF Closed, Listed, CdfTypeOK, CdfAssumption, Pointers

\* del_client takes one client out and keeps the others.
LEMMA UnlinkList ==
  ASSUME CdfAssumption, CdfTypeOK, CdfTypeOK', ListOK, NEW x \in Listed,
         block' = Unlinked(x),
         head' = IF x = head THEN block[x].next ELSE head,
         tail' = IF block[x].next = NoOne THEN block[x].prev ELSE tail
  PROVE  Listed' = Listed \ {x} /\ ListOK'
<1> USE CdfAssumption
<1>1. PICK p, n \in Pointers : p = block[x].prev /\ n = block[x].next
  BY ListedClosed DEF CdfTypeOK
<1>a. x # head <=> p # NoOne
  BY <1>1, NoLoop DEF ListOK
<1>2. /\ \A b \in ClientBlocks : block'[b].next = IF x # head /\ p = b THEN n ELSE block[b].next
      /\ \A b \in ClientBlocks : block'[b].prev = IF n = b THEN p ELSE block[b].prev
  <2>1. \A b \in ClientBlocks :
          block'[b] = [block[b] EXCEPT !.next = IF x # head /\ b = p THEN n ELSE @,
                                       !.prev = IF b = n THEN p ELSE @]
    BY <1>1 DEF Unlinked
  <2>2. ASSUME NEW b \in ClientBlocks
        PROVE  /\ block'[b].next = IF x # head /\ p = b THEN n ELSE block[b].next
               /\ block'[b].prev = IF n = b THEN p ELSE block[b].prev
    <3>1. block[b] \in [cid : Cids, next : Pointers, prev : Pointers]
      BY DEF CdfTypeOK
    <3>2. block'[b] = [block[b] EXCEPT !.next = IF x # head /\ b = p THEN n ELSE @,
                                       !.prev = IF b = n THEN p ELSE @]
      BY <2>1
    <3> QED
      BY <3>1, <3>2
  <2> QED
    BY <2>2
<1>3. /\ head' = IF p = NoOne THEN n ELSE head
      /\ tail' = IF n = NoOne THEN p ELSE tail
  BY <1>1, <1>a
<1>4. /\ p # x /\ n # x /\ x \in ClientBlocks /\ NoOne \notin ClientBlocks
      /\ p # NoOne => p \in Listed /\ block[p].next = x
      /\ n # NoOne => n \in Listed /\ block[n].prev = x
      /\ p = NoOne <=> x = head
      /\ n = NoOne <=> x = tail
  BY <1>1, NoLoop, ListedClosed DEF ListOK, CdfAssumption
<1>5. PICK L \in SUBSET ClientBlocks : L = Listed
  BY ListedClosed
<1>6. PICK M \in SUBSET ClientBlocks : M = Listed'
  BY ListedClosedNext
<1>7. head' \in (L \ {x}) \cup {NoOne}
  BY <1>3, <1>4, <1>5 DEF ListOK
<1>8. ASSUME NEW b \in L \ {x}
      PROVE  block'[b].next \in (L \ {x}) \cup {NoOne}
  <2>1. block[b].next \in L \cup {NoOne} /\ (block[b].next = x => b = p)
    BY <1>1, <1>5 DEF ListOK
  <2> QED
    BY <1>2, <1>4, <1>5, <2>1
<1>9. M \subseteq L \ {x}
  <2>1. Closed(L \ {x})'
    BY <1>7, <1>8 DEF Closed
  <2> QED
    BY <1>6, <2>1, ListedClosedNext
<1>10. /\ head' \in M \cup {NoOne}
       /\ \A b \in M : block'[b].next \in M \cup {NoOne}
  BY <1>6, ListedClosedNext DEF Closed
<1>11. ASSUME p = NoOne \/ p \in M PROVE M = L \ {x}
  <2>1. Closed(M \cup {x})
    BY <1>1, <1>2, <1>3, <1>4, <1>10, <1>11 DEF Closed
  <2>2. L \subseteq M \cup {x}
    BY <1>4, <1>5, <2>1, ListedClosed
  <2> QED
    BY <1>9, <2>2
<1>12. ASSUME p # NoOne /\ p \notin M PROVE M = L \ {x}
  <2>1. Closed(M)
    BY <1>1, <1>2, <1>3, <1>4, <1>10, <1>12 DEF Closed
  <2>2. L \subseteq M
    BY <1>5, <2>1, ListedClosed
  <2> QED
    BY <1>9, <2>2
<1>13. Listed' = L \ {x}
  BY <1>6, <1>11, <1>12
<1>14. /\ head' = NoOne <=> tail' = NoOne
       /\ head' # NoOne => head' \in L \ {x} /\ tail' \in L \ {x}
  BY <1>3, <1>4, <1>5 DEF ListOK
<1>15. ASSUME NEW b \in L \ {x}
       PROVE  /\ block'[b].next = NoOne <=> b = tail'
              /\ block'[b].prev = NoOne <=> b = head'
              /\ block'[b].next # NoOne => /\ block'[b].next \in L \ {x}
                                       /\ block'[block'[b].next].prev = b
              /\ block'[b].prev # NoOne => /\ block'[b].prev \in L \ {x}
                                       /\ block'[block'[b].prev].next = b
  <2>1. /\ b \in ClientBlocks
        /\ block[b].next = NoOne <=> b = tail
        /\ block[b].prev = NoOne <=> b = head
        /\ block[b].next # NoOne => block[b].next \in L /\ block[block[b].next].prev = b
        /\ block[b].prev # NoOne => block[b].prev \in L /\ block[block[b].prev].next = b
        /\ head # NoOne /\ tail # NoOne
    BY <1>4, <1>5, NoLoop DEF ListOK
  <2>2. CASE p # b /\ n # b
    BY <1>1, <1>2, <1>3, <1>4, <1>5, <2>1, <2>2
  <2>3. CASE p = b
    BY <1>1, <1>2, <1>3, <1>4, <1>5, <2>1, <2>3
  <2>4. CASE n = b
    BY <1>1, <1>2, <1>3, <1>4, <1>5, <2>1, <2>4
  <2> QED
    BY <2>2, <2>3, <2>4
<1> QED
  BY <1>5, <1>13, <1>14, <1>15 DEF ListOK

\* add_client puts a client at the end of the list.
LEMMA LinkList ==
  ASSUME CdfAssumption, CdfTypeOK, CdfTypeOK', ListOK, NEW b \in ClientBlocks \ Listed,
         tail' = b, head' = IF head = NoOne THEN b ELSE head,
         \A x \in ClientBlocks :
           /\ block'[x].prev = IF x = b THEN tail ELSE block[x].prev
           /\ block'[x].next = IF x = b THEN NoOne
                               ELSE IF x = tail THEN b ELSE block[x].next
  PROVE  Listed' = Listed \cup {b} /\ ListOK'
<1> USE CdfAssumption
<1>1. PICK L \in SUBSET ClientBlocks : L = Listed
  BY ListedClosed
<1>2. PICK M \in SUBSET ClientBlocks : M = Listed'
  BY ListedClosedNext
<1>3. /\ head = NoOne <=> tail = NoOne
      /\ head # NoOne => head \in L /\ tail \in L /\ block[tail].next = NoOne
      /\ \A x \in L : block[x].next \in L \cup {NoOne} /\ block[x].prev \in L \cup {NoOne}
      /\ b \notin L /\ b # tail /\ NoOne \notin ClientBlocks
  BY <1>1 DEF ListOK, CdfAssumption
<1>4. M \subseteq L \cup {b}
  <2>1. Closed(L \cup {b})'
    BY <1>3 DEF Closed
  <2> QED
    BY <1>2, <2>1, ListedClosedNext
<1>5. /\ head' \in M \cup {NoOne}
      /\ \A x \in M : block'[x].next \in M \cup {NoOne}
  BY <1>2, ListedClosedNext DEF Closed
<1>6. L \subseteq M
  <2>1. Closed(M \ {b})
    BY <1>1, <1>3, <1>4, <1>5 DEF Closed, ListOK
  <2> QED
    BY <1>1, <2>1, ListedClosed
<1>7. b \in M
  BY <1>3, <1>5, <1>6
<1>8. Listed' = L \cup {b}
  BY <1>2, <1>4, <1>6, <1>7
<1>9. ASSUME NEW x \in L
      PROVE  /\ block'[x].next = NoOne <=> x = tail'
             /\ block'[x].prev = NoOne <=> x = head'
             /\ block'[x].next # NoOne => /\ block'[x].next \in L \cup {b}
                                      /\ block'[block'[x].next].prev = x
             /\ block'[x].prev # NoOne => /\ block'[x].prev \in L
                                      /\ block'[block'[x].prev].next = x
  <2>1. /\ x \in ClientBlocks /\ x # b
        /\ block[x].next = NoOne <=> x = tail
        /\ block[x].prev = NoOne <=> x = head
        /\ block[x].next # NoOne => block[x].next \in L /\ block[block[x].next].prev = x
        /\ block[x].prev # NoOne => block[x].prev \in L /\ block[block[x].prev].next = x
        /\ head # NoOne /\ tail # NoOne
    BY <1>1, <1>3, NoLoop DEF ListOK
  <2> QED
    BY <1>3, <2>1
<1>10. /\ block'[b].next = NoOne
       /\ block'[b].prev = NoOne <=> b = head'
       /\ block'[b].prev # NoOne => /\ block'[b].prev \in L
                                /\ block'[block'[b].prev].next = b
  BY <1>3
<1> QED
  BY <1>1, <1>3, <1>8, <1>9, <1>10 DEF ListOK

\* Most steps leave the list as it is.
LEMMA KeepsList ==
  ASSUME ListOK, Listed = inUse, UNCHANGED <<head, tail, block, inUse>>
  PROVE  ListOK' /\ (Listed = inUse)'
<1>1. Listed' = Listed
  BY DEF Listed, Closed
<1> QED
  BY <1>1 DEF ListOK

(***************************************************************************)
(* Every action keeps the invariant.                                       *)
(***************************************************************************)

\* What does not concern the list: each action in turn.
LEMMA CdfTypeStep ==
  ASSUME CdfAssumption, CdfTypeOK, \A w \in CdfWorkers : DoingOK(w), CdfNext
  PROVE  CdfTypeOK' /\ \A w \in CdfWorkers : DoingOK(w)'
<1> USE CdfAssumption DEF Pointers, Cids, Types
<1>1. ASSUME NEW w \in CdfWorkers, NEW s \in Sessions, NEW type \in Types,
             TakeRequest(w, s, type)
      PROVE  CdfTypeOK' /\ \A v \in CdfWorkers : DoingOK(v)'
  <2>1. FirstStep[type] = IF type = "START" THEN "test"
                          ELSE IF type = "EVENT" THEN "event" ELSE "first"
    BY DEF FirstStep
  <2>2. req' = [req EXCEPT ![w] = [type |-> type, cid |-> s]]
        /\ cdfPc' = [cdfPc EXCEPT ![w] = FirstStep[type]]
        /\ session' = [session EXCEPT ![s] = type]
        /\ sent' = sent + 1
        /\ UNCHANGED <<traffic, head, tail, block, inUse, cdfLock, cursor>>
    BY <1>1 DEF TakeRequest
  <2>3. CdfTypeOK'
    BY <2>1, <2>2 DEF CdfTypeOK
  <2> QED
    BY <2>1, <2>2, <2>3 DEF CdfTypeOK, DoingOK
<1>2. ASSUME NEW w \in CdfWorkers,
             \/ TestHead(w) \/ FirstClient(w) \/ SearchClient(w) \/ RunOffList(w)
             \/ FoundClient(w) \/ EventRequest(w)
      PROVE  CdfTypeOK' /\ \A v \in CdfWorkers : DoingOK(v)'
  <2>1. CdfTypeOK'
    <3>1. CASE TestHead(w)
      BY <3>1 DEF TestHead, CdfTypeOK
    <3>2. CASE FirstClient(w)
      BY <3>2 DEF FirstClient, CdfTypeOK
    <3>3. CASE SearchClient(w)
      BY <3>3 DEF SearchClient, CdfTypeOK
    <3>4. CASE RunOffList(w)
      BY <3>4 DEF RunOffList, CdfTypeOK
    <3>5. CASE FoundClient(w)
      BY <3>5 DEF FoundClient, CdfTypeOK
    <3>6. CASE EventRequest(w)
      BY <3>6 DEF EventRequest, CdfTypeOK
    <3> QED
      BY <1>2, <3>1, <3>2, <3>3, <3>4, <3>5, <3>6
  <2> QED
    BY <1>2, <2>1 DEF CdfTypeOK, DoingOK, TestHead, FirstClient, SearchClient, RunOffList,
                      FoundClient, EventRequest
<1>3. ASSUME NEW w \in CdfWorkers, AddClient(w)
      PROVE  CdfTypeOK' /\ \A v \in CdfWorkers : DoingOK(v)'
  <2>1. PICK b \in ClientBlocks \ inUse :
          /\ inUse' = inUse \cup {b}
          /\ block' = [c \in ClientBlocks |->
               IF c = b THEN [cid |-> req[w].cid, next |-> NoOne, prev |-> tail]
               ELSE [block[c] EXCEPT !.next = IF c = tail THEN b ELSE @]]
          /\ head' = IF head = NoOne THEN b ELSE head
          /\ tail' = b
    BY <1>3 DEF AddClient
  <2>2. block' \in [ClientBlocks -> [cid : Cids, next : Pointers, prev : Pointers]]
    BY <2>1 DEF CdfTypeOK
  <2>3. CdfTypeOK'
    BY <1>3, <2>1, <2>2 DEF AddClient, CdfTypeOK
  <2> QED
    BY <1>3, <2>3 DEF AddClient, CdfTypeOK, DoingOK
<1>4. ASSUME NEW w \in CdfWorkers, DelClient(w)
      PROVE  CdfTypeOK' /\ \A v \in CdfWorkers : DoingOK(v)'
  <2>1. ASSUME NEW b \in ClientBlocks
        PROVE  Unlinked(b) \in [ClientBlocks -> [cid : Cids, next : Pointers, prev : Pointers]]
    <3>1. PICK p, n \in Pointers : p = block[b].prev /\ n = block[b].next
      BY DEF CdfTypeOK
    <3>2. ASSUME NEW c \in ClientBlocks
          PROVE  [block[c] EXCEPT !.next = IF b # head /\ c = p THEN n ELSE @,
                                  !.prev = IF c = n THEN p ELSE @]
                   \in [cid : Cids, next : Pointers, prev : Pointers]
      <4>1. block[c] \in [cid : Cids, next : Pointers, prev : Pointers]
        BY DEF CdfTypeOK
      <4> QED
        BY <4>1
    <3> QED
      BY <3>1, <3>2 DEF Unlinked
  <2>2. Listed \subseteq ClientBlocks
    BY DEF Listed
  <2>3. CdfTypeOK'
    BY <1>4, <2>1, <2>2 DEF DelClient, CdfTypeOK
  <2> QED
    BY <1>4, <2>3 DEF DelClient, CdfTypeOK, DoingOK
<1>5. ASSUME NEW w \in CdfWorkers, DelNothing(w) \/ AnswerAccounting(w)
      PROVE  CdfTypeOK' /\ \A v \in CdfWorkers : DoingOK(v)'
  <2>1. CdfTypeOK'
    <3>1. CASE DelNothing(w)
      BY <3>1 DEF DelNothing, CdfTypeOK
    <3>2. CASE AnswerAccounting(w)
      BY <3>2 DEF AnswerAccounting, CdfTypeOK, DoingOK, NoReq
    <3> QED
      BY <1>5, <3>1, <3>2
  <2> QED
    BY <1>5, <2>1 DEF DelNothing, AnswerAccounting, CdfTypeOK, DoingOK
<1>6. ASSUME TimerLock \/ TimerRelease
      PROVE  CdfTypeOK' /\ \A v \in CdfWorkers : DoingOK(v)'
  BY <1>6 DEF TimerLock, TimerRelease, CdfTypeOK, DoingOK
<1> QED
  BY <1>1, <1>2, <1>3, <1>4, <1>5, <1>6 DEF CdfNext, CdfWork

\* add_client and del_client keep the list, and nothing else changes it.
LEMMA CdfListStep ==
  ASSUME CdfAssumption, CdfTypeOK, CdfTypeOK', ListOK, Listed = inUse, CdfNext
  PROVE  ListOK' /\ (Listed = inUse)'
<1> USE CdfAssumption
<1>1. ASSUME NEW w \in CdfWorkers, AddClient(w)
      PROVE  ListOK' /\ (Listed = inUse)'
  <2>1. PICK b \in ClientBlocks \ inUse :
          /\ inUse' = inUse \cup {b}
          /\ block' = [c \in ClientBlocks |->
               IF c = b THEN [cid |-> req[w].cid, next |-> NoOne, prev |-> tail]
               ELSE [block[c] EXCEPT !.next = IF c = tail THEN b ELSE @]]
          /\ head' = IF head = NoOne THEN b ELSE head
          /\ tail' = b
    BY <1>1 DEF AddClient
  <2>2. ASSUME NEW x \in ClientBlocks
        PROVE  /\ block'[x].prev = IF x = b THEN tail ELSE block[x].prev
               /\ block'[x].next = IF x = b THEN NoOne
                                   ELSE IF x = tail THEN b ELSE block[x].next
    <3>1. block[x] \in [cid : Cids, next : Pointers, prev : Pointers]
      BY DEF CdfTypeOK
    <3>2. CASE x = b
      BY <2>1, <3>2
    <3>3. CASE x # b
      <4>1. block'[x] = [block[x] EXCEPT !.next = IF x = tail THEN b ELSE @]
        BY <2>1, <3>3
      <4> QED
        BY <3>1, <3>3, <4>1
    <3> QED
      BY <3>2, <3>3
  <2>3. Listed' = Listed \cup {b} /\ ListOK'
    BY <2>1, <2>2, LinkList
  <2> QED
    BY <2>1, <2>3
<1>2. ASSUME NEW w \in CdfWorkers, DelClient(w)
      PROVE  ListOK' /\ (Listed = inUse)'
  <2>1. CASE UNCHANGED <<head, tail, block, inUse>>
    BY <2>1, KeepsList
  <2>2. CASE \E b \in Listed :
               /\ block[b].cid = block[cursor[w]].cid
               /\ block' = Unlinked(b)
               /\ head' = IF b = head THEN block[b].next ELSE head
               /\ tail' = IF block[b].next = NoOne THEN block[b].prev ELSE tail
               /\ inUse' = inUse \ {b}
    <3>1. PICK b \in Listed :
               /\ block' = Unlinked(b)
               /\ head' = IF b = head THEN block[b].next ELSE head
               /\ tail' = IF block[b].next = NoOne THEN block[b].prev ELSE tail
               /\ inUse' = inUse \ {b}
      BY <2>2
    <3>2. Listed' = Listed \ {b} /\ ListOK'
      BY <3>1, UnlinkList
    <3> QED
      BY <3>1, <3>2
  <2> QED
    BY <1>2, <2>1, <2>2 DEF DelClient
<1>3. ASSUME UNCHANGED <<head, tail, block, inUse>>
      PROVE  ListOK' /\ (Listed = inUse)'
  BY <1>3, KeepsList
<1> QED
  BY <1>1, <1>2, <1>3 DEF CdfNext, CdfWork, TestHead, FirstClient, SearchClient, RunOffList,
     FoundClient, EventRequest, DelNothing, AnswerAccounting, TakeRequest, TimerLock, TimerRelease

\* A request of a session that has none: nothing else is known of it.
LEMMA TakeCalm ==
  ASSUME CdfAssumption, CdfTypeOK, \A v \in CdfWorkers : DoingOK(v), CalmOK,
         traffic # "repeated",
         NEW w \in CdfWorkers, NEW s \in Sessions, NEW type \in Types,
         TakeRequest(w, s, type)
  PROVE  CalmOK'
<1>1. /\ cdfPc[w] = "idle"
      /\ session[s] = IF type \in {"START", "EVENT"} THEN "none" ELSE "open"
      /\ req' = [req EXCEPT ![w] = [type |-> type, cid |-> s]]
      /\ cdfPc' = [cdfPc EXCEPT ![w] = FirstStep[type]]
      /\ session' = [session EXCEPT ![s] = type]
      /\ UNCHANGED <<block, inUse, cdfLock, cursor>>
  BY DEF TakeRequest, MaySend
<1>2. FirstStep[type] = IF type = "START" THEN "test"
                        ELSE IF type = "EVENT" THEN "event" ELSE "first"
  BY DEF FirstStep, Types
<1>3. /\ cdfPc'[w] = FirstStep[type] /\ req'[w] = [type |-> type, cid |-> s]
      /\ \A v \in CdfWorkers \ {w} : cdfPc'[v] = cdfPc[v] /\ req'[v] = req[v]
      /\ session'[s] = type /\ \A t \in Sessions \ {s} : session'[t] = session[t]
  BY <1>1 DEF CdfTypeOK
<1>4. \A v \in CdfWorkers :
        cdfPc[v] # "idle" => /\ v # w /\ req[v].cid # s /\ req[v].cid \in Sessions
                             /\ session[req[v].cid] = req[v].type
  BY <1>1 DEF CalmOK, OnceOK, DoingOK, Types
<1>5. /\ \A t \in Sessions : Present(t)' <=> Present(t)
      /\ type \in {"START", "EVENT"} => ~Present(s)
      /\ type \in {"INTERIM", "STOP"} => Present(s)
  BY <1>1 DEF Present, CalmOK, OnceOK, PresentOK
<1>6. OnceOK'
  <2>1. \A u, v \in CdfWorkers :
          cdfPc'[u] # "idle" /\ cdfPc'[v] # "idle" /\ req'[u].cid = req'[v].cid => u = v
    BY <1>3, <1>4 DEF CalmOK, OnceOK
  <2>2. \A v \in CdfWorkers : cdfPc'[v] # "idle" => session'[req'[v].cid] = req'[v].type
    BY <1>3, <1>4
  <2>3. ASSUME NEW b \in inUse
        PROVE  block[b].cid \in Sessions /\ session'[block[b].cid] \notin {"none", "EVENT"}
    BY <1>3, <1>5 DEF CalmOK, OnceOK, Present, Types
  <2> QED
    BY <1>1, <2>1, <2>2, <2>3 DEF CalmOK, OnceOK
<1>7. PresentOK'
  <2>1. \A t \in Sessions : session'[t] = "open" => Present(t)'
    BY <1>3, <1>5 DEF CalmOK, PresentOK, Types
  <2>2. ASSUME NEW v \in CdfWorkers \ {w}
        PROVE  PresentAt(v)'
    <3>1. PresentAt(v)
      BY DEF CalmOK, PresentOK
    <3> QED
      BY <1>3, <1>4, <1>5, <3>1 DEF PresentAt, DoingOK
  <2>3. PresentAt(w)'
    <3>1. type \in Types /\ req'[w].cid = s /\ req'[w].type = type
      BY <1>3
    <3> QED
      BY <3>1, <1>2, <1>3, <1>5 DEF PresentAt, Types
  <2> QED
    BY <1>3, <2>1, <2>2, <2>3 DEF PresentOK
<1>8. SearchOK'
  BY <1>1, <1>2, <1>3 DEF CalmOK, SearchOK, Ahead
<1> QED
  BY <1>1, <1>6, <1>7, <1>8 DEF CalmOK

\* The answer ends the request, and its session is open or over.
LEMMA AnswerCalm ==
  ASSUME CdfAssumption, CdfTypeOK, \A v \in CdfWorkers : DoingOK(v), CalmOK,
         NEW w \in CdfWorkers, AnswerAccounting(w)
  PROVE  CalmOK'
<1> DEFINE s == req[w].cid
<1>1. /\ cdfPc[w] = "answer" /\ s \in Sessions /\ req[w].type \in Types
      /\ session' = [session EXCEPT ![s] =
                       IF req[w].type \in {"STOP", "EVENT"} THEN "none" ELSE "open"]
      /\ cdfPc' = [cdfPc EXCEPT ![w] = "idle"]
      /\ req' = [req EXCEPT ![w] = NoReq]
      /\ UNCHANGED <<block, inUse, cdfLock, cursor>>
  BY DEF AnswerAccounting, DoingOK
<1>2. /\ cdfPc'[w] = "idle"
      /\ \A v \in CdfWorkers \ {w} : cdfPc'[v] = cdfPc[v] /\ req'[v] = req[v]
      /\ session'[s] = IF req[w].type \in {"STOP", "EVENT"} THEN "none" ELSE "open"
      /\ \A t \in Sessions \ {s} : session'[t] = session[t]
  BY <1>1 DEF CdfTypeOK
<1>3. \A v \in CdfWorkers \ {w} : cdfPc[v] # "idle" => req[v].cid # s /\ req[v].cid \in Sessions
  BY <1>1 DEF CalmOK, OnceOK, DoingOK
<1>4. /\ \A t \in Sessions : Present(t)' <=> Present(t)
      /\ req[w].type \in {"STOP", "EVENT"} => ~Present(s)
      /\ req[w].type \notin {"STOP", "EVENT"} => Present(s)
  <2>1. \A t \in Sessions : Present(t)' <=> Present(t)
    BY <1>1 DEF Present
  <2>2. session[s] = req[w].type
    BY <1>1 DEF CalmOK, OnceOK
  <2>3. req[w].type = "EVENT" => ~Present(s)
    BY <2>2 DEF CalmOK, OnceOK, Present
  <2> QED
    BY <1>1, <2>1, <2>3 DEF CalmOK, PresentOK, PresentAt, Types
<1> HIDE DEF s
<1>5. OnceOK'
  <2>1. \A u, v \in CdfWorkers :
          cdfPc'[u] # "idle" /\ cdfPc'[v] # "idle" /\ req'[u].cid = req'[v].cid => u = v
    BY <1>2 DEF CalmOK, OnceOK
  <2>2. \A v \in CdfWorkers : cdfPc'[v] # "idle" => session'[req'[v].cid] = req'[v].type
    BY <1>2, <1>3 DEF CalmOK, OnceOK
  <2>3. ASSUME NEW b \in inUse
        PROVE  block[b].cid \in Sessions /\ session'[block[b].cid] \notin {"none", "EVENT"}
    BY <1>2, <1>4 DEF CalmOK, OnceOK, Present
  <2> QED
    BY <1>1, <2>1, <2>2, <2>3 DEF CalmOK, OnceOK
<1>6. PresentOK'
  <2>1. \A t \in Sessions : session'[t] = "open" => Present(t)'
    BY <1>2, <1>4 DEF CalmOK, PresentOK
  <2>2. ASSUME NEW v \in CdfWorkers \ {w}
        PROVE  PresentAt(v)'
    <3>1. PresentAt(v)
      BY DEF CalmOK, PresentOK
    <3> QED
      BY <1>2, <1>3, <1>4, <3>1 DEF PresentAt, DoingOK
  <2> QED
    <3>1. PresentAt(w)'
      BY <1>1, <1>2 DEF PresentAt, NoReq, CdfTypeOK
    <3> QED
      BY <2>1, <2>2, <3>1 DEF PresentOK
<1>7. SearchOK'
  BY <1>1, <1>2 DEF CalmOK, SearchOK, Ahead
<1> QED
  BY <1>1, <1>5, <1>6, <1>7 DEF CalmOK

\* A worker moves on in its request, reads the list and changes nothing of it.
LEMMA MoveCalm ==
  ASSUME CdfAssumption, CdfTypeOK, ListOK, Listed = inUse, CalmOK,
         \A v \in CdfWorkers : DoingOK(v),
         NEW w \in CdfWorkers,
         \/ TestHead(w) \/ FirstClient(w) \/ SearchClient(w) \/ RunOffList(w)
         \/ FoundClient(w) \/ EventRequest(w)
  PROVE  CalmOK'
<1> DEFINE Moves == /\ UNCHANGED <<head, tail, block, inUse, cdfLock, req, session>>
                    /\ cdfPc[w] # "idle" /\ cdfPc'[w] # "idle"
                    /\ \A v \in CdfWorkers \ {w} : cdfPc'[v] = cdfPc[v] /\ cursor'[v] = cursor[v]
           Pure == PresentAt(w)' /\ (cdfPc'[w] # "search") /\ (cdfPc'[w] # "delete")
<1>1. Moves
  BY DEF TestHead, FirstClient, SearchClient, RunOffList, FoundClient, EventRequest, CdfTypeOK
<1>2. ASSUME NEW t PROVE Present(t)' <=> Present(t)
  BY <1>1 DEF Present
<1>3. req[w].type \in Types /\ req[w].cid \in Sessions
  BY <1>1 DEF DoingOK
<1>4. OnceOK'
  BY <1>1 DEF CalmOK, OnceOK
<1>5. \A s \in Sessions : session'[s] = "open" => Present(s)'
  BY <1>1, <1>2 DEF CalmOK, PresentOK
<1>6. \A v \in CdfWorkers \ {w} : PresentAt(v)'
  <2>1. ASSUME NEW v \in CdfWorkers \ {w} PROVE PresentAt(v)'
    <3>1. PresentAt(v) /\ cdfPc'[v] = cdfPc[v] /\ req' = req
      BY <1>1 DEF CalmOK, PresentOK
    <3>2. Present(req[v].cid)' <=> Present(req[v].cid)
      BY <1>1 DEF Present
    <3> QED
      BY <3>1, <3>2 DEF PresentAt
  <2> QED
    BY <2>1
<1>7. PresentAt(w) /\ (Present(req[w].cid)' <=> Present(req[w].cid))
  BY <1>1 DEF CalmOK, PresentOK, Present
<1>8. \A v \in CdfWorkers \ {w} :
        /\ cdfPc'[v] = "search" => \E C \in SUBSET ClientBlocks : Ahead(v, C)'
        /\ cdfPc'[v] = "delete" => cursor'[v] \in inUse /\ block[cursor'[v]].cid = req[v].cid
  BY <1>1 DEF CalmOK, SearchOK, Ahead
<1>9. /\ PresentAt(w)'
      /\ cdfPc'[w] = "search" => \E C \in SUBSET ClientBlocks : Ahead(w, C)'
      /\ cdfPc'[w] = "delete" => cursor'[w] \in inUse /\ block[cursor'[w]].cid = req[w].cid
  <2>1. CASE TestHead(w)
    <3>1. cdfPc[w] = "test" /\ cdfPc'[w] \in {"add", "first"} /\ req' = req /\ req[w].type = "START"
      BY <2>1 DEF TestHead, CdfTypeOK, DoingOK
    <3> QED
      BY <3>1, <1>7 DEF PresentAt
  <2>2. CASE FirstClient(w)
    <3>1. cdfPc[w] = "first" /\ cdfPc'[w] = "search" /\ cursor'[w] = head
          /\ UNCHANGED <<req, block, inUse>>
      BY <2>2 DEF FirstClient, CdfTypeOK
    <3>2. PresentAt(w)'
      BY <3>1, <1>7 DEF PresentAt
    <3>3. Listed \in SUBSET ClientBlocks /\ head \in Listed \cup {NoOne}
          /\ \A b \in Listed : block[b].next \in Listed \cup {NoOne}
      BY ListedClosed DEF Closed
    <3>4. PICK C \in SUBSET ClientBlocks : C = Listed
      BY <3>3
    <3>5. Ahead(w, C)'
      BY <3>1, <3>3, <3>4, <1>1 DEF Ahead
    <3> QED
      BY <3>1, <3>2, <3>5
  <2>3. CASE SearchClient(w)
    <3>1. cdfPc[w] = "search" /\ cdfPc'[w] = "search" /\ cursor[w] # NoOne
          /\ cursor'[w] = block[cursor[w]].next /\ UNCHANGED <<req, block, inUse>>
      BY <2>3 DEF SearchClient, CdfTypeOK
    <3>2. PresentAt(w)'
      BY <3>1, <1>7 DEF PresentAt
    <3>3. PICK C \in SUBSET ClientBlocks : Ahead(w, C)
      BY <3>1 DEF CalmOK, SearchOK
    <3>4. Ahead(w, C)'
      BY <3>1, <3>3 DEF Ahead
    <3> QED
      BY <3>1, <3>2, <3>4
  <2>4. CASE RunOffList(w) \/ EventRequest(w)
    <3>1. /\ cdfPc'[w] \in {"crashed", "answer"} /\ req' = req
          /\ cdfPc'[w] = "answer" => req[w].type = "EVENT"
      BY <2>4 DEF RunOffList, EventRequest, CdfTypeOK, DoingOK
    <3>2. PresentAt(w)'
      <4>1. (cdfPc'[w] = "crashed" /\ cdfPc[w] = "search") \/ req[w].type = "EVENT"
        BY <2>4 DEF RunOffList, EventRequest, CdfTypeOK, DoingOK
      <4> QED
        BY <3>1, <4>1, <1>7 DEF PresentAt
    <3> QED
      BY <3>1, <3>2
  <2>5. CASE FoundClient(w)
    <3>1. /\ cdfPc[w] = "search" /\ cursor[w] # NoOne /\ block[cursor[w]].cid = req[w].cid
          /\ cdfPc'[w] = IF req[w].type = "STOP" THEN "delete" ELSE "answer"
          /\ UNCHANGED <<req, block, inUse, cursor>>
      BY <2>5 DEF FoundClient, IsWanted, CdfTypeOK
    <3>2. PICK C \in SUBSET ClientBlocks : Ahead(w, C)
      BY <3>1 DEF CalmOK, SearchOK
    <3>3. cursor[w] \in inUse /\ Present(req[w].cid)
      BY <3>1, <3>2 DEF Ahead, Present
    <3>4. PresentAt(w)'
      BY <3>1, <3>3, <1>7 DEF PresentAt
    <3> QED
      BY <3>1, <3>3, <3>4
  <2> QED
    BY <2>1, <2>2, <2>3, <2>4, <2>5
<1>10. PresentOK'
  BY <1>5, <1>6, <1>9 DEF PresentOK
<1>11. SearchOK'
  BY <1>1, <1>8, <1>9 DEF SearchOK
<1> QED
  BY <1>1, <1>4, <1>10, <1>11 DEF CalmOK

\* START brings in the client of a session that had none.
LEMMA AddCalm ==
  ASSUME CdfAssumption, CdfTypeOK, CdfTypeOK', ListOK, Listed = inUse, CalmOK,
         \A v \in CdfWorkers : DoingOK(v),
         NEW w \in CdfWorkers, AddClient(w)
  PROVE  CalmOK'
<1>1. PICK b \in ClientBlocks \ inUse :
        /\ inUse' = inUse \cup {b}
        /\ block' = [c \in ClientBlocks |->
             IF c = b THEN [cid |-> req[w].cid, next |-> NoOne, prev |-> tail]
             ELSE [block[c] EXCEPT !.next = IF c = tail THEN b ELSE @]]
  BY DEF AddClient
<1>2. /\ cdfPc[w] = "add" /\ cdfLock = NoOne /\ cdfPc' = [cdfPc EXCEPT ![w] = "first"]
      /\ UNCHANGED <<cdfLock, req, cursor, session>>
  BY DEF AddClient
<1>3. /\ cdfPc'[w] = "first" /\ \A v \in CdfWorkers \ {w} : cdfPc'[v] = cdfPc[v]
      /\ req[w].type = "START" /\ req[w].cid \in Sessions /\ ~Present(req[w].cid)
      /\ session[req[w].cid] = "START"
  BY <1>2 DEF CdfTypeOK, DoingOK, CalmOK, OnceOK, PresentOK, PresentAt
<1>4. /\ block'[b].cid = req[w].cid /\ block'[b].next = NoOne
      /\ \A c \in ClientBlocks \ {b} :
           /\ block'[c].cid = block[c].cid
           /\ block'[c].next = IF c = tail THEN b ELSE block[c].next
  <2>1. \A c \in ClientBlocks : block[c] \in [cid : Cids, next : Pointers, prev : Pointers]
    BY DEF CdfTypeOK
  <2>2. block'[b] = [cid |-> req[w].cid, next |-> NoOne, prev |-> tail]
        /\ \A c \in ClientBlocks \ {b} :
             block'[c] = [block[c] EXCEPT !.next = IF c = tail THEN b ELSE @]
    BY <1>1
  <2>3. ASSUME NEW c \in ClientBlocks \ {b}
        PROVE  /\ block'[c].cid = block[c].cid
               /\ block'[c].next = IF c = tail THEN b ELSE block[c].next
    <3>1. block[c] \in [cid : Cids, next : Pointers, prev : Pointers]
      BY <2>1
    <3>2. block'[c] = [block[c] EXCEPT !.next = IF c = tail THEN b ELSE @]
      BY <2>2
    <3> QED
      BY <3>1, <3>2
  <2> QED
    BY <2>2, <2>3
<1>5. \A v \in CdfWorkers \ {w} : cdfPc[v] # "idle" => req[v].cid # req[w].cid
  BY <1>2 DEF CalmOK, OnceOK
<1>6. \A t : Present(t)' <=> Present(t) \/ t = req[w].cid
  BY <1>1, <1>4 DEF Present, CdfTypeOK
<1>7. OnceOK'
  <2>1. \A c, d \in inUse' : block'[c].cid = block'[d].cid => c = d
    BY <1>1, <1>3, <1>4 DEF CalmOK, OnceOK, Present, CdfTypeOK
  <2>2. ASSUME NEW c \in inUse'
        PROVE  block'[c].cid \in Sessions /\ session'[block'[c].cid] \notin {"none", "EVENT"}
    BY <1>1, <1>2, <1>3, <1>4 DEF CalmOK, OnceOK, CdfTypeOK
  <2>3. /\ \A u, v \in CdfWorkers :
             cdfPc'[u] # "idle" /\ cdfPc'[v] # "idle" /\ req'[u].cid = req'[v].cid => u = v
        /\ \A v \in CdfWorkers : cdfPc'[v] # "idle" => session'[req'[v].cid] = req'[v].type
    BY <1>2, <1>3 DEF CalmOK, OnceOK
  <2> QED
    BY <2>1, <2>2, <2>3 DEF OnceOK
<1>8. PresentOK'
  <2>1. \A t \in Sessions : session'[t] = "open" => Present(t)'
    BY <1>2, <1>6 DEF CalmOK, PresentOK
  <2>2. ASSUME NEW v \in CdfWorkers \ {w} PROVE PresentAt(v)'
    <3>1. PresentAt(v) /\ cdfPc'[v] = cdfPc[v] /\ req' = req
      BY <1>2, <1>3 DEF CalmOK, PresentOK
    <3>2. cdfPc[v] # "idle" => (Present(req[v].cid)' <=> Present(req[v].cid))
      BY <1>2, <1>5, <1>6
    <3> QED
      BY <3>1, <3>2 DEF PresentAt
  <2>3. PresentAt(w)'
    BY <1>2, <1>3 DEF PresentAt
  <2> QED
    BY <2>1, <2>2, <2>3 DEF PresentOK
<1>9. SearchOK'
  <2>1. ASSUME NEW v \in CdfWorkers, cdfPc'[v] = "search"
        PROVE  \E C \in SUBSET ClientBlocks : Ahead(v, C)'
    <3>1. v # w /\ cdfPc[v] = "search" /\ req[v].cid # req[w].cid
      BY <1>3, <1>5, <2>1
    <3>2. PICK C \in SUBSET ClientBlocks : Ahead(v, C)
      BY <3>1 DEF CalmOK, SearchOK
    <3>3. Ahead(v, C \cup {b})'
      BY <1>1, <1>2, <1>4, <3>1, <3>2 DEF Ahead
    <3> QED
      BY <3>3
  <2>2. ASSUME NEW v \in CdfWorkers, cdfPc'[v] = "delete"
        PROVE  cursor'[v] \in inUse' /\ block'[cursor'[v]].cid = req'[v].cid
    <3>1. cdfPc[v] = "delete" /\ cursor[v] \in inUse /\ block[cursor[v]].cid = req[v].cid
      BY <1>3, <2>2 DEF CalmOK, SearchOK
    <3> QED
      BY <3>1, <1>1, <1>2, <1>4 DEF CdfTypeOK
  <2> QED
    BY <2>1, <2>2 DEF SearchOK
<1> QED
  BY <1>2, <1>7, <1>8, <1>9 DEF CalmOK

\* STOP takes out the client of its own session, whoever walks over it.
LEMMA DelCalm ==
  ASSUME CdfAssumption, CdfTypeOK, CdfTypeOK', ListOK, Listed = inUse, CalmOK,
         \A v \in CdfWorkers : DoingOK(v),
         NEW w \in CdfWorkers, DelClient(w)
  PROVE  CalmOK'
<1> DEFINE b == cursor[w]
           s == req[w].cid
<1>1. /\ cdfPc[w] = "delete" /\ cdfPc' = [cdfPc EXCEPT ![w] = "answer"]
      /\ UNCHANGED <<cdfLock, req, cursor, session>>
      /\ b \in inUse /\ block[b].cid = s /\ s \in Sessions /\ req[w].type = "STOP"
  BY DEF DelClient, CalmOK, SearchOK, DoingOK
<1>2. block' = Unlinked(b) /\ inUse' = inUse \ {b}
  <2>1. \A d \in Listed : block[d].cid = block[b].cid <=> d = b
    BY <1>1 DEF CalmOK, OnceOK
  <2> QED
    BY <1>1, <2>1 DEF DelClient
<1>3. cdfPc'[w] = "answer" /\ \A v \in CdfWorkers \ {w} : cdfPc'[v] = cdfPc[v]
  BY <1>1 DEF CdfTypeOK
<1>4. PICK p, n \in Pointers :
        /\ p = block[b].prev /\ n = block[b].next
        /\ p # NoOne => block[p].next = b
  BY <1>1 DEF ListOK, CdfTypeOK
<1>5. \A c \in ClientBlocks :
        /\ block'[c].cid = block[c].cid
        /\ block'[c].next = IF b # head /\ c = p THEN n ELSE block[c].next
  <2>1. \A c \in ClientBlocks : block[c] \in [cid : Cids, next : Pointers, prev : Pointers]
    BY DEF CdfTypeOK
  <2>2. \A c \in ClientBlocks :
          block'[c] = [block[c] EXCEPT !.next = IF b # head /\ c = p THEN n ELSE @,
                                       !.prev = IF c = n THEN p ELSE @]
    BY <1>2, <1>4 DEF Unlinked
  <2> QED
    BY <2>1, <2>2
<1>6. \A v \in CdfWorkers \ {w} : cdfPc[v] # "idle" => req[v].cid # s
  BY <1>1 DEF CalmOK, OnceOK
<1>7. \A t : Present(t)' <=> Present(t) /\ t # s
  BY <1>1, <1>2, <1>5 DEF Present, CdfTypeOK, CalmOK, OnceOK
<1>8. inUse' \subseteq inUse /\ inUse \subseteq ClientBlocks /\ b \in ClientBlocks
  BY <1>1, <1>2 DEF CdfTypeOK
<1>a. session[s] = "STOP"
  BY <1>1 DEF CalmOK, OnceOK
<1> HIDE DEF b, s
<1>9. OnceOK'
  <2>1. /\ \A c, d \in inUse' : block'[c].cid = block'[d].cid => c = d
        /\ \A c \in inUse' :
             block'[c].cid \in Sessions /\ session'[block'[c].cid] \notin {"none", "EVENT"}
    BY <1>1, <1>5, <1>8 DEF CalmOK, OnceOK
  <2>2. /\ \A u, v \in CdfWorkers :
             cdfPc'[u] # "idle" /\ cdfPc'[v] # "idle" /\ req'[u].cid = req'[v].cid => u = v
        /\ \A v \in CdfWorkers : cdfPc'[v] # "idle" => session'[req'[v].cid] = req'[v].type
    BY <1>1, <1>3 DEF CalmOK, OnceOK
  <2> QED
    BY <2>1, <2>2 DEF OnceOK
<1>10. PresentOK'
  <2>1. \A t \in Sessions : session'[t] = "open" => Present(t)'
    BY <1>1, <1>7, <1>a DEF CalmOK, PresentOK
  <2>2. ASSUME NEW v \in CdfWorkers \ {w} PROVE PresentAt(v)'
    <3>1. PresentAt(v) /\ cdfPc'[v] = cdfPc[v] /\ req' = req
      BY <1>1, <1>3 DEF CalmOK, PresentOK
    <3>2. cdfPc[v] # "idle" => (Present(req[v].cid)' <=> Present(req[v].cid))
      BY <1>1, <1>6, <1>7
    <3> QED
      BY <3>1, <3>2 DEF PresentAt
  <2>3. PresentAt(w)'
    <3>1. PICK t \in Sessions : t = s
      BY <1>1
    <3>2. ~Present(t)' /\ req'[w].cid = t /\ req'[w].type = "STOP"
      BY <1>1, <1>7, <3>1 DEF s
    <3> QED
      BY <1>3, <3>2 DEF PresentAt
  <2> QED
    BY <2>1, <2>2, <2>3 DEF PresentOK
<1>11. SearchOK'
  <2>1. ASSUME NEW v \in CdfWorkers, cdfPc'[v] = "search"
        PROVE  \E C \in SUBSET ClientBlocks : Ahead(v, C)'
    <3>1. v # w /\ cdfPc[v] = "search" /\ req[v].cid # s
      BY <1>3, <1>6, <2>1
    <3>2. PICK C \in SUBSET ClientBlocks : Ahead(v, C)
      BY <3>1 DEF CalmOK, SearchOK
    <3>3. cursor'[v] \in C \cup {NoOne}
      BY <1>1, <3>2 DEF Ahead
    <3>4. ASSUME NEW c \in C
          PROVE  block'[c].next \in C \cup {NoOne} /\ (block'[c].cid = req[v].cid => c \in inUse')
      <4>1. c # NoOne
        BY DEF CdfAssumption
      <4>2. c = p => block[c].next = b /\ b \in C
        BY <1>4, <1>8, <3>2, <4>1 DEF Ahead, CdfAssumption
      <4>3. block[c].next \in C \cup {NoOne} /\ (block[c].cid = req[v].cid => c \in inUse)
            /\ (b \in C => n \in C \cup {NoOne})
        BY <1>4, <3>2 DEF Ahead
      <4> QED
        BY <1>1, <1>2, <1>5, <3>1, <4>2, <4>3
    <3>5. Ahead(v, C)'
      BY <1>1, <3>3, <3>4 DEF Ahead
    <3> QED
      BY <3>5
  <2>2. ASSUME NEW v \in CdfWorkers, cdfPc'[v] = "delete"
        PROVE  cursor'[v] \in inUse' /\ block'[cursor'[v]].cid = req'[v].cid
    <3>1. v # w /\ cdfPc[v] = "delete" /\ cursor[v] \in inUse /\ block[cursor[v]].cid = req[v].cid
      BY <1>3, <2>2 DEF CalmOK, SearchOK
    <3> QED
      BY <3>1, <1>1, <1>2, <1>5, <1>6, <1>8
  <2> QED
    BY <2>1, <2>2 DEF SearchOK
<1> QED
  BY <1>1, <1>9, <1>10, <1>11 DEF CalmOK

\* A STOP that is not repeated finds a client, so nobody dies with the lock.
LEMMA NeverDelNothing ==
  ASSUME CdfAssumption, CdfTypeOK, ListOK, Listed = inUse, CalmOK,
         NEW w \in CdfWorkers, DelNothing(w)
  PROVE  FALSE
<1>1. cursor[w] \in Listed /\ head = NoOne
  BY DEF DelNothing, CalmOK, SearchOK
<1> QED
  BY <1>1, NoLoop

\* A session that is alone has one worker, one client, and a list of one.
LEMMA Alone ==
  ASSUME CdfAssumption, CdfTypeOK, ListOK, Listed = inUse, CalmOK, SingleOK,
         \A v \in CdfWorkers : DoingOK(v),
         NEW w \in CdfWorkers, cdfPc[w] # "idle"
  PROVE  /\ \A v \in CdfWorkers : cdfPc[v] # "idle" => v = w
         /\ \A b \in inUse : block[b].cid = req[w].cid /\ block[b].next = NoOne
         /\ \A b, d \in inUse : b = d
<1>1. \A v \in CdfWorkers :
        cdfPc[v] # "idle" => req[v].cid \in Sessions /\ session[req[v].cid] # "none"
  BY DEF DoingOK, CalmOK, OnceOK, Types
<1>2. \A v \in CdfWorkers : cdfPc[v] # "idle" => v = w
  BY <1>1 DEF SingleOK, CalmOK, OnceOK
<1>3. \A b \in inUse : block[b].cid = req[w].cid
  BY <1>1 DEF SingleOK, CalmOK, OnceOK
<1>4. \A b, d \in inUse : b = d
  BY <1>3 DEF CalmOK, OnceOK
<1>5. \A b \in inUse : block[b].next = NoOne
  BY <1>4, NoLoop DEF ListOK
<1> QED
  BY <1>2, <1>3, <1>4, <1>5

\* A step of one session at a time.
LEMMA SingleStep ==
  ASSUME CdfAssumption, CdfTypeOK, ListOK, Listed = inUse, CalmOK, CalmOK', SingleOK,
         \A v \in CdfWorkers : DoingOK(v), traffic = "single", CdfNext
  PROVE  SingleOK'
<1>1. ASSUME NEW w \in CdfWorkers, NEW s \in Sessions, NEW type \in Types,
             TakeRequest(w, s, type)
      PROVE  SingleOK'
  <2>1. /\ cdfPc[w] = "idle" /\ type # "EVENT"
        /\ session[s] \in {"none", "open"} /\ \A t \in Sessions \ {s} : session[t] = "none"
        /\ req' = [req EXCEPT ![w] = [type |-> type, cid |-> s]]
        /\ cdfPc' = [cdfPc EXCEPT ![w] = FirstStep[type]]
        /\ session' = [session EXCEPT ![s] = type]
        /\ UNCHANGED <<block, inUse, cursor>>
    BY <1>1 DEF TakeRequest, MaySend
  <2>2. FirstStep[type] = IF type = "START" THEN "test" ELSE "first"
    BY <2>1 DEF FirstStep, Types
  <2>3. \A v \in CdfWorkers : cdfPc[v] = "idle"
    BY <2>1 DEF CalmOK, OnceOK, DoingOK, Types
  <2>4. /\ \A v \in CdfWorkers \ {w} : cdfPc'[v] = "idle"
        /\ cdfPc'[w] = IF type = "START" THEN "test" ELSE "first"
        /\ req'[w] = [type |-> type, cid |-> s]
        /\ \A t \in Sessions \ {s} : session'[t] = "none"
    BY <2>1, <2>2, <2>3 DEF CdfTypeOK
  <2>5. cdfPc'[w] = "first" => Present(req[w].cid)'
    <3>1. PresentAt(w)'
      BY DEF CalmOK, PresentOK
    <3>2. cdfPc'[w] = "first" => req'[w].type \in {"INTERIM", "STOP"}
      BY <2>1, <2>4 DEF Types
    <3> QED
      BY <3>1, <3>2 DEF PresentAt
  <2> QED
    BY <2>4, <2>5 DEF SingleOK
<1>2. ASSUME NEW w \in CdfWorkers, CdfWork(w)
      PROVE  SingleOK'
  <2>1. cdfPc[w] \notin {"idle", "crashed", "event"}
    BY <1>2 DEF CdfWork, TestHead, AddClient, FirstClient, SearchClient, RunOffList, FoundClient,
                EventRequest, DelClient, DelNothing, AnswerAccounting, SingleOK
  <2>2. /\ \A v \in CdfWorkers \ {w} : cdfPc[v] = "idle"
        /\ \A b \in inUse : block[b].cid = req[w].cid /\ block[b].next = NoOne
    BY <2>1, Alone
  <2>3. \A v \in CdfWorkers \ {w} : cdfPc'[v] = "idle"
    BY <1>2, <2>2 DEF CdfWork, TestHead, AddClient, FirstClient, SearchClient, RunOffList,
       FoundClient, EventRequest, DelClient, DelNothing, AnswerAccounting, CdfTypeOK
  <2>4. \A s, t \in Sessions : session'[s] # "none" /\ session'[t] # "none" => s = t
    <3>1. CASE AnswerAccounting(w)
      <4>1. session[req[w].cid] # "none"
        BY <2>1 DEF CalmOK, OnceOK, DoingOK, Types
      <4>2. \A t \in Sessions : session'[t] # "none" => session[t] # "none" \/ t = req[w].cid
        BY <3>1 DEF AnswerAccounting, CdfTypeOK
      <4> QED
        BY <2>1, <4>1, <4>2 DEF SingleOK, DoingOK
    <3>2. CASE session' = session
      BY <3>2 DEF SingleOK
    <3> QED
      BY <1>2, <3>1, <3>2 DEF CdfWork, TestHead, AddClient, FirstClient, SearchClient,
         RunOffList, FoundClient, EventRequest, DelClient, DelNothing
  <2>5. /\ cdfPc'[w] \notin {"crashed", "event"}
        /\ cdfPc'[w] \in {"first", "search"} => Present(req[w].cid)'
        /\ cdfPc'[w] = "search" => cursor'[w] \in inUse'
    <3>1. CASE TestHead(w)
      <4>1. inUse = {}
        <5>1. cdfPc[w] = "test" /\ ~Present(req[w].cid)
          BY <3>1 DEF TestHead, CalmOK, PresentOK, PresentAt
        <5> QED
          BY <2>2, <5>1 DEF Present
      <4>2. head = NoOne
        BY <4>1 DEF ListOK
      <4> QED
        BY <3>1, <4>2 DEF TestHead, CdfTypeOK
    <3>2. CASE AddClient(w)
      <4>1. PICK b \in ClientBlocks \ inUse :
              /\ inUse' = inUse \cup {b} /\ block'[b].cid = req[w].cid
        BY <3>2 DEF AddClient
      <4>2. cdfPc'[w] = "first" /\ req' = req
        BY <3>2 DEF AddClient, CdfTypeOK
      <4> QED
        BY <4>1, <4>2 DEF Present
    <3>3. CASE FirstClient(w)
      <4>1. cdfPc[w] = "first" /\ cdfPc'[w] = "search" /\ cursor'[w] = head
            /\ UNCHANGED <<req, block, inUse>>
        BY <3>3 DEF FirstClient, CdfTypeOK
      <4>2. PICK b \in inUse : block[b].cid = req[w].cid
        BY <4>1 DEF SingleOK, Present
      <4>3. head \in inUse
        BY <4>2, NoLoop DEF ListOK
      <4> QED
        BY <4>1, <4>2, <4>3 DEF Present
    <3>4. CASE SearchClient(w) \/ RunOffList(w) \/ FoundClient(w)
      <4>1. cdfPc[w] = "search" /\ cursor[w] \in inUse
        BY <3>4 DEF SearchClient, RunOffList, FoundClient, SingleOK
      <4>2. IsWanted(w) /\ cursor[w] # NoOne
        BY <2>2, <4>1 DEF IsWanted, CdfTypeOK, CdfAssumption
      <4>3. FoundClient(w)
        BY <3>4, <4>2 DEF SearchClient, RunOffList
      <4> QED
        BY <4>3 DEF FoundClient, CdfTypeOK
    <3>5. CASE DelClient(w) \/ AnswerAccounting(w)
      BY <3>5 DEF DelClient, AnswerAccounting, CdfTypeOK
    <3>6. CASE DelNothing(w)
      BY <3>6, NeverDelNothing
    <3>7. CASE EventRequest(w)
      BY <3>7, <2>1 DEF EventRequest
    <3> QED
      BY <1>2, <3>1, <3>2, <3>3, <3>4, <3>5, <3>6, <3>7 DEF CdfWork
  <2> QED
    BY <2>3, <2>4, <2>5 DEF SingleOK
<1>3. ASSUME TimerLock \/ TimerRelease
      PROVE  SingleOK'
  <2>1. UNCHANGED <<session, cdfPc, req, cursor, inUse, block>>
    BY <1>3 DEF TimerLock, TimerRelease
  <2> QED
    BY <2>1 DEF SingleOK, Present
<1> QED
  BY <1>1, <1>2, <1>3 DEF CdfNext

LEMMA CdfInitInv == CdfAssumption /\ CdfInit => CdfIInv
<1> SUFFICES ASSUME CdfAssumption, CdfInit PROVE CdfIInv
  OBVIOUS
<1>1. CdfTypeOK
  BY DEF CdfInit, CdfTypeOK, NoClient, NoReq, Pointers, Cids
<1>2. Listed = {}
  <2>1. Closed({})
    BY DEF CdfInit, Closed
  <2> QED
    BY <2>1 DEF Listed
<1> QED
  BY <1>1, <1>2 DEF CdfInit, CdfIInv, ListOK, DoingOK, CalmOK, OnceOK, PresentOK, PresentAt, SearchOK,
     SingleOK, Present, CdfAssumption

LEMMA CdfStepInv == CdfAssumption /\ CdfIInv /\ [CdfNext]_cdfVars => CdfIInv'
<1> SUFFICES ASSUME CdfAssumption, CdfIInv, [CdfNext]_cdfVars PROVE CdfIInv'
  OBVIOUS
<1>1. CASE UNCHANGED cdfVars
  <2>1. UNCHANGED <<head, tail, block, inUse>>
    BY <1>1 DEF cdfVars
  <2>2. ListOK' /\ (Listed = inUse)'
    BY <2>1, KeepsList DEF CdfIInv
  <2>3. CdfTypeOK' /\ (\A w \in CdfWorkers : DoingOK(w))' /\ traffic' = traffic
    BY <1>1 DEF CdfIInv, cdfVars, CdfTypeOK, DoingOK
  <2>4. CalmOK => CalmOK'
    BY <1>1 DEF cdfVars, CalmOK, OnceOK, PresentOK, PresentAt, Present, SearchOK, Ahead
  <2>5. SingleOK => SingleOK'
    BY <1>1 DEF cdfVars, SingleOK, Present
  <2> QED
    BY <2>2, <2>3, <2>4, <2>5 DEF CdfIInv
<1>2. CASE CdfNext
  <2>1. CdfTypeOK' /\ \A w \in CdfWorkers : DoingOK(w)'
    BY <1>2, CdfTypeStep DEF CdfIInv
  <2>2. ListOK' /\ (Listed = inUse)'
    BY <1>2, <2>1, CdfListStep DEF CdfIInv
  <2>3. traffic' = traffic
    BY <1>2 DEF CdfNext, CdfWork, TestHead, AddClient, FirstClient, SearchClient, RunOffList,
       FoundClient, EventRequest, DelClient, DelNothing, AnswerAccounting, TakeRequest, TimerLock,
       TimerRelease
  <2>4. ASSUME traffic # "repeated" PROVE CalmOK'
    <3>1. CalmOK
      BY <2>4 DEF CdfIInv
    <3>2. CASE \E w \in CdfWorkers, s \in Sessions, type \in Types : TakeRequest(w, s, type)
      BY <2>4, <3>1, <3>2, TakeCalm DEF CdfIInv
    <3>3. CASE \E w \in CdfWorkers : CdfWork(w)
      <4>1. PICK w \in CdfWorkers : CdfWork(w)
        BY <3>3
      <4>2. CASE TestHead(w) \/ FirstClient(w) \/ SearchClient(w) \/ RunOffList(w)
                 \/ FoundClient(w) \/ EventRequest(w)
        BY <3>1, <4>2, MoveCalm DEF CdfIInv
      <4>3. CASE AddClient(w)
        BY <2>1, <3>1, <4>3, AddCalm DEF CdfIInv
      <4>4. CASE DelClient(w)
        BY <2>1, <3>1, <4>4, DelCalm DEF CdfIInv
      <4>5. CASE DelNothing(w)
        BY <3>1, <4>5, NeverDelNothing DEF CdfIInv
      <4>6. CASE AnswerAccounting(w)
        BY <3>1, <4>6, AnswerCalm DEF CdfIInv
      <4> QED
        BY <4>1, <4>2, <4>3, <4>4, <4>5, <4>6 DEF CdfWork
    <3>4. CASE TimerLock \/ TimerRelease
      <4>1. /\ UNCHANGED <<session, cdfPc, req, cursor, inUse, block>>
            /\ cdfLock' \notin CdfWorkers
        BY <3>4 DEF TimerLock, TimerRelease, CdfAssumption
      <4> QED
        BY <3>1, <4>1 DEF CalmOK, OnceOK, PresentOK, PresentAt, Present, SearchOK, Ahead
    <3> QED
      BY <1>2, <3>2, <3>3, <3>4 DEF CdfNext
  <2>5. ASSUME traffic = "single" PROVE SingleOK'
    <3>1. CalmOK /\ CalmOK' /\ SingleOK
      BY <2>4, <2>5 DEF CdfIInv
    <3> QED
      BY <1>2, <2>5, <3>1, SingleStep DEF CdfIInv
  <2> QED
    BY <2>1, <2>2, <2>3, <2>4, <2>5 DEF CdfIInv
<1> QED
  BY <1>1, <1>2

\* Every reachable state satisfies the invariant.
THEOREM CdfInductive == CdfSpec => []CdfIInv
<1>1. CdfAssumption
  BY CdfAssumption
<1> QED
  BY <1>1, CdfInitInv, CdfStepInv, PTL DEF CdfSpec

\* The variables of the charging data function keep their types.
THEOREM CdfTypeCorrect == CdfSpec => []CdfTypeOK
<1>1. CdfIInv => CdfTypeOK
  BY DEF CdfIInv
<1> QED
  BY <1>1, CdfInductive, PTL

\* The list of the CDF stays a list of the clients that are allocated (add_client,
\* del_client), with every open session while no STOP is repeated; then no worker dies
\* with its lock, and with one session at a time none dies (msg_handler).
THEOREM AccountingIsSound == CdfSpec => []AccountingSound
<1>1. ASSUME CdfAssumption, CdfIInv PROVE AccountingSound
  <2>1. /\ Listed = inUse
        /\ \A b \in inUse : block[b].next = NoOne <=> tail = b
        /\ \A b \in inUse : block[b].next # NoOne => block[block[b].next].prev = b
    BY <1>1 DEF CdfIInv, ListOK
  <2>2. inUse = {} => tail = NoOne
    BY <1>1 DEF CdfIInv, ListOK
  <2>3. traffic # "repeated" =>
          \A s \in Sessions : session[s] = "open" => \E b \in Listed : block[b].cid = s
    BY <1>1 DEF CdfIInv, CalmOK, PresentOK, Present
  <2>4. WorkersSurvive
    BY <1>1 DEF CdfIInv, SingleOK, CalmOK, WorkersSurvive
  <2> QED
    BY <2>1, <2>2, <2>3, <2>4 DEF AccountingSound, ClientsListed
<1>2. CdfAssumption
  BY CdfAssumption
<1> QED
  BY <1>1, <1>2, CdfInductive, PTL

=============================================================================
