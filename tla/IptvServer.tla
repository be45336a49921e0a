----------------------------- MODULE IptvServer ------------------------------
(***************************************************************************)
(* The IPTV server: get_exosip_events (iptv/uct_aiptv_server.c), run by    *)
(* sip_timer once a second in the timer process, with the two functions of *)
(* charging.c that find the type of charging. The SIP stack (eXosip) works *)
(* in a thread of its own and hands over events in a queue.                *)
(*                                                                         *)
(* charge_iptv is that of CtfCharging; here a START is what it leaves in   *)
(* the list of clients, and a STOP is the mark that msg_timer acts on.     *)
(***************************************************************************)
EXTENDS Naturals, SequencesExt

CONSTANTS
  Calls,    \* je->cid
  Offers,   \* sdp_attributes an INVITE may carry: sequences of "ct1", "ct0", "ct", "other"
  Unwritten \* values of an int that was never written

VARIABLES
  sip,      \* each call as the SIP stack and the user see it
  offer,    \* the attributes of its INVITE
  events,   \* events that eXosip_event_wait has not returned yet
  je, place,   \* the event in hand, and where get_exosip_events is
  client,   \* charge_type of each call's client, or "none" when it is not listed
  stopping, \* clients with events = SStop
  accepted  \* calls whose START was accepted

iptvVars == <<sip, offer, events, je, place, client, stopping, accepted>>

Event(type, c) == [type |-> type, call |-> c]

NoEvent == [type |-> "none"]

IptvInit ==
  /\ sip = [c \in Calls |-> "none"] /\ offer = [c \in Calls |-> <<>>]
  /\ events = <<>> /\ je = NoEvent /\ place = "wait"
  /\ client = [c \in Calls |-> "none"] /\ stopping = {} /\ accepted = {}

(*************************** The SIP stack *******************************)

\* It puts an event into its queue, under eXosip_lock, which get_exosip_events holds
\* while it charges. The event's memory may be that of the one which get_exosip_events
\* has freed and is going to look at once more.
Raise(e) ==
  /\ place # "charging"
  /\ events' = Append(events, e)
  /\ je' \in IF place = "freed" THEN {je, e} ELSE {je}

UserInvites(c) ==
  /\ sip[c] = "none"
  /\ sip' = [sip EXCEPT ![c] = "invited"]
  /\ \E o \in Offers : offer' = [offer EXCEPT ![c] = o]
  /\ Raise(Event("CALL_INVITE", c))
  /\ UNCHANGED <<place, client, stopping, accepted>>

\* The user hangs up.
UserCloses(c) ==
  /\ sip[c] = "answered"
  /\ sip' = [sip EXCEPT ![c] = "closed"]
  /\ Raise(Event("CALL_CLOSED", c))
  /\ UNCHANGED <<offer, place, client, stopping, accepted>>

\* The user gives up before the answer; nothing in get_exosip_events handles that.
UserCancels(c) ==
  /\ sip[c] = "invited"
  /\ sip' = [sip EXCEPT ![c] = "cancelled"]
  /\ Raise(Event("CALL_CANCELLED", c))
  /\ UNCHANGED <<offer, place, client, stopping, accepted>>

(************************* get_exosip_events *****************************)

Wait ==
  /\ place = "wait" /\ events # <<>>
  /\ je' = Head(events) /\ events' = Tail(events)
  /\ place' = IF je'.type = "CALL_INVITE" THEN "invite" ELSE "look"
  /\ UNCHANGED <<sip, offer, client, stopping, accepted>>

\* An answer reaches a call that still waits for one.
Answer(c, outcome) ==
  sip' = [sip EXCEPT ![c] = IF @ = "invited" THEN outcome ELSE @]

\* hash_lookupValue does not know the content: 400.
UnknownContent ==
  /\ place = "invite"
  /\ Answer(je.call, "refused")
  /\ place' = "freed"
  /\ UNCHANGED <<offer, events, je, client, stopping, accepted>>

\* get_charge_type_from_sdp: each attribute may write ch_type, and the last one wins.
\* Without attributes nothing writes it.
TypesOf(attributes) ==
  FoldLeft(LAMBDA ch, a : CASE a \in {"ct1", "other"} -> {1}
                            [] a = "ct0" -> {2}
                            [] a = "ct" -> ch,
           Unwritten, attributes)

TypeName(ch) == CASE ch = 1 -> "online" [] ch = 2 -> "offline" [] OTHER -> "other"

\* charge_iptv START adds a client and waits for the charging functions.
StartCharging ==
  /\ place = "invite"
  /\ \E ch \in TypesOf(offer[je.call]) :
       IF ch = 0
       THEN place' = "freed" /\ UNCHANGED client
       ELSE /\ client' = [client EXCEPT ![je.call] = TypeName(ch)]
            /\ place' = "charging"
  /\ UNCHANGED <<sip, offer, events, je, stopping, accepted>>

\* They accept, and 200 is sent. An "other" type reaches no charging function and is
\* accepted at once.
Started ==
  /\ place = "charging"
  /\ accepted' = accepted \cup {je.call}
  /\ Answer(je.call, "answered")
  /\ place' = "freed"
  /\ UNCHANGED <<offer, events, je, client, stopping>>

\* A mutant: the user is answered although the charging failed.
NotStartedAnswers ==
  /\ place = "charging" /\ client[je.call] # "other"
  /\ Answer(je.call, "answered")
  /\ place' = "freed"
  /\ UNCHANGED <<offer, events, je, client, stopping, accepted>>

\* They do not: the INVITE is left without a final answer.
NotStarted ==
  /\ place = "charging" /\ client[je.call] # "other"
  /\ place' = "freed"
  /\ UNCHANGED <<sip, offer, events, je, client, stopping, accepted>>

\* eXosip_event_free(je) has come; the next test reads je->type all the same.
LookAgain ==
  /\ place = "freed"
  /\ place' = "look"
  /\ UNCHANGED <<sip, offer, events, je, client, stopping, accepted>>

\* get_charge_type_from_a_client finds the call, and charge_iptv STOP marks it.
Close ==
  /\ place = "look" /\ je.type = "CALL_CLOSED" /\ client[je.call] # "none"
  /\ stopping' = stopping \cup {je.call}
  /\ place' = "wait"
  /\ UNCHANGED <<sip, offer, events, je, client, accepted>>

\* An event of another type, or of a call that is not listed (charge type 0).
LookAway ==
  /\ place = "look" /\ (je.type = "CALL_CLOSED" => client[je.call] = "none")
  /\ place' = "wait"
  /\ UNCHANGED <<sip, offer, events, je, client, stopping, accepted>>

(****************** msg_timer, between two SIP events ********************)

\* The credit of an online call is used up, or a client that was never started holds an
\* SStop by chance.
Exhausted(c) ==
  /\ place = "wait" /\ client[c] # "none"
  /\ client[c] = "online" \/ c \notin accepted
  /\ stopping' = stopping \cup {c}
  /\ UNCHANGED <<sip, offer, events, je, place, client, accepted>>

\* event_handler STOP was answered: an online call is terminated (call_terminate), and
\* the client is deleted.
Deleted(c) ==
  /\ place = "wait" /\ c \in stopping /\ client[c] \in {"online", "offline"}
  /\ sip' = [sip EXCEPT ![c] = IF client[c] = "online" /\ @ = "answered" THEN "terminated" ELSE @]
  /\ client' = [client EXCEPT ![c] = "none"] /\ stopping' = stopping \ {c}
  /\ UNCHANGED <<offer, events, je, place, accepted>>

IptvNext ==
  \/ \E c \in Calls : UserInvites(c) \/ UserCloses(c) \/ UserCancels(c)
  \/ Wait \/ UnknownContent \/ StartCharging \/ Started \/ NotStarted
  \/ LookAgain \/ Close \/ LookAway
  \/ \E c \in Calls : Exhausted(c) \/ Deleted(c)

IptvSpec == IptvInit /\ [][IptvNext]_iptvVars

(***************************** Properties ********************************)

Running(c) == client[c] # "none" /\ c \notin stopping

Pending(c) == \E i \in DOMAIN events : events[i] = Event("CALL_CLOSED", c)

\* Nobody watches for free: a call is answered only after its START was accepted, and
\* as long as it goes on its client is listed with a type that its SDP may have given.
AnsweredIsCharged ==
  \A c \in Calls :
    sip[c] = "answered" =>
      /\ c \in accepted /\ client[c] # "none"
      /\ \E ch \in TypesOf(offer[c]) : client[c] = TypeName(ch)

\* Nobody pays after hanging up: once the events of a closed call are handled, its
\* client is stopped or gone, though an INVITE, a request to the charging functions or
\* an event in reused memory came in between.
ClosedIsStopped ==
  \A c \in Calls :
    sip[c] = "closed" /\ place = "wait" /\ ~Pending(c) => ~Running(c)

\* What a user sees of a call and what the server charges for it agree.
CallsSound == AnsweredIsCharged /\ ClosedIsStopped

\* "It performs charging processes for every active session" (charging.c:108): a call
\* that the user gave up is not charged.
CancelledIsNotCharged ==
  \A c \in Calls :
    sip[c] = "cancelled" /\ place = "wait" /\ events = <<>> => ~(c \in accepted /\ Running(c))
============================================================================
