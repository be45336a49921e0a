------------------------------ MODULE MCParts -------------------------------
(***************************************************************************)
(* Finite instances of the small modules, side by side: part is the one    *)
(* that moves in a behaviour, and the others stay in an initial state, so  *)
(* their state spaces add up instead of multiplying.                       *)
(***************************************************************************)
EXTENDS TimerList, Identifiers, Routing, MessageLife, Processes, IptvServer,
        PeerManager, Capabilities, CdfAccounting, Configuration, SharedMemory,
        ChargingMessages

CONSTANTS x1, x2, x3, r, w1, w2, b1, b2, b3

VARIABLES
  part,
  \* OcsCredit
  oList, heap, oLock, oPc, oReq, oClient, persec, perMbyte, oSession, owed, reqs

(******************************* Timers **********************************)

Intervals == (x1 :> 1) @@ (x2 :> 2)

(****************************** Routing **********************************)

SomeTables == [realms : [{r} -> {<<>>, <<x1>>, <<x1, x2>>, <<x2, x1>>}],
               default : {<<>>, <<x3>>, <<x3, x2>>}]

\* RouteInit, or one of its states in the behaviours of another part.
RoutingAtRest ==
  /\ table = CHOOSE t \in SomeTables : TRUE
  /\ open = {}
  /\ msg = [host |-> Nil, realm |-> Nil]

(**************************** Capabilities *******************************)

Auth(id, vendor) == [id |-> id, vendor |-> vendor, type |-> "auth"]
Acct(id, vendor) == [id |-> id, vendor |-> vendor, type |-> "acct"]

LocalApps == <<Auth(1, 10), Auth(2, 0)>>

RemoteApps ==
  {<<Acct(1, 10), Auth(1, 10)>>, <<Auth(2, 0)>>, <<Acct(1, 10)>>,
   <<Auth(2, 0), Acct(1, 10), Auth(2, 0)>>}

SomeNames == {<<97>>, <<97, 98>>, <<200, 97>>}

WantedApp == [id |-> 1, vendor |-> 10]

(****************************** Messages *********************************)

IdentityOf(x) == [host |-> Text(<<x, 46, x>>), realm |-> Text(<<x, x, x, x, x>>)]
SomeIdentity == [CTF |-> IdentityOf(99), OCS |-> IdentityOf(111), CDF |-> IdentityOf(100)]

SomeSubscribers == {<<97>>, <<97, 98, 99>>, <<97, 98, 99, 100>>}

SomeSession == Text(<<99, 46, 99, 59, 49, 59, 50>>)
SomeIds == <<7, 16777300>>

MessagesAtRest ==
  /\ service = "Ro"
  /\ ask = [type |-> "START", cid |-> 1, user |-> <<97>>, credits |-> <<0, 0, 0>>]

(**************************** Configuration ******************************)

RouteElement(tag, name, metric) == [tag |-> tag, fqdn |-> name, metric |-> metric]

SomeElements ==
  {[tag |-> "Peer", fqdn |-> <<b3, x1, b3>>, realm |-> <<x2, b3>>],
   [tag |-> "Acceptor", bind |-> <<x1>>, port |-> 3868],
   [tag |-> "Auth", id |-> 1, vendor |-> 10], [tag |-> "Acct", id |-> 1, vendor |-> 10],
   [tag |-> "SupportedVendor"],
   [tag |-> "Realm", name |-> <<b3, r>>,
    children |-> <<RouteElement("Route", <<x1>>, 2), RouteElement("Route", <<x2>>, 1),
                   RouteElement("Route", <<x3>>, 2)>>]}
    \cup {RouteElement("DefaultRoute", <<x>>, metric) : x \in {x1, x2}, metric \in 1 .. 2}

(***************************** IPTV server *******************************)

SomeOffers == {<<>>, <<"ct1">>, <<"other", "ct0">>}

(************************ Online charging system *************************)

Ocs == INSTANCE OcsCredit WITH
         Workers <- {w1}, Cids <- {x1, x2}, Addrs <- {b1, b2}, InitialCredit <- 6,
         TimeFactor <- 4, VolFactor <- 1, Garbage <- {0}, Retries <- FALSE,
         MaxReqs <- 6, None <- Nil,
         list <- oList, lock <- oLock, pc <- oPc, req <- oReq, client <- oClient,
         session <- oSession

\* One worker of the OCS answers every request that comes in order.
EveryRequestIsAnswered == Ocs!EveryRequestIsAnswered

(************************ All of them ************************************)

ocsVars == <<oList, heap, oLock, oPc, oReq, oClient, persec, perMbyte, oSession, owed, reqs>>

Parts == {"timers", "identifiers", "routing", "peers", "capabilities", "processes",
           "heap", "messages", "life", "conf", "iptv", "cdf", "ocs"}

PartsInit ==
  /\ part \in Parts
  /\ IF part = "routing" THEN TRUE ELSE RoutingAtRest
  /\ IF part = "identifiers" THEN TRUE ELSE start = [k \in IdKinds |-> 0]
  /\ IF part = "messages" THEN TRUE ELSE MessagesAtRest
  /\ IF part = "peers" THEN TRUE ELSE accept = FALSE /\ drop = FALSE
  /\ IF part = "cdf" THEN TRUE ELSE traffic = "single"
  /\ IF part = "capabilities" THEN TRUE
     ELSE remote = <<Auth(2, 0)>> /\ local = <<97>> /\ origin = <<97, 98>>
  /\ IF part = "conf" THEN TRUE ELSE file = <<>>
  /\ Init /\ IdInit /\ RouteInit
  /\ PmInit /\ CapInit /\ ProcInit /\ HeapInit
  /\ MsgInit /\ LifeInit /\ ConfigInit /\ IptvInit
  /\ CdfInit /\ Ocs!Init

\* The variables of the parts other than p stay as they are.
Others(p) ==
  /\ UNCHANGED part
  /\ IF p = "timers" THEN TRUE ELSE UNCHANGED vars
  /\ IF p = "identifiers" THEN TRUE ELSE UNCHANGED idVars
  /\ IF p = "routing" THEN TRUE ELSE UNCHANGED routeVars
  /\ IF p = "peers" THEN TRUE ELSE UNCHANGED pmVars
  /\ IF p = "capabilities" THEN TRUE ELSE UNCHANGED capVars
  /\ IF p = "processes" THEN TRUE ELSE UNCHANGED procVars
  /\ IF p = "heap" THEN TRUE ELSE UNCHANGED heapVars
  /\ IF p = "messages" THEN TRUE ELSE UNCHANGED chargeVars
  /\ IF p = "life" THEN TRUE ELSE UNCHANGED lifeVars
  /\ IF p = "conf" THEN TRUE ELSE UNCHANGED configVars
  /\ IF p = "iptv" THEN TRUE ELSE UNCHANGED iptvVars
  /\ IF p = "cdf" THEN TRUE ELSE UNCHANGED cdfVars
  /\ IF p = "ocs" THEN TRUE ELSE UNCHANGED ocsVars

Moves ==
  \/ part = "timers" /\ Next
  \/ part = "identifiers" /\ IdNext
  \/ part = "routing" /\ RouteNext
  \/ part = "peers" /\ PmNext
  \/ part = "capabilities" /\ CapNext
  \/ part = "processes" /\ ProcNext
  \/ part = "heap" /\ HeapNext
  \/ part = "messages" /\ MsgNext
  \/ part = "life" /\ LifeNext
  \/ part = "conf" /\ ConfigNext
  \/ part = "iptv" /\ IptvNext
  \/ part = "cdf" /\ CdfNext
  \/ part = "ocs" /\ Ocs!Next

PartsNext == Moves /\ Others(part)

partsVars ==
  <<part, vars, idVars, routeVars, pmVars, capVars, procVars, heapVars,
    chargeVars, lifeVars, configVars, iptvVars, cdfVars, ocsVars>>

PartsSpec ==
  /\ PartsInit /\ [][PartsNext]_partsVars
  /\ WF_ocsVars(part = "ocs" /\ Ocs!Step(w1))
  /\ WF_procVars(part = "processes" /\ PeerDestroy)
  /\ WF_procVars(part = "processes" /\ \E p \in Children \cup Accepted : Other(p) \/ Ends(p))
============================================================================
