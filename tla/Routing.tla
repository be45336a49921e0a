------------------------------ MODULE Routing -------------------------------
(***************************************************************************)
(* The choice of the peer that a message is sent to (routing.c): its       *)
(* Destination-Host, else a route of its Destination-Realm, else a default *)
(* route. get_first_connected_route looks up the first of its routes once  *)
(* for every route, never another one.                                     *)
(*                                                                         *)
(* Each look at a peer is a step: its state is read without its lock, and  *)
(* peers connect and disconnect between two looks.                         *)
(***************************************************************************)
EXTENDS Naturals, Sequences, SequencesExt

CONSTANTS
  Hosts,    \* hosts of peers
  Realms,   \* realms with routes
  Tables,   \* routing tables: [realms: Realms -> Seq(Hosts), default: Seq(Hosts)]
  Handling, \* hosts whose peers have advertised the application of the message
  Nil

ASSUME RoutingAssumption ==
  /\ Tables \subseteq [realms : [Realms -> Seq(Hosts)], default : Seq(Hosts)]
  /\ Handling \subseteq Hosts
  /\ Nil \notin Hosts /\ Nil \notin Realms

VARIABLES
  table,    \* config->r_table
  open,     \* hosts with a peer in I_Open or R_Open
  msg,      \* the Destination-Host and the Destination-Realm of the message
  trying,   \* which kind of route is tried
  turn,     \* the route get_first_connected_route is at
  result,   \* the peer chosen
  steady,   \* hosts usable all the time since the message came
  seen      \* hosts usable at some time since then

routeVars == <<table, open, msg, trying, turn, result, steady, seen>>

RouteInit ==
  /\ table \in Tables
  /\ open \in SUBSET Hosts
  /\ msg \in [host : Hosts \cup {Nil}, realm : Realms \cup {Nil}]
  /\ trying = "host" /\ turn = 1 /\ result = Nil
  /\ steady = open \cap Handling /\ seen = steady

\* The condition on the peer that get_peer_by_fqdn has found.
Usable(h) == h \in open /\ h \in Handling  \* peer_handles_application

\* A peer connects or disconnects.
Change(h) ==
  /\ trying # "done"
  /\ open' = IF h \in open THEN open \ {h} ELSE open \cup {h}
  /\ steady' = steady \ {h}
  /\ seen' = IF h \in Handling THEN seen \cup {h} ELSE seen
  /\ UNCHANGED <<table, msg, trying, turn, result>>

Choose(h) == result' = h /\ trying' = "done"

Try(next) == trying' = next /\ turn' = 1

TryHost ==
  /\ trying = "host"
  /\ IF msg.host # Nil /\ Usable(msg.host)
     THEN Choose(msg.host) /\ UNCHANGED turn
     ELSE Try("realm") /\ UNCHANGED result
  /\ UNCHANGED <<table, open, msg, steady, seen>>

Routes == IF trying = "default" THEN table.default
          ELSE IF msg.realm = Nil THEN <<>> ELSE table.realms[msg.realm]

\* One turn of get_first_connected_route.
TryRoute ==
  /\ trying \in {"realm", "default"} /\ turn <= Len(Routes)
  /\ IF Usable(Routes[1]) THEN Choose(Routes[1]) /\ UNCHANGED turn
     ELSE turn' = turn + 1 /\ UNCHANGED <<trying, result>>
  /\ UNCHANGED <<table, open, msg, steady, seen>>

\* A mutant: a realm with routes has no default.
NoRouteWithoutDefault ==
  /\ trying \in {"realm", "default"} /\ turn > Len(Routes)
  /\ IF trying = "realm" /\ Routes = <<>> THEN Try("default") /\ UNCHANGED result
     ELSE Choose(Nil) /\ UNCHANGED turn
  /\ UNCHANGED <<table, open, msg, steady, seen>>

\* get_first_connected_route returns 0.
NoRoute ==
  /\ trying \in {"realm", "default"} /\ turn > Len(Routes)
  /\ IF trying = "realm" THEN Try("default") /\ UNCHANGED result
     ELSE Choose(Nil) /\ UNCHANGED turn
  /\ UNCHANGED <<table, open, msg, steady, seen>>

RouteNext == (\E h \in Hosts : Change(h)) \/ TryHost \/ TryRoute \/ NoRoute

RouteSpec == RouteInit /\ [][RouteNext]_routeVars

(***************************** Properties ********************************)

RealmRoutes == IF msg.realm = Nil THEN <<>> ELSE table.realms[msg.realm]
FirstOf(routes) == IF routes = <<>> THEN {} ELSE {Head(routes)}

\* A message goes to its Destination-Host if that is connected all the time, else at
\* worst to the default route if that is, however other peers come and go, and never
\* to a peer that is no route of it or was not connected (get_routing_peer).
SteadyPeerIsUsed ==
  trying = "done" =>
    LET first == FirstOf(RealmRoutes)
        default == FirstOf(table.default)
    IN /\ msg.host \in steady => result = msg.host
       /\ first \cap steady # {} => result \in {msg.host} \cup first
       /\ default \cap steady # {} => result # Nil
       /\ result # Nil => result \in seen \cap ({msg.host} \cup first \cup default)

\* "Get the first peer that is connected from the list of routing entries."
RouteFound ==
  trying = "done" /\ (ToSet(RealmRoutes) \cup ToSet(table.default)) \cap steady # {} =>
    result # Nil
=============================================================================
