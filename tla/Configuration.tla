--------------------------- MODULE Configuration -----------------------------
(***************************************************************************)
(* parse_dp_config (cdp/configparser.c): the elements of the configuration *)
(* file are walked twice. The first pass counts what the arrays of peers,  *)
(* acceptors and applications must hold, the second fills them and builds  *)
(* the routing table that Routing reads.                                   *)
(***************************************************************************)
EXTENDS Integers, Sequences, SequencesExt, FiniteSetsExt

CONSTANTS
  XmlElements,    \* the elements a file may have
  MaxElements, \* bound: the elements of a file
  QUOTE        \* the character "

\* The elements that describe a route, under the root or in a Realm.
RouteElements ==
  {e \in XmlElements : e.tag = "DefaultRoute"}
    \cup UNION {Range(e.children) : e \in {d \in XmlElements : d.tag = "Realm"}}

ASSUME ConfigAssumption ==
  /\ MaxElements \in Nat
  /\ \A e \in XmlElements :
       e.tag = "Realm" =>
         Len(e.children) \in Nat /\ DOMAIN e.children = 1 .. Len(e.children)
  /\ \A e \in RouteElements : e.metric \in Int

VARIABLES
  file,    \* the children of the root element
  pass,    \* "count" or "read"
  child,   \* the child that the pass comes to
  nephew,  \* in a Realm, the child of it that comes next; otherwise 0
  config,  \* the arrays as far as they are filled
  sizes,   \* the elements each array is allocated for
  realms,  \* r_table->realms, with the routes of each
  routes   \* r_table->routes

configVars == <<file, pass, child, nephew, config, sizes, realms, routes>>

Files == UNION {[1 .. n -> XmlElements] : n \in 0 .. MaxElements}

Arrays == {"peers", "acceptors", "apps"}

ConfigInit ==
  /\ file \in Files
  /\ pass = "count" /\ child = 1 /\ nephew = 0
  /\ config = [a \in Arrays |-> <<>>]
  /\ sizes = [a \in Arrays |-> 0]
  /\ realms = <<>> /\ routes = <<>>

\* quote_trim_dup. It looks for the closing quote where the string would end had it no
\* opening one. (Names are not empty: of an empty one it reads what precedes it.)
Trimmed(s) ==
  LET first == IF s[1] = QUOTE THEN 1 ELSE 0
      length == Len(s) - first
      last == IF s[length] = QUOTE THEN length - 1 ELSE length
  IN SubSeq(s, first + 1, first + last)

RouteOf(e) == [fqdn |-> Trimmed(e.fqdn), metric |-> e.metric]

\* A mutant: the new entry goes behind the first one that is not smaller.
InsertBehind(list, re) ==
  LET i == SelectInSeq(list, LAMBDA rei : re.metric <= rei.metric)
  IN IF i = 0 THEN Append(list, re) ELSE InsertAt(list, i + 1, re)

\* "add it the list in ascending order"
Insert(list, re) ==
  LET i == SelectInSeq(list, LAMBDA rei : re.metric <= rei.metric)
  IN IF i = 0 THEN Append(list, re) ELSE InsertAt(list, i, re)

Child == file[child]

ArrayOf(tag) ==
  CASE tag = "Peer" -> "peers"
    [] tag = "Acceptor" -> "acceptors"
    [] tag \in {"Auth", "Acct"} -> "apps"
    [] OTHER -> "none"

Count ==
  /\ pass = "count" /\ child <= Len(file)
  /\ sizes' = IF ArrayOf(Child.tag) \in Arrays
              THEN [sizes EXCEPT ![ArrayOf(Child.tag)] = @ + 1] ELSE sizes
  /\ child' = child + 1
  /\ UNCHANGED <<file, pass, nephew, config, realms, routes>>

AllocateArrays ==
  /\ pass = "count" /\ child > Len(file)
  /\ pass' = "read" /\ child' = 1
  /\ UNCHANGED <<file, nephew, config, sizes, realms, routes>>

\* The second pass comes to an element with one of these tags.
Meets(tags) == pass = "read" /\ nephew = 0 /\ child <= Len(file) /\ Child.tag \in tags

\* entry is the next of array a.
Fill(a, entry) ==
  /\ config' = [config EXCEPT ![a] = Append(@, entry)]
  /\ child' = child + 1
  /\ UNCHANGED <<file, pass, nephew, sizes, realms, routes>>

ReadPeer ==
  Meets({"Peer"}) /\ Fill("peers", [fqdn |-> Trimmed(Child.fqdn), realm |-> Trimmed(Child.realm)])

ReadAcceptor ==
  Meets({"Acceptor"}) /\ Fill("acceptors", [bind |-> Trimmed(Child.bind), port |-> Child.port])

ReadApplication ==
  /\ Meets({"Auth", "Acct"})
  /\ Fill("apps", [id |-> Child.id, vendor |-> Child.vendor,
                   type |-> IF Child.tag = "Auth" THEN "auth" ELSE "acct"])

ReadDefaultRoute ==
  /\ Meets({"DefaultRoute"})
  /\ routes' = Insert(routes, RouteOf(Child))
  /\ child' = child + 1
  /\ UNCHANGED <<file, pass, nephew, config, sizes, realms>>

\* A realm is put into the table first, and then gets its routes one by one.
ReadRealm ==
  /\ Meets({"Realm"})
  /\ realms' = Append(realms, [realm |-> Trimmed(Child.name), routes |-> <<>>])
  /\ nephew' = 1
  /\ UNCHANGED <<file, pass, child, config, sizes, routes>>

ReadRoute ==
  /\ nephew > 0 /\ nephew <= Len(Child.children)
  /\ realms' = [realms EXCEPT ![Len(realms)].routes = Insert(@, RouteOf(Child.children[nephew]))]
  /\ nephew' = nephew + 1
  /\ UNCHANGED <<file, pass, child, config, sizes, routes>>

EndRealm ==
  /\ nephew > 0 /\ nephew > Len(Child.children)
  /\ nephew' = 0 /\ child' = child + 1
  /\ UNCHANGED <<file, pass, config, sizes, realms, routes>>

ReadOther ==
  /\ pass = "read" /\ nephew = 0 /\ child <= Len(file)
  /\ Child.tag \notin {"Peer", "Acceptor", "Auth", "Acct", "DefaultRoute", "Realm"}
  /\ child' = child + 1
  /\ UNCHANGED <<file, pass, nephew, config, sizes, realms, routes>>

ConfigNext ==
  \/ Count \/ AllocateArrays
  \/ ReadPeer \/ ReadAcceptor \/ ReadApplication
  \/ ReadDefaultRoute \/ ReadRealm \/ ReadRoute \/ EndRealm \/ ReadOther

ConfigSpec == ConfigInit /\ [][ConfigNext]_configVars

(***************************** Properties ********************************)

\* The second pass never writes past the arrays that the first one sized, and when it
\* has ended they are full.
ArraysFit ==
  pass = "read" =>
    \A a \in Arrays :
      /\ Len(config[a]) <= sizes[a]
      /\ child > Len(file) => Len(config[a]) = sizes[a]

Ascending(list) ==
  \A i, j \in DOMAIN list : i < j => list[i].metric <= list[j].metric

\* list has the routes that the elements es describe at places, each once.
Described(list, es, places) ==
  \E f \in Bijection(DOMAIN list, places) : \A i \in DOMAIN list : list[i] = RouteOf(es[f[i]])

\* The children of the root with tag that the second pass has met.
Met(tag) ==
  IF pass = "count" THEN {}
  ELSE {i \in 1 .. Len(file) : file[i].tag = tag /\ (i < child \/ (i = child /\ nephew > 0))}

\* The children of the Realm at place i that it has met.
MetIn(i) == IF i = child THEN 1 .. nephew - 1 ELSE DOMAIN file[i].children

\* Routing tries the first default route: it is one with the least metric, whatever the
\* order of the file, and every one of the file is in the list once, and no other.
DefaultsSound == Ascending(routes) /\ Described(routes, file, Met("DefaultRoute"))

\* The realms are those of the file in its order, each with its routes.
RealmsSound ==
  \E f \in Bijection(DOMAIN realms, Met("Realm")) :
    /\ \A i, j \in DOMAIN realms : i < j => f[i] < f[j]
    /\ \A k \in DOMAIN realms :
         /\ realms[k].realm = Trimmed(file[f[k]].name)
         /\ Ascending(realms[k].routes)
         /\ Described(realms[k].routes, file[f[k]].children, MetIn(f[k]))

\* What a peer has read is what the file says.
ConfigSound == ArraysFit /\ DefaultsSound /\ RealmsSound

\* "Trim the quotes from a string and duplicate it" (configparser.c:94).
QuotesTrimmed ==
  \A i \in DOMAIN config.peers :
    \A k \in DOMAIN config.peers[i].fqdn : config.peers[i].fqdn[k] # QUOTE
============================================================================
