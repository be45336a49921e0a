---------------------------- MODULE Capabilities ----------------------------
(***************************************************************************)
(* The exchange of capabilities (cdp/peerstatemachine.c): each side offers *)
(* the applications of its configuration in its CER or CEA, refuses a peer *)
(* without a common one, and saves those of the other in p->applications.  *)
(* When both connect at once they hold an election.                        *)
(*                                                                         *)
(* The exchange runs under the lock of the peer. Whoever routes a message  *)
(* reads p->state and p->applications without it (routing.c), so the steps *)
(* of save_peer_applications are those between two writes of them. Memory  *)
(* suffices, and what is freed is not handed out again before Process_CEA  *)
(* has read it (it frees the CEA before it reads the Result-Code).         *)
(***************************************************************************)
EXTENDS Integers, Sequences, SequencesExt

CONSTANTS
  Local,     \* config->applications
  Remotes,   \* what those of the other side may be
  Names,     \* names that the two sides may have: sequences of bytes
  Wanted,    \* the identifier and the vendor that a message is routed for
  AppBlocks, \* shared memory for p->applications
  NoApps

\* The applications of both sides are what Offered can say and Named reads back.
Apps == [id : Nat, vendor : Nat, type : {"auth", "acct"}]

ASSUME CapAssumption ==
  /\ Local \in Seq(Apps) /\ Remotes \subseteq Seq(Apps) /\ Names \subseteq Seq(Nat)
  /\ NoApps \notin AppBlocks

VARIABLES
  remote,    \* the applications of the other side
  local,     \* config->fqdn
  origin,    \* the Origin-Host of the other side
  state,     \* p->state: "closed", "wait" (for a CEA), "returns" (of an election), "open"
  then,      \* the state that follows the exchange
  step,      \* where save_peer_applications is; "idle" while p->lock is free
  todo,      \* AVPs that it has not looked at
  apps, cnt, \* p->applications, p->applications_cnt
  mem, size, \* the contents and the size of the blocks
  used,      \* the blocks that are allocated
  asking,    \* where peer_handles_application is
  entry,     \* i of peer_handles_application
  seenApps, seenCnt,  \* what it has read of p->applications and p->applications_cnt
  renewed    \* an exchange began after the state was read

sideVars == <<remote, local, origin>>
saveVars == <<todo, apps, cnt, mem, size, used>>
readVars == <<asking, entry, seenApps, seenCnt>>
capVars == <<sideVars, state, then, step, saveVars, readVars, renewed>>

(**************************** Capabilities *******************************)

App(id, vendor, type) == [id |-> id, vendor |-> vendor, type |-> type]

\* Snd_CE_add_applications: an AVP of its own, or a group if there is a vendor.
Avp(app) ==
  IF app.vendor = 0 THEN [code |-> app.type, id |-> app.id]
  ELSE [code |-> "group", vendor |-> app.vendor, member |-> [code |-> app.type, id |-> app.id]]

Offered(config) == [i \in DOMAIN config |-> Avp(config[i])]

\* The application an AVP names.
Named(avp) ==
  IF avp.code = "group" THEN App(avp.member.id, avp.vendor, avp.member.code)
  ELSE App(avp.id, 0, avp.code)

\* A mutant: an identifier is added once, whatever its type.
AddedOnce(list, app) ==
  IF \E i \in DOMAIN list : list[i].id = app.id /\ list[i].vendor = app.vendor
  THEN list ELSE Append(list, app)

\* add_peer_application.
Added(list, app) == IF Contains(list, app) THEN list ELSE Append(list, app)

\* Process_CER: whether the other side has an application of this one.
Common(config, avps) ==
  \E i \in DOMAIN avps, j \in DOMAIN config : Named(avps[i]) = config[j]

\* Elect: the names are compared byte by byte, and the longer one wins.
Elect(mine, theirs) ==
  LET n == CHOOSE k \in {Len(mine), Len(theirs)} : k <= Len(mine) /\ k <= Len(theirs)
      differ == {i \in 1 .. n : mine[i] # theirs[i]}
  IN  \/ differ = {} /\ Len(mine) > Len(theirs)
      \/ \E i \in differ : (\A j \in differ : i <= j) /\ mine[i] > theirs[i]

CapInit ==
  /\ remote \in Remotes /\ local \in Names /\ origin \in Names \ {local}
  /\ state = "closed" /\ then = "closed" /\ step = "idle" /\ todo = <<>>
  /\ apps = NoApps /\ cnt = 0 /\ used = {}
  /\ mem = [b \in AppBlocks |-> <<>>] /\ size = [b \in AppBlocks |-> 0]
  /\ asking = "idle" /\ entry = 0 /\ seenApps = NoApps /\ seenCnt = 0 /\ renewed = FALSE

(***************************** The exchange ******************************)

ConnectPeer ==
  /\ step = "idle" /\ state = "closed"
  /\ state' = "wait"
  /\ UNCHANGED <<sideVars, then, step, saveVars, readVars, renewed>>

DisconnectPeer ==
  /\ step = "idle" /\ state # "closed"
  /\ state' = "closed"
  /\ UNCHANGED <<sideVars, then, step, saveVars, readVars, renewed>>

\* save_peer_applications begins, and next is the state after it. A mutant: the state
\* changes first.
SavesOpen(next) ==
  /\ step' = "free" /\ todo' = Offered(remote)
  /\ then' = next /\ state' = next
  /\ renewed' = TRUE

Saves(next) ==
  /\ step' = "free" /\ todo' = Offered(remote)
  /\ then' = next /\ state' = state
  /\ renewed' = TRUE

\* Process_CER and Snd_CEA, when the peer is closed or after an election that was won
\* (Win_Election calls Process_CER a second time, with the same result).
ReceiveCER ==
  /\ step = "idle"
  /\ state = "closed" \/ (state = "wait" /\ Elect(local, origin))
  /\ \/ Common(Local, Offered(remote)) /\ Saves("open")
     \/ /\ ~Common(Local, Offered(remote))
        /\ state' = "closed" /\ UNCHANGED <<then, step, todo, renewed>>
  /\ UNCHANGED <<sideVars, apps, cnt, mem, size, used, readVars>>

\* Process_CER and an election that is lost.
LoseElection ==
  /\ step = "idle" /\ state = "wait" /\ ~Elect(local, origin)
  /\ \/ Common(Local, Offered(remote)) /\ Saves("returns")
     \/ /\ ~Common(Local, Offered(remote))
        /\ state' = "returns" /\ UNCHANGED <<then, step, todo, renewed>>
  /\ UNCHANGED <<sideVars, apps, cnt, mem, size, used, readVars>>

\* Process_CEA: the applications are saved whatever the Result-Code, which the other
\* side has from its own Process_CER.
ReceiveCEA ==
  /\ step = "idle" /\ state \in {"wait", "returns"}
  /\ Saves(IF Common(remote, Offered(Local)) THEN "open" ELSE "closed")
  /\ UNCHANGED <<sideVars, apps, cnt, mem, size, used, readVars>>

(************************ save_peer_applications *************************)

FreeApps ==
  /\ step = "free"
  /\ used' = used \ {apps}
  /\ step' = IF apps = NoApps THEN "alloc" ELSE "null"
  /\ UNCHANGED <<sideVars, state, then, todo, apps, cnt, mem, size, readVars, renewed>>

SetNull ==
  /\ step = "null"
  /\ apps' = NoApps
  /\ step' = "zero"
  /\ UNCHANGED <<sideVars, state, then, todo, cnt, mem, size, used, readVars, renewed>>

SetZero ==
  /\ step = "zero"
  /\ cnt' = 0
  /\ step' = "alloc"
  /\ UNCHANGED <<sideVars, state, then, todo, apps, mem, size, used, readVars, renewed>>

\* Room for two applications per AVP. A block keeps its contents.
Allocate ==
  /\ step = "alloc"
  /\ cnt' = 0
  /\ \E b \in AppBlocks \ used :
       /\ apps' = b /\ used' = used \cup {b}
       /\ size' = [size EXCEPT ![b] = 2 * Len(todo)]
  /\ step' = "add"
  /\ UNCHANGED <<sideVars, state, then, todo, mem, readVars, renewed>>

\* add_peer_application for the next AVP: the entry first, then the count.
Add ==
  /\ step = "add" /\ todo # <<>>
  /\ LET list == Added(SubSeq(mem[apps], 1, cnt), Named(Head(todo))) IN
     /\ mem' = [mem EXCEPT ![apps] = list \o SubSeq(@, Len(list) + 1, Len(@))]
     /\ cnt' = Len(list)
  /\ todo' = Tail(todo)
  /\ UNCHANGED <<sideVars, state, then, step, apps, size, used, readVars, renewed>>

Saved ==
  /\ step = "add" /\ todo = <<>>
  /\ state' = then
  /\ step' = "idle"
  /\ UNCHANGED <<sideVars, then, saveVars, readVars, renewed>>

(*********************** peer_handles_application ************************)

\* p->state == I_Open || p->state == R_Open.
Look ==
  /\ asking \in {"idle", "yes", "no"} /\ state = "open"
  /\ asking' = "test" /\ entry' = 1 /\ seenApps' = NoApps /\ seenCnt' = 0
  /\ renewed' = FALSE
  /\ UNCHANGED <<sideVars, state, then, step, saveVars>>

TestApps ==
  /\ asking = "test"
  /\ asking' = IF apps = NoApps \/ cnt = 0 THEN "no" ELSE "loop"
  /\ seenApps' = apps /\ seenCnt' = cnt
  /\ UNCHANGED <<sideVars, state, then, step, saveVars, entry, renewed>>

Matches(app) == app.id = Wanted.id /\ app.vendor = Wanted.vendor

\* One turn of the loop. The compiler may keep what it has read or read it again; a
\* block that was freed may hold anything.
NextApp ==
  /\ asking = "loop"
  /\ \E c \in {seenCnt, cnt}, a \in {seenApps, apps} :
       IF entry > c THEN asking' = "no" /\ UNCHANGED entry
       ELSE IF a = NoApps THEN asking' = "dead" /\ UNCHANGED entry
       ELSE LET known == a \in used /\ entry <= Len(mem[a]) IN
            \/ /\ known => Matches(mem[a][entry])
               /\ asking' = "yes" /\ UNCHANGED entry
            \/ /\ known => ~Matches(mem[a][entry])
               /\ asking' = "loop" /\ entry' = entry + 1
  /\ UNCHANGED <<sideVars, state, then, step, saveVars, seenApps, seenCnt, renewed>>

CapNext ==
  \/ ConnectPeer \/ DisconnectPeer \/ ReceiveCER \/ LoseElection \/ ReceiveCEA
  \/ FreeApps \/ SetNull \/ SetZero \/ Allocate \/ Add \/ Saved
  \/ Look \/ TestApps \/ NextApp

CapSpec == CapInit /\ [][CapNext]_capVars

(***************************** Properties ********************************)

\* An open peer has an application in common with this side, whichever side connected,
\* and its applications are known exactly, each once, within the memory allocated for
\* them; and of two sides that connect to each other one wins the election
\* (Process_CER, Process_CEA, save_peer_applications, Elect).
PeerIsKnown ==
  /\ state = "open" =>
       /\ ToSet(remote) \cap ToSet(Local) # {}
       /\ apps \in used /\ ToSet(SubSeq(mem[apps], 1, cnt)) = ToSet(remote)
       /\ IsInjective(SubSeq(mem[apps], 1, cnt))
  /\ apps # NoApps /\ step \in {"idle", "add"} => cnt <= size[apps]
  /\ Elect(local, origin) # Elect(origin, local)

\* Without the lock, whoever routes a message still learns truly whether the peer
\* handles its application, and lives, unless the peer has begun another exchange
\* since its state was read (peer_handles_application).
ReaderIsRight ==
  ~renewed =>
    /\ asking # "dead"
    /\ asking \in {"yes", "no"} =>
         (asking = "yes" <=> \E i \in DOMAIN remote : Matches(remote[i]))
============================================================================
