---------------------------- MODULE PeerManager -----------------------------
(***************************************************************************)
(* The peer manager (peermanager.c): the list of peers, receivers that     *)
(* look up the peer they are connected to, or add one for an unknown host, *)
(* and the timer that walks the list, frees unknown peers that are closed, *)
(* and logs the list.                                                      *)
(*                                                                         *)
(* The list is searched and changed under its lock, the timer holds it     *)
(* from peer to peer, and the two steps of adding an unknown host are two. *)
(* What a peer's state machine does in an event is PeerStateMachine's.     *)
(***************************************************************************)
EXTENDS Naturals, Sequences, SequencesExt

CONSTANTS
  Receivers,  \* receiver processes
  timer,      \* the timer process
  Known,      \* hosts of the configuration
  Unknown,    \* other hosts
  Blocks,     \* memory for peers
  NoPeer

\* Hosts and memory are what they are called, and there is memory for every peer of the
\* configuration.
ASSUME PmAssumption ==
  /\ IsFiniteSet(Known) /\ \E f \in [Known -> Blocks] : IsInjective(f)
  /\ Known \cap Unknown = {} /\ NoPeer \notin Known \cup Unknown \cup Blocks \cup {timer}

VARIABLES
  peerList,   \* the list of peers, from its head on
  peer,       \* what a block of memory holds; a freed one keeps it
  allocated,  \* the blocks that are allocated
  listLock,   \* peer_list_lock
  timerAt,    \* the peer the timer is at
  phase,      \* of the timer
  stage, host, held,  \* of a receiver: its step, its host and this_peer
  accept, drop     \* accept_unknown_peers, drop_unknown_peers

pmVars ==
  <<peerList, peer, allocated, listLock, timerAt, phase, stage, host, held, accept, drop>>
timerVars == <<timerAt, phase>>
pmConfig == <<accept, drop>>

AllHosts == Known \cup Unknown

Peer(h, dynamic) ==
  [fqdn |-> h, dynamic |-> dynamic, state |-> "Closed", waitingDWA |-> FALSE]

\* peer_manager_init.
PmInit ==
  /\ accept \in BOOLEAN /\ drop \in BOOLEAN
  /\ LET block == CHOOSE f \in [Known -> Blocks] : IsInjective(f)
     IN /\ allocated = {block[h] : h \in Known}
        /\ peer = [b \in Blocks |->
             Peer(IF b \in allocated THEN CHOOSE h \in Known : block[h] = b ELSE NoPeer, FALSE)]
  /\ peerList = SetToSeq(allocated)
  /\ listLock = NoPeer /\ timerAt = NoPeer /\ phase = "idle"
  /\ stage = [r \in Receivers |-> "idle"]
  /\ host = [r \in Receivers |-> NoPeer] /\ held = [r \in Receivers |-> NoPeer]

Found(h) == SelectInSeq(peerList, LAMBDA b : peer[b].fqdn = h)

(**************************** Receivers **********************************)

\* The search of get_peer_from_fqdn, of a receiver that got a CER.
Meet(r, h) ==
  /\ stage[r] = "idle" /\ listLock = NoPeer
  /\ Found(h) # 0 \/ accept
  /\ host' = [host EXCEPT ![r] = h]
  /\ IF Found(h) # 0
     THEN /\ held' = [held EXCEPT ![r] = peerList[Found(h)]]
          /\ stage' = [stage EXCEPT ![r] = "met"]
     ELSE /\ stage' = [stage EXCEPT ![r] = "add"]
          /\ UNCHANGED held
  /\ UNCHANGED <<peerList, peer, allocated, listLock, timerVars, pmConfig>>

\* The rest of get_peer_from_fqdn: new_peer, touch_peer and add_peer, which looks
\* for nobody.
AddPeer(r) ==
  /\ stage[r] = "add" /\ listLock = NoPeer
  /\ \E b \in Blocks \ allocated :
       /\ allocated' = allocated \cup {b}
       /\ peer' = [peer EXCEPT ![b] = Peer(host[r], TRUE)]
       /\ peerList' = Append(peerList, b)
       /\ held' = [held EXCEPT ![r] = b]
  /\ stage' = [stage EXCEPT ![r] = "met"]
  /\ UNCHANGED <<listLock, timerVars, host, pmConfig>>

\* sm_process on the CER; a peer with a connection refuses another.
OpenPeer(r) ==
  /\ stage[r] = "met"
  /\ peer' = [peer EXCEPT ![held[r]].state = IF @ = "Closed" THEN "Open" ELSE @]
  /\ stage' = [stage EXCEPT ![r] = "connected"]
  /\ UNCHANGED <<peerList, allocated, listLock, timerVars, host, held, pmConfig>>

\* A watch-dog answer.
Receive(r) ==
  /\ stage[r] = "connected"
  /\ peer' = [peer EXCEPT ![held[r]].waitingDWA = FALSE]
  /\ UNCHANGED <<peerList, allocated, listLock, timerVars, stage, host, held, pmConfig>>

\* The connection is lost: I_Peer_Disc or R_Peer_Disc, and the receiver exits.
Disconnect(r) ==
  /\ stage[r] = "connected"
  /\ peer' = [peer EXCEPT ![held[r]].state = "Closed"]
  /\ stage' = [stage EXCEPT ![r] = "idle"]
  /\ host' = [host EXCEPT ![r] = NoPeer] /\ held' = [held EXCEPT ![r] = NoPeer]
  /\ UNCHANGED <<peerList, allocated, listLock, timerVars, pmConfig>>

(******************************* Timer ***********************************)

After(b) ==
  LET i == SelectInSeq(peerList, LAMBDA c : c = b)
  IN IF i \in 1 .. Len(peerList) - 1 THEN peerList[i + 1] ELSE NoPeer

\* peer_timer.
StartTimer ==
  /\ phase = "idle" /\ listLock = NoPeer
  /\ listLock' = timer
  /\ timerAt' = IF peerList = <<>> THEN NoPeer ELSE peerList[1]
  /\ phase' = "walk"
  /\ UNCHANGED <<peerList, peer, allocated, stage, host, held, pmConfig>>

\* A mutant: configured peers are freed like unknown ones.
FreesAnyClosed(b) == peer[b].state = "Closed" /\ drop

\* Whether a peer is freed when it is quiet.
IsFreed(b) == peer[b].state = "Closed" /\ peer[b].dynamic /\ drop

\* remove_peer and free_peer.
FreePeer ==
  /\ phase = "walk" /\ timerAt # NoPeer /\ IsFreed(timerAt)
  /\ peerList' = RemoveFirst(peerList, timerAt)
  /\ allocated' = allocated \ {timerAt}
  /\ timerAt' = After(timerAt)
  /\ UNCHANGED <<peer, listLock, phase, stage, host, held, pmConfig>>

\* What the timer does to any other quiet peer: Start, Timeout, or the watch-dog.
Attended(p) ==
  CASE p.state = "Closed" -> [p EXCEPT !.state = "Wait"]
    [] p.state = "Wait" -> [p EXCEPT !.state = "Closed"]
    [] p.waitingDWA -> [p EXCEPT !.state = "Closed", !.waitingDWA = FALSE]
    [] OTHER -> [p EXCEPT !.waitingDWA = TRUE]

\* The timer goes on to the next peer; a peer is quiet when nothing came from it
\* for config->tc seconds.
NextPeer ==
  /\ phase = "walk" /\ timerAt # NoPeer
  /\ \E quiet \in BOOLEAN :
       /\ ~(quiet /\ IsFreed(timerAt))
       /\ peer' = [peer EXCEPT ![timerAt] = IF quiet THEN Attended(@) ELSE @]
  /\ timerAt' = After(timerAt)
  /\ UNCHANGED <<peerList, allocated, listLock, phase, stage, host, held, pmConfig>>

\* The lock is released before log_peer_list walks the list.
EndTimer ==
  /\ phase = "walk" /\ timerAt = NoPeer
  /\ listLock' = NoPeer
  /\ timerAt' = IF peerList = <<>> THEN NoPeer ELSE peerList[1]
  /\ phase' = "log"
  /\ UNCHANGED <<peerList, peer, allocated, stage, host, held, pmConfig>>

LogPeer ==
  /\ phase = "log"
  /\ timerAt' = IF timerAt = NoPeer THEN NoPeer ELSE After(timerAt)
  /\ phase' = IF timerAt = NoPeer THEN "idle" ELSE "log"
  /\ UNCHANGED <<peerList, peer, allocated, listLock, stage, host, held, pmConfig>>

\* peer_manager_destroy, when the timer process has exited; the lock stays held.
DestroyPeers ==
  /\ phase = "idle" /\ listLock = NoPeer
  /\ listLock' = timer /\ phase' = "destroyed"
  /\ peerList' = <<>> /\ allocated' = {}
  /\ UNCHANGED <<peer, timerAt, stage, host, held, pmConfig>>

PmNext ==
  \/ \E r \in Receivers :
       \/ \E h \in AllHosts : Meet(r, h)
       \/ AddPeer(r) \/ OpenPeer(r) \/ Receive(r) \/ Disconnect(r)
  \/ StartTimer \/ FreePeer \/ NextPeer \/ EndTimer \/ LogPeer \/ DestroyPeers

PmSpec == PmInit /\ [][PmNext]_pmVars

(***************************** Properties ********************************)

\* A host of the configuration has one peer for good, the one every receiver that
\* meets it gets, however peers of unknown hosts come and go (get_peer_from_fqdn,
\* peer_timer).
KnownHostOnce ==
  phase # "destroyed" =>
    \A h \in Known : \E b \in allocated :
      /\ Contains(peerList, b)
      /\ \A c \in allocated : peer[c].fqdn = h <=> c = b
      /\ \A r \in Receivers : host[r] = h => held[r] = b

\* log_peer_list reads no freed peer, although "must have lock on peer_list_lock when
\* calling this!!!" is not so: only the timer process removes peers (peer_timer).
LogReadsLive == phase = "log" => timerAt \in allocated \cup {NoPeer}

\* Configured hosts keep their one peer, and the log of the list reads no freed one.
PeersListed == KnownHostOnce /\ LogReadsLive

\* A receiver's this_peer is allocated: violated when the timer frees a closed peer of
\* an unknown host between the search and the CER, or before the receiver has left.
HeldPeersLive ==
  phase # "destroyed" => \A r \in Receivers : held[r] \in allocated \cup {NoPeer}

\* An unknown host has one peer: violated by two receivers that both search first.
UnknownHostOnce ==
  \A b, c \in allocated : peer[b].fqdn = peer[c].fqdn => b = c
=============================================================================
