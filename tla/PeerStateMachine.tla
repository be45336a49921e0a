-------------------------- MODULE PeerStateMachine --------------------------
(***************************************************************************)
(* One configured peer of the C Diameter Peer: its state machine           *)
(* (cdp/peerstatemachine.c sm_process), and the processes that drive it:   *)
(* the timer process, which connects to the peer and watches it            *)
(* (cdp/peermanager.c peer_timer), and one receiver process per            *)
(* connection, initiated by the timer process or accepted by the acceptor  *)
(* (cdp/receiver.c, cdp/tcp_accept.c).                                     *)
(*                                                                         *)
(* The peer is shared memory under p->lock, but a socket is a descriptor   *)
(* number: it means something only in the processes that have it open, two *)
(* processes may use one number for two connections, and close() closes it *)
(* in the calling process only.  A receiver decides on an event from the   *)
(* state it reads without the lock and raises it later under the lock.     *)
(***************************************************************************)
EXTENDS Integers, FiniteSets

CONSTANTS
    InConns,   \* connections the timer process may initiate
    AcConns,   \* connections the acceptor may accept
    Fds,       \* descriptor numbers of sockets
    Elections, \* outcomes of Elect: TRUE, this host wins
    MaxMsgs,   \* bound: messages received
    Timer,     \* the timer process
    None

Conns == InConns \cup AcConns

ASSUME ConnAssumption ==
    /\ InConns \cap AcConns = {}
    /\ ({Timer, None} \cup BOOLEAN) \cap Conns = {} /\ Timer # None
ASSUME FdAssumption == Fds \subseteq Nat \ {0}
ASSUME BoundAssumption == Elections \subseteq BOOLEAN /\ MaxMsgs \in Nat

VARIABLES
    state, I_sock, R_sock,  \* of the peer
    waitingDWA,   \* a watch-dog request was sent and not answered
    quiet,        \* config->tc seconds without activity have passed
    send_pipe,    \* the connection whose pipe the peer's messages go to
    lock,         \* holder of p->lock
    connecting,   \* FALSE, or TRUE while I_Snd_Conn_Req runs, or its result
    timerFds, acceptorFds,  \* sockets open in these two processes
    pc,           \* where each receiver process is
    fd,           \* its socket
    open,         \* whether the socket is open in the receiver process
    knows,        \* whether this_peer is set in the receiver process
    event,        \* the event it is about to raise
    msgs          \* messages received so far

sockets == <<I_sock, R_sock>>
flags == <<waitingDWA, send_pipe>>
peerVars == <<state, sockets, flags, quiet>>
tables == <<timerFds, acceptorFds>>
conns == <<pc, fd, open, knows, event>>
vars == <<peerVars, lock, connecting, tables, conns, msgs>>

States == {"Closed", "Wait_Conn_Ack", "Wait_I_CEA", "Wait_Returns",
           "R_Open", "I_Open"}
Opens == {"R_Open", "I_Open"}
Kinds == {"CER", "CEA", "DWR", "DWA", "DPR", "DPA", "Message"}
Events == {"I", "R"} \X (Kinds \cup {"Conn_CER", "Non_CEA"})
NoSock == -1

Init ==
    /\ state = "Closed" /\ I_sock = NoSock /\ R_sock = NoSock
    /\ waitingDWA = FALSE /\ quiet = TRUE /\ send_pipe = None
    /\ lock = None /\ connecting = FALSE
    /\ timerFds = {} /\ acceptorFds = {}
    /\ pc = [c \in Conns |-> "unborn"]
    /\ fd = [c \in Conns |-> NoSock]
    /\ open = [c \in Conns |-> FALSE]
    /\ knows = [c \in Conns |-> FALSE]
    /\ event = [c \in Conns |-> None]
    /\ msgs = 0

\* The peer after an event.
Peer(s, i, r) == state' = s /\ I_sock' = i /\ R_sock' = r

\* close(n) in a receiver process or in the timer process.
CloseIn(c, n) == open' = [open EXCEPT ![c] = @ /\ fd[c] # n]
CloseInTimer(S) == timerFds' = timerFds \ S

\* A new receiver process on descriptor f.
Fork(c, f, k) ==
    /\ pc' = [pc EXCEPT ![c] = "idle"]
    /\ fd' = [fd EXCEPT ![c] = f]
    /\ open' = [open EXCEPT ![c] = TRUE]
    /\ knows' = [knows EXCEPT ![c] = k]

(***************************************************************************)
(* The timer process.                                                      *)
(***************************************************************************)
TimePasses ==
    /\ ~quiet
    /\ quiet' = TRUE
    /\ UNCHANGED <<state, sockets, flags, lock, connecting, tables, conns, msgs>>

\* Closed: Start.  The lock is held while the process connects.
TimerStart ==
    /\ quiet /\ lock = None /\ state = "Closed"
    /\ Peer("Wait_Conn_Ack", NoSock, R_sock)
    /\ CloseInTimer({I_sock})
    /\ quiet' = FALSE
    /\ lock' = Timer
    /\ connecting' = TRUE
    /\ UNCHANGED <<flags, acceptorFds, conns, msgs>>

\* peer_connect: the receiver process is forked before I_sock is assigned.
Connect(c) ==
    /\ connecting = TRUE /\ pc[c] = "unborn"
    /\ \E f \in Fds \ timerFds :
        /\ Fork(c, f, TRUE)
        /\ timerFds' = timerFds \cup {f}
    /\ send_pipe' = c
    /\ connecting' = c
    /\ UNCHANGED <<state, sockets, waitingDWA, quiet, lock, acceptorFds, event, msgs>>

\* I_Rcv_Conn_Ack: I_Snd_CER.
ConnectAck ==
    /\ connecting \in InConns
    /\ Peer("Wait_I_CEA", fd[connecting], R_sock)
    /\ lock' = None
    /\ connecting' = FALSE
    /\ UNCHANGED <<flags, quiet, tables, conns, msgs>>

ConnectNAck ==
    /\ connecting = TRUE
    /\ Peer("Closed", NoSock, R_sock)
    /\ lock' = None
    /\ connecting' = FALSE
    /\ UNCHANGED <<flags, quiet, tables, conns, msgs>>

\* Mutant of TimerTimeout: peer_timer has no case for Wait_I_CEA.
TimeoutOnlyElection ==
    /\ quiet /\ lock = None /\ state = "Wait_Returns"
    /\ Peer("Closed", NoSock, NoSock)
    /\ CloseInTimer({I_sock, R_sock})
    /\ quiet' = FALSE
    /\ UNCHANGED <<flags, lock, connecting, acceptorFds, conns, msgs>>

\* Timeout: Error on the sockets.
TimerTimeout ==
    /\ quiet /\ lock = None /\ state \in {"Wait_I_CEA", "Wait_Returns"}
    /\ \/ /\ state = "Wait_I_CEA"
          /\ Peer("Closed", NoSock, IF R_sock = I_sock THEN NoSock ELSE R_sock)
          /\ CloseInTimer({I_sock})
       \/ /\ state = "Wait_Returns"
          /\ Peer("Closed", NoSock, NoSock)
          /\ CloseInTimer({I_sock, R_sock})
    /\ quiet' = FALSE
    /\ UNCHANGED <<flags, lock, connecting, acceptorFds, conns, msgs>>

\* Mutant of TimerProbe: waitingDWA is not set.
ProbeForgets ==
    /\ quiet /\ lock = None /\ state \in Opens /\ ~waitingDWA
    /\ quiet' = FALSE
    /\ UNCHANGED <<state, sockets, flags, lock, connecting, tables, conns, msgs>>

\* Inactivity: a watch-dog request (Snd_DWR fails silently without a pipe).
TimerProbe ==
    /\ quiet /\ lock = None /\ state \in Opens /\ ~waitingDWA
    /\ waitingDWA' = TRUE
    /\ quiet' = FALSE
    /\ UNCHANGED <<state, sockets, send_pipe, lock, connecting, tables, conns, msgs>>

\* No answer: I_Peer_Disc or R_Peer_Disc.
TimerGiveUp ==
    /\ quiet /\ lock = None /\ waitingDWA
    /\ \/ /\ state = "I_Open"
          /\ Peer("Closed", NoSock, R_sock) /\ CloseInTimer({I_sock})
       \/ /\ state = "R_Open"
          /\ Peer("Closed", I_sock, NoSock) /\ CloseInTimer({R_sock})
    /\ waitingDWA' = FALSE
    /\ UNCHANGED <<quiet, send_pipe, lock, connecting, acceptorFds, conns, msgs>>

(***************************************************************************)
(* The acceptor.  It never closes a socket.                                *)
(***************************************************************************)
Accept(c) ==
    /\ pc[c] = "unborn"
    /\ \E f \in Fds \ acceptorFds :
        /\ Fork(c, f, FALSE)
        /\ acceptorFds' = acceptorFds \cup {f}
    /\ UNCHANGED <<peerVars, lock, connecting, timerFds, event, msgs>>

(***************************************************************************)
(* A receiver process reads a message: receive_message.                    *)
(***************************************************************************)
\* this_peer is set, or get_peer_from_sock finds the number at the peer.  The
\* timer process holds peer_list_lock as long as it connects.
Recognised(c) == knows[c] \/ fd[c] \in {I_sock, R_sock}

Decide(k) ==
    CASE state = "Wait_I_CEA" -> <<"I", IF k = "CEA" THEN "CEA" ELSE "Non_CEA">>
      [] state = "I_Open" -> <<"I", k>>
      [] state = "R_Open" -> <<"R", k>>
      [] OTHER -> None

Raise(c, e) ==
    /\ event' = [event EXCEPT ![c] = e]
    /\ pc' = [pc EXCEPT ![c] = IF e = None THEN "idle" ELSE "event"]

Receive(c) ==
    /\ pc[c] = "idle" /\ open[c] /\ msgs < MaxMsgs
    /\ knows[c] \/ lock # Timer
    /\ msgs' = msgs + 1
    /\ \E k \in Kinds :
        \/ /\ Recognised(c)
           /\ quiet' = FALSE
           /\ Raise(c, Decide(k))
           /\ knows' = [knows EXCEPT ![c] = TRUE]
           /\ send_pipe' = IF knows[c] THEN send_pipe ELSE c
        \/ /\ ~Recognised(c) /\ k = "CER"
           /\ Raise(c, <<"R", "Conn_CER">>)
           /\ knows' = [knows EXCEPT ![c] = TRUE]
           /\ send_pipe' = c
           /\ UNCHANGED quiet
    /\ UNCHANGED <<state, sockets, waitingDWA, lock, connecting, tables, fd, open>>

(***************************************************************************)
(* sm_process, under the lock.                                             *)
(***************************************************************************)
Locked(c, es) == pc[c] = "event" /\ lock = None /\ event[c] \in es
Handled(c) ==
    /\ pc' = [pc EXCEPT ![c] = "idle"]
    /\ event' = [event EXCEPT ![c] = None]
    /\ UNCHANGED <<lock, connecting, tables, fd, knows, msgs>>

\* Mutant of AcceptPeer: R_Accept writes I_sock.
AcceptSwapped(c) ==
    /\ state = "Closed"
    /\ Peer("R_Open", fd[c], R_sock)
    /\ quiet' = FALSE
    /\ UNCHANGED <<flags, open>>

\* R_Conn_CER.  ok: there is a common application; sent: the answer could be
\* written.  R_Peer_Disc raised by a failed write is invalid in Closed.
AcceptPeer(c) ==
    /\ state = "Closed"
    /\ \/ Peer("R_Open", I_sock, fd[c]) /\ UNCHANGED open
       \/ Peer("Closed", I_sock, NoSock) /\ CloseIn(c, fd[c])
    /\ quiet' = FALSE
    /\ UNCHANGED flags

\* In Wait_I_CEA the winner drops its own connection (I_Disc, in the wrong
\* process) and answers; a failed write drops the other one too.
WinElection(c) ==
    /\ state = "Wait_I_CEA" /\ TRUE \in Elections
    /\ \/ fd[c] # I_sock /\ Peer("R_Open", NoSock, fd[c]) /\ UNCHANGED open
       \/ Peer("R_Open", NoSock, NoSock) /\ CloseIn(c, fd[c])
       \/ Peer("Closed", NoSock, NoSock) /\ CloseIn(c, fd[c])
    /\ quiet' = FALSE
    /\ UNCHANGED flags

LoseElection(c) ==
    /\ state = "Wait_I_CEA" /\ FALSE \in Elections
    /\ Peer("Wait_Returns", I_sock, fd[c])
    /\ quiet' = FALSE
    /\ UNCHANGED <<flags, open>>

\* R_Reject: of the new connection, or, in Wait_Returns, of p->R_sock.
RejectPeer(c) ==
    /\ state \in Opens \cup {"Wait_Returns"}
    /\ CloseIn(c, IF state = "Wait_Returns" THEN R_sock ELSE fd[c])
    /\ UNCHANGED <<state, sockets, flags, quiet>>

ConnCER(c) ==
    /\ Locked(c, {<<"R", "Conn_CER">>})
    /\ AcceptPeer(c) \/ WinElection(c) \/ LoseElection(c) \/ RejectPeer(c)
    /\ Handled(c)

\* Mutants of Capabilities: the state is not tested again under the lock;
\* I_Rcv_Non_CEA falls through to I_Rcv_CEA.
CapabilitiesStale(c) ==
    /\ Locked(c, {<<"I", "CEA">>})
    /\ Peer("I_Open", I_sock, R_sock)
    /\ UNCHANGED <<flags, quiet, open>>
    /\ Handled(c)

NonCEAFallsThrough(c) ==
    /\ Locked(c, {<<"I", "CEA">>, <<"I", "Non_CEA">>}) /\ state = "Wait_I_CEA"
    /\ Peer("I_Open", I_sock, R_sock)
    /\ UNCHANGED <<flags, quiet, open>>
    /\ Handled(c)

\* The answer to our CER, or another message instead of it.  Whichever
\* receiver process got it, it is taken for the answer.
Capabilities(c) ==
    /\ Locked(c, {<<"I", "CEA">>, <<"I", "Non_CEA">>}) /\ state = "Wait_I_CEA"
    /\ \/ event[c] = <<"I", "CEA">> /\ Peer("I_Open", I_sock, R_sock) /\ UNCHANGED open
       \/ /\ Peer("Closed", NoSock, IF R_sock = I_sock THEN NoSock ELSE R_sock)
          /\ CloseIn(c, I_sock)
    /\ UNCHANGED <<flags, quiet>>
    /\ Handled(c)

\* The answer, decided on before the election was lost, ends it: R_Disc.
LateCapabilities(c) ==
    /\ Locked(c, {<<"I", "CEA">>}) /\ state = "Wait_Returns"
    /\ \/ Peer("I_Open", I_sock, NoSock) /\ CloseIn(c, R_sock)
       \/ /\ Peer("Closed", NoSock, NoSock)
          /\ open' = [open EXCEPT ![c] = @ /\ fd[c] \notin {I_sock, R_sock}]
    /\ UNCHANGED <<flags, quiet>>
    /\ Handled(c)

\* Messages in the open state of the event's side.
OpenAs(e) == state = (IF e[1] = "I" THEN "I_Open" ELSE "R_Open")

\* A CEA in an open state, a watch-dog message, or a message for the workers
\* (put_task, after the lock is released).
Traffic(c) ==
    /\ Locked(c, {"I", "R"} \X {"CEA", "DWR", "DWA", "Message"}) /\ OpenAs(event[c])
    /\ waitingDWA' = (waitingDWA /\ event[c][2] # "DWA")
    /\ UNCHANGED <<state, sockets, send_pipe, quiet, open>>
    /\ Handled(c)

\* A CER in an open state is answered; when the write fails Peer_Disc is
\* raised in between, but the state is set to open again.
CapabilitiesAgain(c) ==
    /\ Locked(c, {<<"I", "CER">>, <<"R", "CER">>}) /\ OpenAs(event[c])
    /\ \/ UNCHANGED <<state, sockets, open>>
       \/ event[c][1] = "I" /\ Peer("I_Open", NoSock, R_sock) /\ CloseIn(c, I_sock)
       \/ event[c][1] = "R" /\ Peer("R_Open", I_sock, NoSock) /\ CloseIn(c, R_sock)
    /\ UNCHANGED <<flags, quiet>>
    /\ Handled(c)

\* Both sides do R_Disc.
DisconnectRequest(c) ==
    /\ Locked(c, {<<"I", "DPR">>, <<"R", "DPR">>}) /\ OpenAs(event[c])
    /\ Peer("Closed", I_sock, NoSock)
    /\ CloseIn(c, R_sock)
    /\ UNCHANGED <<flags, quiet>>
    /\ Handled(c)

\* The state has changed since the event was decided, or the event (a DPA)
\* is invalid in it: nothing happens.
Invalid(c) ==
    /\ pc[c] = "event" /\ lock = None
    /\ LET e == event[c] IN
         CASE e[2] = "Conn_CER" -> FALSE
           [] e[2] = "DPA" -> TRUE
           [] e = <<"I", "CEA">> -> state \notin {"Wait_I_CEA", "Wait_Returns", "I_Open"}
           [] e[2] = "Non_CEA" -> state # "Wait_I_CEA"
           [] OTHER -> ~OpenAs(e)
    /\ UNCHANGED <<peerVars, open>>
    /\ Handled(c)

(***************************************************************************)
(* The connection is lost: the end of receive_loop and receiver_process.   *)
(***************************************************************************)
GoTo(c, l) == pc' = [pc EXCEPT ![c] = l]

Lose(c) ==
    /\ pc[c] = "idle"
    /\ GoTo(c, IF knows[c] THEN "lostI" ELSE "cleanup")
    /\ UNCHANGED <<peerVars, lock, connecting, tables, fd, open, knows, event, msgs>>

\* Two tests without the lock, each followed by its event.
LostTest(c) ==
    /\ \/ /\ pc[c] = "lostI"
          /\ GoTo(c, IF fd[c] = I_sock THEN "discI" ELSE "lostR")
       \/ /\ pc[c] = "lostR"
          /\ GoTo(c, IF fd[c] = R_sock THEN "discR" ELSE "cleanup")
    /\ UNCHANGED <<peerVars, lock, connecting, tables, fd, open, knows, event, msgs>>

\* Mutant of LostInitiator: the lock is not released for an invalid event.
ErrorKeepsLock(c) ==
    /\ pc[c] = "discI" /\ lock = None
    /\ \/ /\ state \in {"Wait_I_CEA", "I_Open"}
          /\ Peer("Closed", NoSock, R_sock)
          /\ CloseIn(c, I_sock)
          /\ UNCHANGED lock
       \/ /\ state \in {"Closed", "R_Open"}
          /\ lock' = c
          /\ UNCHANGED <<state, sockets, open>>
    /\ GoTo(c, "lostR")
    /\ UNCHANGED <<flags, quiet, connecting, tables, fd, knows, event, msgs>>

\* I_Peer_Disc.  In Wait_Returns Process_CER is called without a message: the
\* process dies with the lock in its hands.
LostInitiator(c) ==
    /\ pc[c] = "discI" /\ lock = None
    /\ \/ /\ state \in {"Wait_I_CEA", "I_Open"}
          /\ Peer("Closed", NoSock, R_sock)
          /\ CloseIn(c, I_sock)
          /\ GoTo(c, "lostR") /\ UNCHANGED lock
       \/ /\ state = "Wait_Returns"
          /\ Peer(state, NoSock, R_sock)
          /\ CloseIn(c, I_sock)
          /\ GoTo(c, "crashed") /\ lock' = c
       \/ /\ state \in {"Closed", "R_Open"}
          /\ GoTo(c, "lostR")
          /\ UNCHANGED <<state, sockets, open, lock>>
    /\ UNCHANGED <<flags, quiet, connecting, tables, fd, knows, event, msgs>>

LostReceiver(c) ==
    /\ pc[c] = "discR" /\ lock = None
    /\ \/ /\ state \in {"Wait_Returns", "R_Open"}
          /\ Peer(IF state = "R_Open" THEN "Closed" ELSE "Wait_I_CEA", I_sock, NoSock)
          /\ CloseIn(c, R_sock)
       \/ state \in {"Closed", "Wait_I_CEA", "I_Open"} /\ UNCHANGED <<state, sockets, open>>
    /\ GoTo(c, "cleanup")
    /\ UNCHANGED <<flags, quiet, lock, connecting, tables, fd, knows, event, msgs>>

\* The send pipe of the peer is cleared, whosever it is.
Exit(c) ==
    /\ pc[c] = "cleanup"
    /\ knows[c] => lock = None
    /\ send_pipe' = IF knows[c] THEN None ELSE send_pipe
    /\ open' = [open EXCEPT ![c] = FALSE]
    /\ GoTo(c, "exited")
    /\ UNCHANGED <<state, sockets, waitingDWA, quiet, lock, connecting, tables,
                   fd, knows, event, msgs>>

TimerStep ==
    \/ TimerStart \/ (\E c \in InConns : Connect(c)) \/ ConnectAck \/ ConnectNAck
    \/ TimerTimeout \/ TimerProbe \/ TimerGiveUp

\* What a receiver process does by itself.
ReceiverStep(c) ==
    \/ ConnCER(c) \/ Capabilities(c) \/ LateCapabilities(c) \/ Traffic(c)
    \/ CapabilitiesAgain(c) \/ DisconnectRequest(c) \/ Invalid(c)
    \/ LostTest(c) \/ LostInitiator(c) \/ LostReceiver(c) \/ Exit(c)

\* What the network may do.
Network ==
    \/ \E c \in AcConns : Accept(c)
    \/ \E c \in Conns : Receive(c) \/ Lose(c)

Next ==
    \/ TimePasses
    \/ TimerStep
    \/ \E c \in Conns : ReceiverStep(c)
    \/ Network

Spec == Init /\ [][Next]_vars

\* Time passes, and every process that can run is scheduled.  A receiver that
\* waits for the lock gets it in the config->tc seconds between two connection
\* attempts.  select() fails on a socket the process has closed itself.
Fairness ==
    /\ WF_vars(TimePasses)
    /\ WF_vars(TimerStep)
    /\ \A c \in Conns : SF_vars(ReceiverStep(c)) /\ WF_vars(~open[c] /\ Lose(c))

FairSpec == Spec /\ Fairness

(***************************************************************************)
(* Properties.                                                             *)
(***************************************************************************)
\* Every variable has its type.
TypeOK ==
    /\ state \in States
    /\ I_sock \in Fds \cup {NoSock} /\ R_sock \in Fds \cup {NoSock}
    /\ waitingDWA \in BOOLEAN /\ quiet \in BOOLEAN
    /\ send_pipe \in Conns \cup {None}
    /\ lock \in Conns \cup {Timer, None}
    /\ connecting \in BOOLEAN \cup InConns
    /\ timerFds \subseteq Fds /\ acceptorFds \subseteq Fds
    /\ pc \in [Conns -> {"unborn", "idle", "event", "lostI", "discI", "lostR",
                          "discR", "cleanup", "exited", "crashed"}]
    /\ fd \in [Conns -> Fds \cup {NoSock}]
    /\ open \in [Conns -> BOOLEAN] /\ knows \in [Conns -> BOOLEAN]
    /\ event \in [Conns -> Events \cup {None}]
    /\ msgs \in 0..MaxMsgs

\* The peer waits for a connection to be made exactly while the timer process
\* has its lock: what sm_process calls not reachable in Wait_Conn_Ack is.
\* Besides the timer process only a receiver that has crashed keeps the lock.
ConnAckIsPrivate ==
    /\ (state = "Wait_Conn_Ack") = (lock = Timer)
    /\ (connecting # FALSE) = (lock = Timer)
    /\ lock \in Conns => pc[lock] = "crashed" /\ state = "Wait_Returns"

\* A peer that waits for an answer has the connection on which it asked, and
\* one that waits for the end of an election has both connections of it, in
\* whatever order connections are made and lost.
WaitingHasSocket ==
    /\ state \in {"Wait_I_CEA", "Wait_Returns"} /\ lock = None => I_sock # NoSock
    /\ state = "Wait_Returns" => R_sock # NoSock

\* A socket number at the peer is that of a connection made on that side.
SocketsHaveOwners ==
    /\ I_sock # NoSock => \E c \in InConns : fd[c] = I_sock /\ pc[c] # "unborn"
    /\ R_sock # NoSock => \E c \in AcConns : fd[c] = R_sock /\ pc[c] # "unborn"

\* The sockets of the peer are those of connections made on their side, and a peer that
\* waits has the ones it waits on.
SocketsSound == WaitingHasSocket /\ SocketsHaveOwners

\* A state is left only for the states of the state machine: an event decided
\* on in one state and raised in another never takes the peer past
\* capabilities exchange, nor from one open state to the other.
Follows(s) ==
    CASE s = "Closed" -> {"Wait_Conn_Ack", "R_Open"}
      [] s = "Wait_Conn_Ack" -> {"Wait_I_CEA", "Closed"}
      [] s = "Wait_I_CEA" -> {"I_Open", "R_Open", "Wait_Returns", "Closed"}
      [] s = "Wait_Returns" -> {"I_Open", "Wait_I_CEA", "Closed"}
      [] OTHER -> {"Closed"}

LegalTransitions == [][state' # state => state' \in Follows(state)]_vars

\* The peer is opened as receiver by a connection that sent a CER, and as
\* initiator by one that received a CEA.
OpenedByItsReceiver ==
    [][/\ (state' = "R_Open" /\ state # "R_Open") =>
            \E c \in AcConns : event[c] = <<"R", "Conn_CER">> /\ event'[c] = None
       /\ (state' = "I_Open" /\ state # "I_Open") =>
            \E c \in Conns : event[c] = <<"I", "CEA">> /\ event'[c] = None]_vars

\* peer_timer ends every wait for an answer.
WaitsEnd == (state \in {"Wait_Conn_Ack", "Wait_I_CEA"}) ~>
                (state \notin {"Wait_Conn_Ack", "Wait_I_CEA"})

\* The watch-dog closes a peer all of whose connections are gone, whatever
\* state their loss found and left it in.
AllGone == \A c \in Conns : pc[c] \in {"unborn", "exited"}

DeadPeerIsClosed == (AllGone /\ state \in Opens) ~> (state = "Closed")

\* "The specific peer process will pick that up and send the message"
\* (receiver.c:434): an open peer has a process that reads its pipe.
OpenPeerCanSend == state \in Opens => send_pipe # None

\* The loser of an election "keeps the same connection as Receiver and drops
\* its Initiator connection" (peerstatemachine.c:950): an election ends.
ElectionEnds == (state = "Wait_Returns") ~> (state # "Wait_Returns")
=============================================================================
