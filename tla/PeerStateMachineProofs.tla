----------------------- MODULE PeerStateMachineProofs -----------------------
(***************************************************************************)
(* Proofs about PeerStateMachine, for any number of connections, sockets   *)
(* and messages, and about Receiver, for any streams, senders, messages    *)
(* and pipe.                                                               *)
(***************************************************************************)
EXTENDS PeerStateMachine, Receiver, TLAPS, SequenceTheorems

USE DEF sockets, flags, peerVars, tables, conns, Conns, NoSock, Peer, CloseIn, CloseInTimer

\* A receiver process has a socket from its birth on, and one forked by the
\* timer process knows its peer.
BornOK ==
    /\ \A c \in Conns : fd[c] = NoSock <=> pc[c] = "unborn"
    /\ \A c \in InConns : pc[c] # "unborn" => knows[c]
    /\ connecting \in InConns => pc[connecting] # "unborn"

\* Only an accepted connection raises R_Conn_CER.
CallerOK ==
    \A c \in Conns :
        pc[c] = "event" /\ event[c] = <<"R", "Conn_CER">> => c \in AcConns

\* The inductive invariant.
IInv ==
    /\ TypeOK
    /\ ConnAckIsPrivate
    /\ WaitingHasSocket
    /\ SocketsHaveOwners
    /\ BornOK
    /\ CallerOK

\* The invariant holds of a peer that was just configured (peer.c new_peer).
LEMMA InitInv == Init => IInv
  <1>1. SUFFICES ASSUME Init PROVE IInv
    OBVIOUS
  <1>2. TypeOK
    <2>1. /\ state \in States /\ I_sock \in Fds \cup {NoSock}
          /\ R_sock \in Fds \cup {NoSock}
      BY <1>1 DEF Init, States
    <2>2. /\ waitingDWA \in BOOLEAN /\ quiet \in BOOLEAN
          /\ send_pipe \in Conns \cup {None}
          /\ lock \in Conns \cup {Timer, None}
          /\ connecting \in BOOLEAN \cup InConns
          /\ timerFds \subseteq Fds /\ acceptorFds \subseteq Fds
      BY <1>1 DEF Init
    <2>3. /\ open \in [Conns -> BOOLEAN] /\ knows \in [Conns -> BOOLEAN]
          /\ fd \in [Conns -> Fds \cup {NoSock}]
          /\ event \in [Conns -> Events \cup {None}]
      BY <1>1, Zenon DEF Init
    <2>4. pc \in [Conns -> {"unborn", "idle", "event", "lostI", "discI",
                             "lostR", "discR", "cleanup", "exited", "crashed"}]
      BY <1>1 DEF Init
    <2>5. msgs \in 0..MaxMsgs
      BY <1>1, BoundAssumption DEF Init
    <2> QED
      BY <2>1, <2>2, <2>3, <2>4, <2>5 DEF TypeOK
  <1>3. ConnAckIsPrivate /\ WaitingHasSocket /\ SocketsHaveOwners /\ BornOK
    BY <1>1, ConnAssumption
    DEF Init, ConnAckIsPrivate, WaitingHasSocket, SocketsHaveOwners, BornOK
  <1>4. CallerOK
    BY <1>1 DEF Init, CallerOK
  <1> QED
    BY <1>2, <1>3, <1>4 DEF IInv

\* Every event the timer process, the acceptor and the receiver processes
\* raise, in whatever state it is raised, keeps the invariant.
LEMMA NextInv == IInv /\ [Next]_vars => IInv'
  <1>1. SUFFICES ASSUME IInv, [Next]_vars PROVE IInv'
    OBVIOUS
  <1>2. CASE UNCHANGED vars
    <2>1. TypeOK'
      BY <1>1, <1>2 DEF IInv, TypeOK, vars
    <2>2. ConnAckIsPrivate' /\ WaitingHasSocket' /\ SocketsHaveOwners'
      BY <1>1, <1>2
      DEF IInv, ConnAckIsPrivate, WaitingHasSocket, SocketsHaveOwners, vars
    <2>3. BornOK' /\ CallerOK'
      BY <1>1, <1>2 DEF IInv, BornOK, CallerOK, vars
    <2> QED
      BY <2>1, <2>2, <2>3 DEF IInv
  <1>3. CASE TimePasses
    <2>1. TypeOK'
      BY <1>1, <1>3
      DEF IInv, TypeOK, TimePasses
    <2>2. ConnAckIsPrivate' /\ WaitingHasSocket' /\ SocketsHaveOwners'
          /\ BornOK' /\ CallerOK'
      BY <1>1, <1>3
      DEF IInv, ConnAckIsPrivate, WaitingHasSocket, SocketsHaveOwners, BornOK,
          CallerOK, TimePasses
    <2> QED
      BY <2>1, <2>2 DEF IInv
  <1>4. CASE TimerStart
    <2>1. TypeOK'
      BY <1>1, <1>4
      DEF IInv, TypeOK, States, TimerStart
    <2>2. ConnAckIsPrivate' /\ WaitingHasSocket' /\ SocketsHaveOwners'
          /\ BornOK' /\ CallerOK'
      BY <1>1, <1>4, ConnAssumption
      DEF IInv, ConnAckIsPrivate, WaitingHasSocket, SocketsHaveOwners, BornOK,
          CallerOK, TimerStart
    <2> QED
      BY <2>1, <2>2 DEF IInv
  <1>5. CASE ConnectAck
    <2>1. TypeOK'
      BY <1>1, <1>5
      DEF IInv, TypeOK, States, ConnectAck
    <2>2. ConnAckIsPrivate' /\ WaitingHasSocket' /\ SocketsHaveOwners'
          /\ BornOK' /\ CallerOK'
      BY <1>1, <1>5, ConnAssumption
      DEF IInv, ConnAckIsPrivate, WaitingHasSocket, SocketsHaveOwners, BornOK,
          CallerOK, ConnectAck
    <2> QED
      BY <2>1, <2>2 DEF IInv
  <1>6. CASE ConnectNAck
    <2>1. TypeOK'
      BY <1>1, <1>6
      DEF IInv, TypeOK, States, ConnectNAck
    <2>2. ConnAckIsPrivate' /\ WaitingHasSocket' /\ SocketsHaveOwners'
          /\ BornOK' /\ CallerOK'
      BY <1>1, <1>6, ConnAssumption
      DEF IInv, ConnAckIsPrivate, WaitingHasSocket, SocketsHaveOwners, BornOK,
          CallerOK, ConnectNAck
    <2> QED
      BY <2>1, <2>2 DEF IInv
  <1>7. CASE TimerTimeout
    <2>1. TypeOK'
      BY <1>1, <1>7
      DEF IInv, TypeOK, States, TimerTimeout
    <2>2. ConnAckIsPrivate' /\ WaitingHasSocket' /\ SocketsHaveOwners'
          /\ BornOK' /\ CallerOK'
      BY <1>1, <1>7, ConnAssumption
      DEF IInv, ConnAckIsPrivate, WaitingHasSocket, SocketsHaveOwners, BornOK,
          CallerOK, TimerTimeout
    <2> QED
      BY <2>1, <2>2 DEF IInv
  <1>8. CASE TimerProbe
    <2>1. TypeOK'
      BY <1>1, <1>8
      DEF IInv, TypeOK, TimerProbe
    <2>2. ConnAckIsPrivate' /\ WaitingHasSocket' /\ SocketsHaveOwners'
          /\ BornOK' /\ CallerOK'
      BY <1>1, <1>8
      DEF IInv, ConnAckIsPrivate, WaitingHasSocket, SocketsHaveOwners, BornOK,
          CallerOK, TimerProbe
    <2> QED
      BY <2>1, <2>2 DEF IInv
  <1>9. CASE TimerGiveUp
    <2>1. TypeOK'
      BY <1>1, <1>9
      DEF IInv, TypeOK, States, TimerGiveUp
    <2>2. ConnAckIsPrivate' /\ WaitingHasSocket' /\ SocketsHaveOwners'
          /\ BornOK' /\ CallerOK'
      BY <1>1, <1>9
      DEF IInv, ConnAckIsPrivate, WaitingHasSocket, SocketsHaveOwners, BornOK,
          CallerOK, TimerGiveUp
    <2> QED
      BY <2>1, <2>2 DEF IInv
  <1>10. ASSUME NEW c \in InConns, Connect(c) PROVE IInv'
    <2>1. TypeOK'
      BY <1>1, <1>10
      DEF IInv, TypeOK, Connect, Fork
    <2>2. ConnAckIsPrivate' /\ WaitingHasSocket'
      BY <1>1, <1>10, ConnAssumption
      DEF IInv, ConnAckIsPrivate, WaitingHasSocket, Connect
    <2>3. SocketsHaveOwners'
      BY <1>1, <1>10
      DEF IInv, SocketsHaveOwners, Connect, Fork
    <2>4. BornOK'
      BY <1>1, <1>10, FdAssumption
      DEF IInv, TypeOK, BornOK, Connect, Fork
    <2>5. CallerOK'
      BY <1>1, <1>10
      DEF IInv, CallerOK, Connect, Fork
    <2> QED
      BY <2>1, <2>2, <2>3, <2>4, <2>5 DEF IInv
  <1>11. ASSUME NEW c \in AcConns, Accept(c) PROVE IInv'
    <2>1. TypeOK'
      BY <1>1, <1>11
      DEF IInv, TypeOK, Accept, Fork
    <2>2. ConnAckIsPrivate' /\ WaitingHasSocket'
      BY <1>1, <1>11
      DEF IInv, TypeOK, ConnAckIsPrivate, WaitingHasSocket, Accept, Fork
    <2>3. SocketsHaveOwners'
      BY <1>1, <1>11
      DEF IInv, SocketsHaveOwners, Accept, Fork
    <2>4. BornOK'
      BY <1>1, <1>11, ConnAssumption, FdAssumption
      DEF IInv, TypeOK, BornOK, Accept, Fork
    <2>5. CallerOK'
      BY <1>1, <1>11
      DEF IInv, CallerOK, Accept, Fork
    <2> QED
      BY <2>1, <2>2, <2>3, <2>4, <2>5 DEF IInv
  <1>12. ASSUME NEW c \in Conns, Receive(c) PROVE IInv'
    <2>1. TypeOK'
      <3>1. \A k \in Kinds : Decide(k) \in Events \cup {None}
        BY DEF Decide, Events, Kinds
      <3>2. <<"R", "Conn_CER">> \in Events
        BY DEF Events
      <3>3. PICK k \in Kinds, e \in Events \cup {None} : Raise(c, e)
        BY <1>12, <3>1, <3>2 DEF Receive
      <3>4. event' \in [Conns -> Events \cup {None}]
        BY <1>1, <3>3 DEF IInv, TypeOK, Raise
      <3>5. pc' \in [Conns -> {"unborn", "idle", "event", "lostI", "discI",
                                "lostR", "discR", "cleanup", "exited", "crashed"}]
        BY <1>1, <3>3 DEF IInv, TypeOK, Raise
      <3>6. /\ knows' \in [Conns -> BOOLEAN] /\ quiet' \in BOOLEAN
            /\ send_pipe' \in Conns \cup {None}
        BY <1>1, <1>12 DEF IInv, TypeOK, Receive
      <3>7. msgs' \in 0..MaxMsgs
        BY <1>1, <1>12, BoundAssumption DEF IInv, TypeOK, Receive
      <3>8. UNCHANGED <<state, sockets, waitingDWA, lock, connecting, tables, fd, open>>
        BY <1>12 DEF Receive
      <3> QED
        BY <1>1, <3>4, <3>5, <3>6, <3>7, <3>8 DEF IInv, TypeOK
    <2>2. ConnAckIsPrivate' /\ WaitingHasSocket'
      BY <1>1, <1>12
      DEF IInv, TypeOK, ConnAckIsPrivate, WaitingHasSocket, Receive, Raise
    <2>3. SocketsHaveOwners'
      BY <1>1, <1>12
      DEF IInv, TypeOK, SocketsHaveOwners, Receive, Raise
    <2>4. BornOK'
      BY <1>1, <1>12
      DEF IInv, TypeOK, BornOK, Receive, Raise
    <2>5. CallerOK'
      BY <1>1, <1>12
      DEF IInv, TypeOK, Kinds, CallerOK, BornOK, Receive, Recognised, Decide,
          Raise
    <2> QED
      BY <2>1, <2>2, <2>3, <2>4, <2>5 DEF IInv
  <1>13. ASSUME NEW c \in Conns, Lose(c) PROVE IInv'
    <2>1. TypeOK'
      BY <1>1, <1>13
      DEF IInv, TypeOK, Lose, GoTo
    <2>2. ConnAckIsPrivate' /\ WaitingHasSocket' /\ SocketsHaveOwners'
      BY <1>1, <1>13
      DEF IInv, TypeOK, ConnAckIsPrivate, WaitingHasSocket, SocketsHaveOwners,
          Lose, GoTo
    <2>3. BornOK' /\ CallerOK'
      BY <1>1, <1>13
      DEF IInv, BornOK, CallerOK, Lose, GoTo
    <2> QED
      BY <2>1, <2>2, <2>3 DEF IInv
  <1>14. ASSUME NEW c \in Conns, ConnCER(c) PROVE IInv'
    <2>1. TypeOK'
      <3>1. fd[c] \in Fds \cup {NoSock}
        BY <1>1 DEF IInv, TypeOK
      <3>2. state' \in States /\ I_sock' \in Fds \cup {NoSock} /\ R_sock' \in Fds \cup {NoSock}
        BY <1>1, <1>14, <3>1
        DEF IInv, TypeOK, States, ConnCER, AcceptPeer, WinElection,
            LoseElection, RejectPeer
      <3>3. open' \in [Conns -> BOOLEAN] /\ quiet' \in BOOLEAN
        BY <1>1, <1>14
        DEF IInv, TypeOK, ConnCER, AcceptPeer, WinElection, LoseElection,
            RejectPeer
      <3>4. UNCHANGED flags
        BY <1>14 DEF ConnCER, AcceptPeer, WinElection, LoseElection, RejectPeer
      <3>5. Handled(c)
        BY <1>14 DEF ConnCER
      <3> QED
        BY <1>1, <3>2, <3>3, <3>4, <3>5 DEF IInv, TypeOK, Handled
    <2>2. ConnAckIsPrivate' /\ WaitingHasSocket' /\ SocketsHaveOwners'
      BY <1>1, <1>14
      DEF IInv, TypeOK, ConnAckIsPrivate, WaitingHasSocket, SocketsHaveOwners,
          BornOK, CallerOK, ConnCER, Locked, Handled, AcceptPeer, WinElection,
          LoseElection, RejectPeer
    <2>3. BornOK' /\ CallerOK'
      BY <1>1, <1>14
      DEF IInv, BornOK, CallerOK, ConnCER, Locked, Handled
    <2> QED
      BY <2>1, <2>2, <2>3 DEF IInv
  <1>15. ASSUME NEW c \in Conns, Capabilities(c) PROVE IInv'
    <2>1. TypeOK'
      BY <1>1, <1>15
      DEF IInv, TypeOK, States, Capabilities, Handled
    <2>2. ConnAckIsPrivate' /\ WaitingHasSocket' /\ SocketsHaveOwners'
      BY <1>1, <1>15
      DEF IInv, TypeOK, ConnAckIsPrivate, WaitingHasSocket, SocketsHaveOwners,
          Capabilities, Handled
    <2>3. BornOK' /\ CallerOK'
      BY <1>1, <1>15
      DEF IInv, TypeOK, BornOK, CallerOK, Capabilities, Locked, Handled
    <2> QED
      BY <2>1, <2>2, <2>3 DEF IInv
  <1>16. ASSUME NEW c \in Conns, LateCapabilities(c) PROVE IInv'
    <2>1. TypeOK'
      BY <1>1, <1>16
      DEF IInv, TypeOK, States, LateCapabilities, Handled
    <2>2. ConnAckIsPrivate' /\ WaitingHasSocket' /\ SocketsHaveOwners'
      BY <1>1, <1>16, ConnAssumption
      DEF IInv, TypeOK, ConnAckIsPrivate, WaitingHasSocket, SocketsHaveOwners,
          LateCapabilities, Locked, Handled
    <2>3. BornOK' /\ CallerOK'
      BY <1>1, <1>16
      DEF IInv, TypeOK, BornOK, CallerOK, LateCapabilities, Locked, Handled
    <2> QED
      BY <2>1, <2>2, <2>3 DEF IInv
  <1>17. ASSUME NEW c \in Conns, Traffic(c) PROVE IInv'
    <2>1. TypeOK'
      BY <1>1, <1>17
      DEF IInv, TypeOK, Traffic, Handled
    <2>2. ConnAckIsPrivate' /\ WaitingHasSocket' /\ SocketsHaveOwners'
      BY <1>1, <1>17
      DEF IInv, TypeOK, ConnAckIsPrivate, WaitingHasSocket, SocketsHaveOwners,
          Traffic, Locked, Handled
    <2>3. BornOK' /\ CallerOK'
      BY <1>1, <1>17
      DEF IInv, TypeOK, BornOK, CallerOK, Traffic, Locked, Handled
    <2> QED
      BY <2>1, <2>2, <2>3 DEF IInv
  <1>18. ASSUME NEW c \in Conns, CapabilitiesAgain(c) PROVE IInv'
    <2>1. TypeOK'
      BY <1>1, <1>18
      DEF IInv, TypeOK, CapabilitiesAgain, Handled, OpenAs
    <2>2. ConnAckIsPrivate' /\ WaitingHasSocket' /\ SocketsHaveOwners'
      BY <1>1, <1>18, ConnAssumption
      DEF IInv, TypeOK, ConnAckIsPrivate, WaitingHasSocket, SocketsHaveOwners,
          CapabilitiesAgain, Locked, Handled
    <2>3. BornOK' /\ CallerOK'
      BY <1>1, <1>18
      DEF IInv, TypeOK, BornOK, CallerOK, CapabilitiesAgain, Locked, Handled
    <2> QED
      BY <2>1, <2>2, <2>3 DEF IInv
  <1>19. ASSUME NEW c \in Conns, DisconnectRequest(c) PROVE IInv'
    <2>1. TypeOK'
      BY <1>1, <1>19
      DEF IInv, TypeOK, States, DisconnectRequest, Handled
    <2>2. ConnAckIsPrivate' /\ WaitingHasSocket' /\ SocketsHaveOwners'
      BY <1>1, <1>19, ConnAssumption
      DEF IInv, TypeOK, ConnAckIsPrivate, WaitingHasSocket, SocketsHaveOwners,
          DisconnectRequest, Locked, Handled
    <2>3. BornOK' /\ CallerOK'
      BY <1>1, <1>19
      DEF IInv, TypeOK, BornOK, CallerOK, DisconnectRequest, Locked, Handled
    <2> QED
      BY <2>1, <2>2, <2>3 DEF IInv
  <1>20. ASSUME NEW c \in Conns, Invalid(c) PROVE IInv'
    <2>1. TypeOK'
      BY <1>1, <1>20
      DEF IInv, TypeOK, Invalid, Handled
    <2>2. ConnAckIsPrivate' /\ WaitingHasSocket' /\ SocketsHaveOwners'
      BY <1>1, <1>20
      DEF IInv, TypeOK, ConnAckIsPrivate, WaitingHasSocket, SocketsHaveOwners,
          Invalid, Handled
    <2>3. BornOK' /\ CallerOK'
      BY <1>1, <1>20
      DEF IInv, TypeOK, BornOK, CallerOK, Invalid, Handled
    <2> QED
      BY <2>1, <2>2, <2>3 DEF IInv
  <1>21. ASSUME NEW c \in Conns, LostTest(c) PROVE IInv'
    <2>1. TypeOK'
      BY <1>1, <1>21
      DEF IInv, TypeOK, LostTest, GoTo
    <2>2. ConnAckIsPrivate' /\ WaitingHasSocket'
      BY <1>1, <1>21
      DEF IInv, TypeOK, ConnAckIsPrivate, WaitingHasSocket, LostTest, GoTo
    <2>3. SocketsHaveOwners'
      BY <1>1, <1>21
      DEF IInv, TypeOK, SocketsHaveOwners, LostTest, GoTo
    <2>4. BornOK'
      BY <1>1, <1>21
      DEF IInv, TypeOK, BornOK, LostTest, GoTo
    <2>5. CallerOK'
      BY <1>1, <1>21
      DEF IInv, TypeOK, CallerOK, LostTest, GoTo
    <2> QED
      BY <2>1, <2>2, <2>3, <2>4, <2>5 DEF IInv
  <1>22. ASSUME NEW c \in Conns, LostInitiator(c) PROVE IInv'
    <2>1. TypeOK'
      BY <1>1, <1>22
      DEF IInv, TypeOK, States, LostInitiator, GoTo
    <2>2. ConnAckIsPrivate' /\ WaitingHasSocket' /\ SocketsHaveOwners'
      BY <1>1, <1>22, ConnAssumption, FdAssumption
      DEF IInv, TypeOK, Opens, Events, ConnAckIsPrivate, WaitingHasSocket,
          SocketsHaveOwners, BornOK, LostInitiator, GoTo
    <2>3. BornOK' /\ CallerOK'
      BY <1>1, <1>22
      DEF IInv, TypeOK, BornOK, CallerOK, LostInitiator, GoTo
    <2> QED
      BY <2>1, <2>2, <2>3 DEF IInv
  <1>23. ASSUME NEW c \in Conns, LostReceiver(c) PROVE IInv'
    <2>1. TypeOK'
      BY <1>1, <1>23
      DEF IInv, TypeOK, States, LostReceiver, GoTo
    <2>2. ConnAckIsPrivate' /\ WaitingHasSocket' /\ SocketsHaveOwners'
      BY <1>1, <1>23, ConnAssumption
      DEF IInv, TypeOK, ConnAckIsPrivate, WaitingHasSocket, SocketsHaveOwners,
          LostReceiver, GoTo
    <2>3. BornOK' /\ CallerOK'
      BY <1>1, <1>23
      DEF IInv, BornOK, CallerOK, LostReceiver, GoTo
    <2> QED
      BY <2>1, <2>2, <2>3 DEF IInv
  <1>24. ASSUME NEW c \in Conns, Exit(c) PROVE IInv'
    <2>1. TypeOK'
      BY <1>1, <1>24
      DEF IInv, TypeOK, Exit, GoTo
    <2>2. ConnAckIsPrivate' /\ WaitingHasSocket' /\ SocketsHaveOwners'
      BY <1>1, <1>24
      DEF IInv, TypeOK, ConnAckIsPrivate, WaitingHasSocket, SocketsHaveOwners,
          Exit, GoTo
    <2>3. BornOK' /\ CallerOK'
      BY <1>1, <1>24
      DEF IInv, BornOK, CallerOK, Exit, GoTo
    <2> QED
      BY <2>1, <2>2, <2>3 DEF IInv
  <1> QED
    BY <1>1, <1>2, <1>3, <1>4, <1>5, <1>6, <1>7, <1>8, <1>9, <1>10, <1>11,
          <1>12, <1>13, <1>14, <1>15, <1>16, <1>17, <1>18, <1>19, <1>20,
          <1>21, <1>22, <1>23, <1>24
    DEF Next, TimerStep, ReceiverStep, Network

\* The invariant holds throughout.
LEMMA Invariance == Spec => []IInv
  BY InitInv, NextInv, PTL DEF Spec

\* Every variable of the peer and of its receiver processes keeps its type:
\* new_peer, sm_process and the processes that call it.
THEOREM TypeCorrect == Spec => []TypeOK
  BY Invariance, PTL DEF IInv

\* While the timer process connects (I_Snd_Conn_Req) nobody else changes the
\* peer, and nobody else sees it wait for the connection.
THEOREM ConnectsAlone == Spec => []ConnAckIsPrivate
  BY Invariance, PTL DEF IInv

\* A waiting peer has the sockets it waits on, and every socket is that of a connection
\* made on its side: I_sock comes from peer_connect and R_sock from accept_connection.
THEOREM SocketsCorrect == Spec => []SocketsSound
  BY Invariance, PTL DEF IInv, SocketsSound

\* Two states that Follows does not relate are never one step apart.
LEMMA StepIsLegal ==
    IInv /\ [Next]_vars => (state' # state => state' \in Follows(state))
  <1>1. SUFFICES ASSUME IInv, Next, state' # state PROVE state' \in Follows(state)
    BY DEF vars
  <1>2. state \in States
    BY <1>1 DEF IInv, TypeOK
  <1>3. CASE TimerStep
    BY <1>1, <1>2, <1>3, ConnAssumption
    DEF IInv, ConnAckIsPrivate, TimerStep, TimerStart, Connect, ConnectAck,
        ConnectNAck, TimerTimeout, TimerProbe, TimerGiveUp, Follows
  <1>4. ASSUME NEW c \in Conns, ConnCER(c) PROVE state' \in Follows(state)
    BY <1>1, <1>2, <1>4
    DEF ConnCER, AcceptPeer, WinElection, LoseElection, RejectPeer, Follows
  <1>5. ASSUME NEW c \in Conns, Capabilities(c) \/ LateCapabilities(c)
        PROVE  state' \in Follows(state)
    BY <1>1, <1>5 DEF Capabilities, LateCapabilities, Locked, Follows
  <1>6. ASSUME NEW c \in Conns, DisconnectRequest(c) \/ CapabilitiesAgain(c)
        PROVE  state' \in Follows(state)
    BY <1>1, <1>6 DEF DisconnectRequest, CapabilitiesAgain, Locked, OpenAs, Follows
  <1>7. ASSUME NEW c \in Conns, LostInitiator(c) \/ LostReceiver(c)
        PROVE  state' \in Follows(state)
    BY <1>1, <1>7 DEF LostInitiator, LostReceiver, Follows
  <1>8. CASE TimePasses \/ Network
    BY <1>1, <1>8 DEF TimePasses, Network, Accept, Receive, Lose
  <1>9. ASSUME NEW c \in Conns, Traffic(c) \/ Invalid(c) \/ LostTest(c) \/ Exit(c)
        PROVE  state' \in Follows(state)
    BY <1>1, <1>9 DEF Traffic, Invalid, LostTest, Exit
  <1> QED
    BY <1>1, <1>3, <1>4, <1>5, <1>6, <1>7, <1>8, <1>9 DEF Next, ReceiverStep

\* The peer follows the state machine of sm_process, although receive_message
\* picks its events from states it reads without the lock.
THEOREM FollowsStateMachine == Spec => LegalTransitions
  <1>1. IInv /\ [Next]_vars => [state' # state => state' \in Follows(state)]_vars
    BY StepIsLegal
  <1> QED
    BY <1>1, Invariance, PTL DEF Spec, LegalTransitions

\* The step that OpenedByItsReceiver asks for.
Opening ==
    /\ (state' = "R_Open" /\ state # "R_Open") =>
         \E c \in AcConns : event[c] = <<"R", "Conn_CER">> /\ event'[c] = None
    /\ (state' = "I_Open" /\ state # "I_Open") =>
         \E c \in Conns : event[c] = <<"I", "CEA">> /\ event'[c] = None

\* No other event opens the peer.
LEMMA StepOpens == IInv /\ Next => Opening
  <1>1. SUFFICES ASSUME IInv, Next PROVE Opening
    OBVIOUS
  <1>2. event \in [Conns -> Events \cup {None}]
    BY <1>1 DEF IInv, TypeOK
  <1>3. CASE TimerStep
    BY <1>3
    DEF Opening, TimerStep, TimerStart, Connect, ConnectAck, ConnectNAck,
        TimerTimeout, TimerProbe, TimerGiveUp
  <1>4. ASSUME NEW c \in Conns, ConnCER(c) PROVE Opening
    <2>1. c \in AcConns /\ event[c] = <<"R", "Conn_CER">>
      BY <1>1, <1>4 DEF IInv, CallerOK, ConnCER, Locked
    <2>2. event'[c] = None
      BY <1>2, <1>4 DEF ConnCER, Handled
    <2>3. state' = "I_Open" => state = "I_Open"
      BY <1>4 DEF ConnCER, AcceptPeer, WinElection, LoseElection, RejectPeer
    <2> QED
      BY <2>1, <2>2, <2>3 DEF Opening
  <1>5. ASSUME NEW c \in Conns, Capabilities(c) \/ LateCapabilities(c)
        PROVE  Opening
    <2>1. event'[c] = None
      BY <1>2, <1>5 DEF Capabilities, LateCapabilities, Handled
    <2>2. state' = "I_Open" => event[c] = <<"I", "CEA">>
      BY <1>5 DEF Capabilities, LateCapabilities, Locked
    <2>3. state' # "R_Open"
      BY <1>5 DEF Capabilities, LateCapabilities
    <2> QED
      BY <2>1, <2>2, <2>3 DEF Opening
  <1>6. ASSUME NEW c \in Conns, DisconnectRequest(c) \/ CapabilitiesAgain(c)
        PROVE  Opening
    BY <1>6 DEF Opening, DisconnectRequest, CapabilitiesAgain, Locked, OpenAs
  <1>7. ASSUME NEW c \in Conns, LostInitiator(c) \/ LostReceiver(c)
        PROVE  Opening
    BY <1>7 DEF Opening, LostInitiator, LostReceiver
  <1>8. CASE TimePasses \/ Network
    BY <1>8 DEF Opening, TimePasses, Network, Accept, Receive, Lose
  <1>9. ASSUME NEW c \in Conns, Traffic(c) \/ Invalid(c) \/ LostTest(c) \/ Exit(c)
        PROVE  Opening
    BY <1>9 DEF Opening, Traffic, Invalid, LostTest, Exit
  <1> QED
    BY <1>1, <1>3, <1>4, <1>5, <1>6, <1>7, <1>8, <1>9 DEF Next, ReceiverStep

\* The peer opens as receiver on the R_Conn_CER of an accepted connection, and
\* as initiator on an I_Rcv_CEA (sm_process).
THEOREM OpensOnItsOwnEvent == Spec => OpenedByItsReceiver
  <1>1. IInv /\ [Next]_vars => [Opening]_vars
    BY StepOpens
  <1> QED
    BY <1>1, Invariance, PTL DEF Spec, OpenedByItsReceiver, Opening

(***************************************************************************)
(* Receiver: the inductive invariant.                                      *)
(***************************************************************************)

\* What the pipe holds: messages of the senders, and answers.
Messages == Msgs \cup Nat

StreamTypeOK ==
  /\ stream \in Streams
  /\ arrived \in Nat /\ taken \in Nat /\ begin \in Nat /\ hungup \in BOOLEAN
  /\ framed \in Seq(Nat)
  /\ ready \in BOOLEAN /\ hand \in Messages \cup {Nil}
  /\ pipe \in Seq(Messages) /\ written \in Seq(Messages) /\ accepted \in Seq(Messages)
  /\ answered \in Seq(Nat)
  /\ attached \in BOOLEAN /\ file \in BOOLEAN /\ down \in BOOLEAN
  /\ plock \in Senders \cup {receiver, Nil}
  /\ doing \in {"loop", "select", "write", "recv", "handle", "lock", "push", "error", "remove",
                "done"}
  /\ spc \in [Senders -> {"idle", "test", "open", "write"}]
  /\ smsg \in [Senders -> Msgs \cup {Nil}]
  /\ fresh \in SUBSET Msgs

\* What the receiver and the senders have in hand.
InHandOK ==
  /\ hand # Nil <=> doing = "write"
  /\ doing \in {"handle", "lock", "push"} => framed # <<>>
  /\ \A s \in Senders : spc[s] # "idle" => smsg[s] \in Msgs

\* The bytes that receive_loop is done with: the rest is in the buffer.
Passed == IF doing \in {"select", "write", "recv"} THEN begin ELSE taken

\* A place where a message begins, or the stream ends.
IsCut(p) == p = StreamEnd \/ \E k \in DOMAIN stream : stream[k].start = p

\* Nothing that is too big was passed, and what is sound and was passed was framed.
AllFramed(p) ==
  /\ \A k \in DOMAIN stream :
       EndOf(k) <= p /\ stream[k].version = 1 => stream[k].length <= MAX
  /\ \A k \in Sound : EndOf(k) <= p <=> \E i \in DOMAIN framed : framed[i] = k

\* Part of message k is in the buffer.
Partly(k) == stream[k].start = begin /\ stream[k].version = 1 /\ taken < EndOf(k)

FrameOK ==
  /\ begin <= taken /\ taken <= arrived /\ arrived <= StreamEnd
  /\ ~Ended => IsCut(Passed) /\ AllFramed(Passed)
  /\ doing \in {"select", "write", "recv"} /\ taken > begin => \E k \in DOMAIN stream : Partly(k)

StreamIInv == StreamTypeOK /\ InHandOK /\ FrameOK /\ FramedInOrder /\ WrittenInOrder

(***************************************************************************)
(* The stream.                                                             *)
(***************************************************************************)

\* Messages lie one behind the other.
LEMMA Cut ==
  ASSUME ReceiverAssumption, StreamTypeOK
  PROVE  /\ stream \in Seq([version : Nat, start : Nat, length : Nat])
         /\ \A k \in DOMAIN stream :
              /\ k \in Nat /\ stream[k].start \in Nat /\ stream[k].length \in Nat /\ EndOf(k) \in Nat
              /\ stream[k].version = 1 => stream[k].length >= HDR
              /\ stream[k].version # 1 => stream[k].length = 1
              /\ stream[k].start < EndOf(k)
              /\ \A j \in DOMAIN stream : j < k => EndOf(j) <= stream[k].start
              /\ EndOf(k) <= StreamEnd /\ IsCut(EndOf(k))
         /\ StreamEnd \in Nat /\ IsCut(0)
<1> USE ReceiverAssumption
<1>1. stream \in Seq([version : Nat, start : Nat, length : Nat]) /\ WellCut(stream)
  BY DEF StreamTypeOK
<1>2. DOMAIN stream = 1 .. Len(stream) /\ Len(stream) \in Nat
  BY <1>1
<1>3. ASSUME NEW k \in DOMAIN stream
      PROVE  /\ k \in Nat /\ stream[k].start \in Nat /\ stream[k].length \in Nat /\ EndOf(k) \in Nat
             /\ stream[k].version = 1 => stream[k].length >= HDR
             /\ stream[k].version # 1 => stream[k].length = 1
             /\ stream[k].start < EndOf(k)
             /\ \A j \in DOMAIN stream : j < k => EndOf(j) <= stream[k].start
  <2>1. k \in Nat /\ stream[k].start \in Nat /\ stream[k].length \in Nat /\ stream[k].length > 0
        /\ (stream[k].version = 1 => stream[k].length >= HDR)
        /\ (stream[k].version # 1 => stream[k].length = 1)
    BY <1>1, <1>2 DEF WellCut
  <2>2. ASSUME NEW j \in DOMAIN stream, j < k
        PROVE  EndOf(j) <= stream[k].start
    <3>1. j \in 1 .. k - 1
      BY <1>2, <2>2
    <3> QED
      BY <1>1, <3>1 DEF WellCut, EndOf
  <2> QED
    BY <2>1, <2>2 DEF EndOf
<1>4. /\ stream = <<>> => Len(stream) = 0 /\ StreamEnd = 0
      /\ stream # <<>> => Len(stream) \in DOMAIN stream /\ StreamEnd = EndOf(Len(stream))
  BY <1>1, <1>2, EmptySeq DEF StreamEnd
<1>5. StreamEnd \in Nat
  BY <1>3, <1>4
<1>6. ASSUME NEW k \in DOMAIN stream
      PROVE  EndOf(k) <= StreamEnd /\ IsCut(EndOf(k))
  <2>1. stream # <<>>
    BY <1>2, <1>4
  <2>2. CASE k = Len(stream)
    BY <2>1, <2>2, <1>3, <1>4 DEF IsCut
  <2>3. CASE k < Len(stream)
    <3>1. k + 1 \in DOMAIN stream /\ k + 1 # 1 /\ (k + 1) - 1 = k
      BY <1>2, <2>3
    <3>2. stream[k + 1].start = EndOf(k)
      BY <3>1, <1>1 DEF WellCut, EndOf
    <3>3. EndOf(k) <= StreamEnd
      BY <2>1, <2>3, <1>3, <1>4
    <3> QED
      BY <3>1, <3>2, <3>3 DEF IsCut
  <2> QED
    BY <1>2, <2>2, <2>3
<1>7. IsCut(0)
  <2>1. CASE stream = <<>>
    BY <2>1, <1>4 DEF IsCut
  <2>2. CASE stream # <<>>
    <3>1. 1 \in DOMAIN stream
      BY <1>2, <1>4, <2>2
    <3>2. stream[1].start = 0
      BY <3>1, <1>1 DEF WellCut
    <3> QED
      BY <3>1, <3>2 DEF IsCut
  <2> QED
    BY <2>1, <2>2
<1> QED
  BY <1>1, <1>3, <1>5, <1>6, <1>7

\* The message that begins somewhere is one, and so is the one that a byte belongs to.
LEMMA OneAt ==
  ASSUME ReceiverAssumption, StreamTypeOK, NEW k \in DOMAIN stream
  PROVE  /\ \A j \in DOMAIN stream : stream[j].start = stream[k].start => j = k
         /\ \A j \in DOMAIN stream : EndOf(j) <= EndOf(k) <=> j <= k
         /\ \A i \in Nat : stream[k].start < i /\ i <= EndOf(k) => MessageAt(i) = k
<1>1. \A j \in DOMAIN stream :
        /\ j \in Nat /\ stream[j].start \in Nat /\ EndOf(j) \in Nat /\ stream[j].start < EndOf(j)
        /\ \A i \in DOMAIN stream : i < j => EndOf(i) <= stream[j].start
  BY Cut
<1>2. \A j \in DOMAIN stream : stream[j].start = stream[k].start => j = k
  BY <1>1
<1>3. \A j \in DOMAIN stream : EndOf(j) <= EndOf(k) <=> j <= k
  BY <1>1
<1>4. ASSUME NEW i \in Nat, stream[k].start < i, i <= EndOf(k)
      PROVE  MessageAt(i) = k
  <2>1. \A j \in DOMAIN stream : stream[j].start < i /\ i <= EndOf(j) => j = k
    BY <1>1, <1>4
  <2> QED
    BY <1>4, <2>1 DEF MessageAt
<1> QED
  BY <1>2, <1>3, <1>4

(***************************************************************************)
(* Every action keeps the invariant.                                       *)
(***************************************************************************)

LEMMA MinOfTwo ==
  ASSUME NEW a \in Int, NEW b \in Int
  PROVE  Min({a, b}) \in {a, b} /\ Min({a, b}) <= a /\ Min({a, b}) <= b
<1>1. \E x \in {a, b} : \A y \in {a, b} : x <= y
  BY DEF Min
<1> QED
  BY <1>1 DEF Min

\* What recv and the checks behind it can do with the message that begins in the buffer.
LEMMA RecvFrames ==
  ASSUME ReceiverAssumption, StreamTypeOK, FrameOK, Recv
  PROVE  \/ doing' = "error" /\ framed' = framed /\ taken <= taken' /\ taken' <= arrived
            /\ taken' \in Nat
         \/ \E k \in DOMAIN stream :
              /\ stream[k].start = begin /\ taken' \in Nat
              /\ taken <= taken' /\ taken' <= arrived /\ taken' <= EndOf(k)
              /\ \/ /\ doing' = "select" /\ framed' = framed
                    /\ stream[k].version = 1 /\ taken' < EndOf(k)
                 \/ /\ doing' = "loop" /\ framed' = framed
                    /\ stream[k].version # 1 /\ taken' = EndOf(k)
                 \/ /\ doing' = "handle" /\ framed' = Append(framed, k)
                    /\ stream[k].version = 1 /\ taken' = EndOf(k) /\ stream[k].length <= MAX
<1> USE ReceiverAssumption
<1>0. /\ doing = "recv" /\ begin \in Nat /\ taken \in Nat /\ arrived \in Nat
      /\ begin <= taken /\ taken <= arrived /\ arrived <= StreamEnd /\ StreamEnd \in Nat
  BY Cut DEF Recv, FrameOK, StreamTypeOK
<1>1. CASE arrived = taken /\ hungup /\ doing' = "error" /\ UNCHANGED <<taken, framed>>
  BY <1>0, <1>1
<1>2. CASE LET n == Min({Asked(taken - begin), arrived - taken}) IN
             n > 0 /\ taken' = taken + n /\ Reads(taken + n, taken + n - begin)
  <2> DEFINE n == Min({Asked(taken - begin), arrived - taken})
             got == taken - begin
  <2>1. n > 0 /\ taken' = taken + n /\ Reads(taken + n, taken + n - begin)
    BY <1>2
  <2>2. arrived > taken \/ arrived = taken
    BY <1>0
  <2>3. ASSUME got > 0 PROVE \E k \in DOMAIN stream : Partly(k)
    BY <1>0, <2>3 DEF FrameOK
  <2>4. ASSUME got = 0, begin < StreamEnd
        PROVE  \E k \in DOMAIN stream : stream[k].start = begin
    <3>1. IsCut(begin)
      BY <1>0 DEF FrameOK, Passed, Ended
    <3> QED
      BY <1>0, <2>4, <3>1 DEF IsCut
  <2>5. LengthIn \in Nat \/ got < HDR
    <3>1. ASSUME got >= HDR PROVE LengthIn \in Nat
      <4>1. got > 0
        BY <1>0, <3>1, HDR > 1
      <4>2. PICK k \in DOMAIN stream : Partly(k)
        BY <2>3, <4>1
      <4>3. stream[k].start < begin + 2 /\ begin + 2 <= EndOf(k) /\ begin + 2 \in Nat
        BY <1>0, <3>1, <4>2, Cut DEF Partly
      <4>4. MessageAt(begin + 2) = k
        BY <4>3, OneAt
      <4> QED
        BY <4>4, Cut DEF LengthIn
    <3> QED
      BY <1>0, <3>1
  <2>6. Asked(got) \in Int /\ arrived - taken \in Int
    BY <1>0, <2>5 DEF Asked
  <2>7. n \in Int /\ n <= Asked(got) /\ n <= arrived - taken
    BY <2>6, MinOfTwo
  <2>8. begin < StreamEnd
    BY <1>0, <2>1, <2>7
  <2>9. PICK k \in DOMAIN stream : stream[k].start = begin /\ (got > 0 => Partly(k))
    BY <1>0, <2>3, <2>4, <2>8 DEF Partly
  <2>10. /\ EndOf(k) \in Nat /\ begin < EndOf(k) /\ stream[k].length \in Nat
         /\ EndOf(k) = begin + stream[k].length
         /\ stream[k].version = 1 => stream[k].length >= HDR
         /\ stream[k].version # 1 => stream[k].length = 1
    BY <2>9, Cut DEF EndOf
  <2>11. IsVersion1 <=> stream[k].version = 1
    BY <2>9, OneAt DEF IsVersion1
  <2>12. stream[k].version = 1 => LengthIn = stream[k].length
    <3>1. ASSUME stream[k].version = 1 PROVE MessageAt(begin + 2) = k
      <4>1. stream[k].start < begin + 2 /\ begin + 2 <= EndOf(k) /\ begin + 2 \in Nat
        BY <1>0, <2>9, <2>10, <3>1
      <4> QED
        BY <4>1, OneAt
    <3> QED
      BY <3>1 DEF LengthIn
  <2>13. \A last : Complete(k, last) <=> EndOf(k) = last
    BY <2>9 DEF Complete
  <2>14. \A last : \A j \in DOMAIN stream : Complete(j, last) => j = k
    BY <2>9, OneAt DEF Complete
  <2> HIDE DEF n
  <2>15. CASE got = 0
    <3>1. n = 1
      BY <1>0, <2>1, <2>7, <2>15 DEF Asked
    <3>2. taken' = begin + 1 /\ Reads(taken + n, 1) /\ HDR > 1
      BY <1>0, <2>1, <2>15, <3>1
    <3>3. doing' = IF IsVersion1 THEN "select" ELSE "loop"
      BY <3>2 DEF Reads
    <3>4. framed' = framed
      BY <3>2 DEF Reads
    <3>5. taken' \in Nat /\ taken <= taken' /\ taken' <= arrived /\ taken' <= EndOf(k)
      BY <1>0, <2>1, <2>7, <2>10, <2>15, <3>2
    <3>6. CASE stream[k].version = 1
      <4>1. taken' < EndOf(k)
        BY <1>0, <2>10, <3>2, <3>6
      <4> QED
        BY <2>9, <2>11, <3>3, <3>4, <3>5, <3>6, <4>1
    <3>7. CASE stream[k].version # 1
      <4>1. taken' = EndOf(k)
        BY <1>0, <2>10, <3>2, <3>7
      <4> QED
        BY <2>9, <2>11, <3>3, <3>4, <3>5, <3>7, <4>1
    <3> QED
      BY <3>6, <3>7
  <2>16. CASE got > 0
    <3>1. Partly(k) /\ stream[k].version = 1 /\ taken < EndOf(k)
          /\ stream[k].length >= HDR /\ LengthIn = stream[k].length
      BY <2>9, <2>10, <2>12, <2>16 DEF Partly
    <3>2. got + n <= stream[k].length /\ taken' = begin + (got + n) /\ taken' <= EndOf(k)
          /\ taken + n - begin = got + n /\ taken + n = taken'
      <4>1. Asked(got) <= stream[k].length - got
        BY <1>0, <2>10, <2>16, <3>1 DEF Asked
      <4>2. got \in Int /\ n \in Int /\ stream[k].length \in Nat /\ taken = begin + got
        BY <1>0, <2>7, <2>10
      <4>3. n <= Asked(got) /\ Asked(got) \in Int /\ taken' = taken + n
            /\ EndOf(k) = begin + stream[k].length
        BY <2>1, <2>6, <2>7, <2>10
      <4> HIDE DEF got
      <4> QED
        BY ONLY <1>0, <4>1, <4>2, <4>3
    <3>3. Reads(taken', got + n)
      BY <2>1, <3>2
    <3>4. taken' \in Nat /\ taken <= taken' /\ taken' <= arrived
      BY <1>0, <2>1, <2>7
    <3>5. CASE got + n < HDR /\ doing' = "select" /\ framed' = framed
      <4>1. taken' < EndOf(k)
        BY <1>0, <2>7, <2>10, <3>1, <3>2, <3>5
      <4> QED
        BY <2>9, <3>1, <3>2, <3>4, <3>5, <4>1
    <3>6. CASE doing' = "error" /\ framed' = framed
      BY <3>4, <3>6
    <3>7. CASE got + n < LengthIn /\ doing' = "select" /\ framed' = framed
      <4>1. taken' < EndOf(k)
        BY <1>0, <2>7, <2>10, <3>1, <3>2, <3>7
      <4> QED
        BY <2>9, <3>1, <3>2, <3>4, <3>7, <4>1
    <3>8. CASE /\ LengthIn <= MAX /\ got + n >= LengthIn /\ doing' = "handle"
               /\ \/ \E j \in DOMAIN stream : Complete(j, taken') /\ framed' = Append(framed, j)
                  \/ /\ \A j \in DOMAIN stream : ~Complete(j, taken')
                     /\ framed' = Append(framed, 0)
      <4>1. taken' = EndOf(k)
        <5>1. got + n >= stream[k].length /\ got + n \in Int /\ stream[k].length \in Int
          BY <1>0, <2>7, <2>10, <3>1, <3>8
        <5>2. got + n = stream[k].length
          BY <3>2, <5>1
        <5> QED
          BY <2>10, <3>2, <5>2
      <4>2. framed' = Append(framed, k)
        BY <2>13, <2>14, <3>8, <4>1
      <4> QED
        BY <2>9, <3>1, <3>4, <3>8, <4>1, <4>2
    <3> QED
      BY <2>11, <3>1, <3>3, <3>5, <3>6, <3>7, <3>8 DEF Reads
  <2> QED
    BY <1>0, <2>15, <2>16
<1> QED
  BY <1>1, <1>2 DEF Recv

\* Every variable stays what it is, and what is in hand is a message.
LEMMA StreamTypeStep ==
  ASSUME ReceiverAssumption, StreamTypeOK, InHandOK, FrameOK, [StreamNext]_streamVars
  PROVE  StreamTypeOK' /\ InHandOK'
<1> USE DEF inVars, outVars, fileVars, sendVars, StreamTypeOK, InHandOK, Messages
<1>0. Nil \notin Messages /\ receiver \in Senders \cup {receiver, Nil}
  BY ReceiverAssumption
<1>1. CASE Arrive
  <2>1. arrived' \in Nat
    <3>1. StreamEnd \in Nat
      BY Cut, ReceiverAssumption
    <3> QED
      BY <1>1, <3>1 DEF Arrive
  <2> QED
    BY <1>1, <2>1 DEF Arrive
<1>2. CASE HangUp
  BY <1>2 DEF HangUp
<1>3. CASE Shutdown
  BY <1>3 DEF Shutdown
<1>4. CASE Loop
  BY <1>4 DEF Loop
<1>5. CASE Select
  <2>1. ready' \in BOOLEAN
    BY <1>5 DEF Select, Readable
  <2>2. CASE pipe # <<>> /\ hand' = Head(pipe) /\ pipe' = Tail(pipe) /\ doing' = "write"
    <3>1. hand' \in Messages /\ pipe' \in Seq(Messages)
      BY <2>2
    <3> QED
      BY <1>0, <1>5, <2>1, <2>2, <3>1 DEF Select
  <2>3. CASE pipe = <<>> /\ Readable /\ doing' = "recv" /\ UNCHANGED <<hand, pipe>>
    BY <1>5, <2>1, <2>3 DEF Select
  <2> QED
    BY <1>5, <2>2, <2>3 DEF Select
<1>6. CASE SelectFails
  BY <1>6 DEF SelectFails
<1>7. CASE WriteOut
  <2>1. hand \in Messages /\ written' \in Seq(Messages)
    BY <1>7 DEF WriteOut
  <2> QED
    BY <1>7, <2>1 DEF WriteOut
<1>8. CASE WriteFails
  BY <1>8 DEF WriteFails
<1>9. CASE Recv
  <2>1. doing = "recv" /\ hand = Nil
    BY <1>9 DEF Recv
  <2>2. UNCHANGED <<stream, arrived, hungup, begin, outVars, fileVars, sendVars, accepted>>
    BY <1>9 DEF Recv
  <2>3. taken' \in Nat /\ doing' \in {"error", "select", "loop", "handle"} /\ framed' \in Seq(Nat)
        /\ (doing' = "handle" => framed' # <<>>)
    <3>1. CASE doing' = "error" /\ framed' = framed /\ taken' \in Nat
      BY <3>1
    <3>2. CASE \E k \in DOMAIN stream :
                 /\ taken' \in Nat
                 /\ \/ doing' \in {"select", "loop"} /\ framed' = framed
                    \/ doing' = "handle" /\ framed' = Append(framed, k)
      <4>1. PICK k \in DOMAIN stream :
              /\ taken' \in Nat
              /\ \/ doing' \in {"select", "loop"} /\ framed' = framed
                 \/ doing' = "handle" /\ framed' = Append(framed, k)
        BY <3>2
      <4>2. k \in Nat
        BY Cut, ReceiverAssumption
      <4>3. framed \in Seq(Nat)
        OBVIOUS
      <4>4. Append(framed, k) \in Seq(Nat) /\ Append(framed, k) # <<>>
        BY ONLY <4>2, <4>3, AppendProperties
      <4> QED
        BY <4>1, <4>3, <4>4
    <3> QED
      BY <1>9, <3>1, <3>2, RecvFrames, ReceiverAssumption
  <2> QED
    BY <2>1, <2>2, <2>3
<1>10. CASE Handle
  BY <1>10 DEF Handle
<1>11. CASE Process
  <2>1. framed[Len(framed)] \in Nat
    BY <1>11 DEF Process
  <2>2. answered' = answered \/ answered' = Append(answered, framed[Len(framed)])
    BY <1>11 DEF Process
  <2>3. answered' \in Seq(Nat)
    <3>1. answered \in Seq(Nat)
      OBVIOUS
    <3> QED
      BY ONLY <2>1, <2>2, <3>1, AppendProperties
  <2>4. plock' \in Senders \cup {receiver, Nil} /\ doing' \in {"loop", "error", "push"}
    BY <1>11 DEF Process
  <2>5. UNCHANGED <<stream, arrived, taken, hungup, begin, framed, ready, hand, pipe, written,
                    attached, file, down, spc, smsg, fresh, accepted>>
    BY <1>11 DEF Process
  <2>6. hand = Nil /\ framed # <<>>
    BY <1>11 DEF Process
  <2> QED
    BY <2>3, <2>4, <2>5, <2>6
<1>12. CASE Push
  <2>1. framed[Len(framed)] \in Messages
    BY <1>12 DEF Push
  <2>2. pipe' \in Seq(Messages) /\ accepted' \in Seq(Messages)
    BY <1>12, <2>1 DEF Push
  <2> QED
    BY <1>12, <2>2 DEF Push
<1>13. CASE Unlink
  BY <1>13 DEF Unlink
<1>14. CASE Detach
  BY <1>14 DEF Detach
<1>15. ASSUME NEW s \in Senders, NEW m \in Msgs, Give(s, m)
       PROVE  StreamTypeOK' /\ InHandOK'
  <2>1. /\ smsg' \in [Senders -> Msgs \cup {Nil}] /\ fresh' \in SUBSET Msgs
        /\ spc' \in [Senders -> {"idle", "test", "open", "write"}]
        /\ plock' \in Senders \cup {receiver, Nil}
    BY <1>15 DEF Give
  <2>2. \A t \in Senders : spc'[t] # "idle" => smsg'[t] \in Msgs
    BY <1>15 DEF Give
  <2> QED
    BY <1>15, <2>1, <2>2 DEF Give
<1>16. ASSUME NEW s \in Senders, Returns(s)
       PROVE  /\ smsg' \in [Senders -> Msgs \cup {Nil}]
              /\ spc' \in [Senders -> {"idle", "test", "open", "write"}]
              /\ plock' \in Senders \cup {receiver, Nil}
              /\ \A t \in Senders : spc'[t] # "idle" => smsg'[t] \in Msgs
  BY <1>16 DEF Returns
<1>17. ASSUME NEW s \in Senders, Test(s)
       PROVE  StreamTypeOK' /\ InHandOK'
  <2>1. CASE Returns(s)
    BY <1>16, <1>17, <2>1 DEF Test
  <2>2. CASE attached /\ spc' = [spc EXCEPT ![s] = "open"] /\ UNCHANGED <<smsg, plock>>
    <3>1. spc' \in [Senders -> {"idle", "test", "open", "write"}]
          /\ \A t \in Senders : spc'[t] # "idle" => smsg'[t] \in Msgs
      BY <1>17, <2>2 DEF Test
    <3> QED
      BY <1>17, <2>2, <3>1 DEF Test
  <2> QED
    BY <1>17, <2>1, <2>2 DEF Test
<1>18. ASSUME NEW s \in Senders, Open(s)
       PROVE  StreamTypeOK' /\ InHandOK'
  <2>1. CASE Returns(s)
    BY <1>16, <1>18, <2>1 DEF Open
  <2>2. CASE file /\ spc' = [spc EXCEPT ![s] = "write"] /\ UNCHANGED <<smsg, plock>>
    <3>1. spc' \in [Senders -> {"idle", "test", "open", "write"}]
          /\ \A t \in Senders : spc'[t] # "idle" => smsg'[t] \in Msgs
      BY <1>18, <2>2 DEF Open
    <3> QED
      BY <1>18, <2>2, <3>1 DEF Open
  <2> QED
    BY <1>18, <2>1, <2>2 DEF Open
<1>19. ASSUME NEW s \in Senders, Write(s)
       PROVE  StreamTypeOK' /\ InHandOK'
  <2>1. smsg[s] \in Messages
    BY <1>19 DEF Write
  <2>2. pipe' \in Seq(Messages) /\ accepted' \in Seq(Messages)
    BY <1>19, <2>1 DEF Write
  <2>3. Returns(s)
    BY <1>19 DEF Write
  <2> QED
    BY <1>16, <1>19, <2>2, <2>3 DEF Write
<1>20. CASE UNCHANGED streamVars
  BY <1>20 DEF streamVars
<1> QED
  BY <1>1, <1>2, <1>3, <1>4, <1>5, <1>6, <1>7, <1>8, <1>9, <1>10, <1>11, <1>12, <1>13, <1>14,
     <1>15, <1>17, <1>18, <1>19, <1>20 DEF StreamNext, Serve, Send

\* Where nothing is received and receive_loop keeps its place, nothing changes.
LEMMA FrameStays ==
  ASSUME FrameOK, FramedInOrder, UNCHANGED <<stream, framed, begin, taken>>,
         arrived <= arrived', arrived' <= StreamEnd, arrived \in Nat, arrived' \in Nat, taken \in Nat,
         Ended => Ended', ~Ended' => Passed' = Passed,
         doing' \in {"select", "write", "recv"} => doing \in {"select", "write", "recv"}
  PROVE  FrameOK' /\ FramedInOrder'
<1>1. FramedInOrder'
  BY DEF FramedInOrder, Sound
<1>2. begin' <= taken' /\ taken' <= arrived' /\ arrived' <= StreamEnd'
  <2>1. StreamEnd' = StreamEnd
    BY DEF StreamEnd, EndOf
  <2>2. taken <= arrived'
    BY DEF FrameOK
  <2> QED
    BY <2>1, <2>2 DEF FrameOK
<1>3. ASSUME ~Ended' PROVE IsCut(Passed)' /\ AllFramed(Passed)'
  <2>1. IsCut(Passed) /\ AllFramed(Passed) /\ Passed' = Passed
    BY <1>3 DEF FrameOK
  <2>2. IsCut(Passed)'
    BY <2>1 DEF IsCut, StreamEnd, EndOf
  <2>3. AllFramed(Passed)'
    BY <2>1 DEF AllFramed, Sound, EndOf
  <2> QED
    BY <2>2, <2>3
<1>4. ASSUME doing' \in {"select", "write", "recv"}, taken' > begin'
      PROVE  \E k \in DOMAIN stream' : Partly(k)'
  BY <1>4 DEF FrameOK, Partly, EndOf
<1> QED
  BY <1>1, <1>2, <1>3, <1>4 DEF FrameOK

\* What recv returns is the rest of a message, or part of it: only a whole message that
\* is not too big goes to receive_message, and none is passed over.
LEMMA RecvKeepsFrames ==
  ASSUME ReceiverAssumption, StreamTypeOK, FrameOK, FramedInOrder, Recv
  PROVE  FrameOK' /\ FramedInOrder'
<1>0. /\ doing = "recv" /\ UNCHANGED <<stream, arrived, begin>>
      /\ begin \in Nat /\ taken \in Nat /\ arrived \in Nat
      /\ begin <= taken /\ arrived <= StreamEnd /\ IsCut(begin) /\ AllFramed(begin)
  BY DEF Recv, StreamTypeOK, FrameOK, Passed, Ended
<1>1. StreamEnd' = StreamEnd /\ Sound' = Sound
  BY <1>0 DEF StreamEnd, EndOf, Sound
<1>2. CASE doing' = "error" /\ framed' = framed /\ taken <= taken' /\ taken' <= arrived /\ taken' \in Nat
  BY <1>0, <1>1, <1>2 DEF FrameOK, FramedInOrder, Ended
<1>3. ASSUME NEW k \in DOMAIN stream, stream[k].start = begin, taken' \in Nat,
             taken <= taken', taken' <= arrived, taken' <= EndOf(k)
      PROVE  /\ begin' <= taken' /\ taken' <= arrived' /\ arrived' <= StreamEnd'
             /\ EndOf(k) \in Nat /\ begin < EndOf(k)
             /\ \A j \in DOMAIN stream :
                  /\ j \in Nat /\ EndOf(j) \in Nat
                  /\ EndOf(j) <= EndOf(k) <=> j <= k
                  /\ EndOf(j) <= begin <=> j < k
  <2>1. /\ k \in Nat /\ EndOf(k) \in Nat /\ begin < EndOf(k)
        /\ \A j \in DOMAIN stream : j < k => EndOf(j) <= begin
        /\ \A j \in DOMAIN stream : j \in Nat /\ EndOf(j) \in Nat
    BY <1>3, Cut
  <2>2. \A j \in DOMAIN stream : EndOf(j) <= EndOf(k) <=> j <= k
    BY OneAt
  <2>3. \A j \in DOMAIN stream : EndOf(j) <= begin => j < k
    BY <1>0, <2>1, <2>2
  <2> QED
    BY <1>0, <1>1, <1>3, <2>1, <2>2, <2>3
<1>4. ASSUME NEW k \in DOMAIN stream, stream[k].start = begin, taken' \in Nat,
             taken <= taken', taken' <= arrived, taken' <= EndOf(k),
             doing' = "select", framed' = framed, stream[k].version = 1, taken' < EndOf(k)
      PROVE  FrameOK' /\ FramedInOrder'
  <2>1. begin' <= taken' /\ taken' <= arrived' /\ arrived' <= StreamEnd'
    BY <1>3, <1>4
  <2>2. FramedInOrder'
    BY <1>1, <1>4 DEF FramedInOrder
  <2>3. IsCut(Passed)' /\ AllFramed(Passed)'
    BY <1>0, <1>1, <1>4 DEF IsCut, AllFramed, Passed, EndOf
  <2>4. k \in DOMAIN stream' /\ Partly(k)'
    BY <1>0, <1>4 DEF Partly, EndOf
  <2> QED
    BY <2>1, <2>2, <2>3, <2>4 DEF FrameOK
<1>5. ASSUME NEW k \in DOMAIN stream, stream[k].start = begin, taken' \in Nat,
             taken <= taken', taken' <= arrived, taken' <= EndOf(k),
             doing' = "loop", framed' = framed, stream[k].version # 1, taken' = EndOf(k)
      PROVE  FrameOK' /\ FramedInOrder'
  <2>1. /\ begin' <= taken' /\ taken' <= arrived' /\ arrived' <= StreamEnd'
        /\ \A j \in DOMAIN stream : /\ j \in Nat /\ EndOf(j) \in Nat
                                    /\ EndOf(j) <= EndOf(k) <=> j <= k
                                    /\ EndOf(j) <= begin <=> j < k
    BY <1>3, <1>5
  <2>2. FramedInOrder'
    BY <1>1, <1>5 DEF FramedInOrder
  <2>3. IsCut(EndOf(k))
    BY Cut
  <2>4. \A j \in DOMAIN stream : j # k => (EndOf(j) <= EndOf(k) <=> EndOf(j) <= begin)
    <3>1. k \in Nat
      BY <2>1
    <3> QED
      BY <2>1, <3>1
  <2>5. AllFramed(EndOf(k))
    BY <1>0, <1>5, <2>4 DEF AllFramed, Sound
  <2>6. IsCut(Passed)' /\ AllFramed(Passed)'
    <3>1. Passed' = EndOf(k)
      BY <1>5 DEF Passed
    <3> QED
      BY <1>0, <1>1, <1>5, <2>3, <2>5, <3>1 DEF IsCut, AllFramed, EndOf
  <2> QED
    BY <1>5, <2>1, <2>2, <2>6 DEF FrameOK
<1>6. ASSUME NEW k \in DOMAIN stream, stream[k].start = begin, taken' \in Nat,
             taken <= taken', taken' <= arrived, taken' <= EndOf(k),
             doing' = "handle", framed' = Append(framed, k), stream[k].version = 1,
             taken' = EndOf(k), stream[k].length <= MAX
      PROVE  FrameOK' /\ FramedInOrder'
  <2>1. /\ begin' <= taken' /\ taken' <= arrived' /\ arrived' <= StreamEnd'
        /\ \A j \in DOMAIN stream : /\ j \in Nat /\ EndOf(j) \in Nat
                                    /\ EndOf(j) <= EndOf(k) <=> j <= k
                                    /\ EndOf(j) <= begin <=> j < k
    BY <1>3, <1>6
  <2>2. k \in Nat /\ framed \in Seq(Nat)
    BY <2>1 DEF StreamTypeOK
  <2>3. \A j \in DOMAIN stream : j # k => (EndOf(j) <= EndOf(k) <=> EndOf(j) <= begin)
    BY <2>1, <2>2
  <2>4. k \in Sound
    <3>1. \A j \in 1 .. k : j \in DOMAIN stream /\ (EndOf(j) <= begin \/ j = k)
      <4>1. DOMAIN stream = 1 .. Len(stream)
        BY Cut
      <4> QED
        BY <2>1, <2>2, <4>1
    <3> QED
      BY <1>0, <1>6, <3>1 DEF AllFramed, Sound
  <2>5. /\ DOMAIN framed = 1 .. Len(framed) /\ Len(framed) \in Nat
        /\ DOMAIN framed' = 1 .. Len(framed) + 1
        /\ \A i \in 1 .. Len(framed) : framed'[i] = framed[i]
        /\ framed'[Len(framed) + 1] = k
    BY ONLY <1>6, <2>2, AppendProperties, LenProperties
  <2>6. \A i \in 1 .. Len(framed) : framed[i] \in Sound /\ framed[i] < k
    <3>1. ASSUME NEW i \in 1 .. Len(framed) PROVE framed[i] \in Sound /\ framed[i] < k
      <4>1. framed[i] \in Sound
        BY <2>5 DEF FramedInOrder
      <4>2. EndOf(framed[i]) <= begin /\ framed[i] \in DOMAIN stream
        BY <1>0, <2>5, <4>1 DEF AllFramed, Sound
      <4> QED
        BY <2>1, <4>1, <4>2
    <3> QED
      BY <3>1
  <2>7. \A j \in Sound : j < k => \E i \in 1 .. Len(framed) : framed[i] = j
    BY <1>0, <2>1, <2>5 DEF AllFramed, Sound
  <2>8. FramedInOrder'
    <3>1. ASSUME NEW i \in DOMAIN framed'
          PROVE  /\ framed'[i] \in Sound
                 /\ \A j \in 1 .. i - 1 : framed'[j] < framed'[i]
                 /\ \A m \in Sound : m < framed'[i] => \E j \in 1 .. i - 1 : framed'[j] = m
      <4>1. CASE i \in 1 .. Len(framed)
        <5>1. /\ framed[i] \in Sound
              /\ \A j \in 1 .. i - 1 : framed[j] < framed[i]
              /\ \A m \in Sound : m < framed[i] => \E j \in 1 .. i - 1 : framed[j] = m
          BY <2>5, <4>1 DEF FramedInOrder
        <5>2. framed'[i] = framed[i] /\ \A j \in 1 .. i - 1 : framed'[j] = framed[j]
          BY <2>5, <4>1
        <5> QED
          BY <5>1, <5>2
      <4>2. CASE i = Len(framed) + 1
        <5>1. 1 .. i - 1 = 1 .. Len(framed) /\ framed'[i] = k
          BY <2>5, <4>2
        <5> QED
          BY <2>4, <2>5, <2>6, <2>7, <5>1
      <4> QED
        BY <2>5, <3>1, <4>1, <4>2
    <3> QED
      BY <1>1, <3>1 DEF FramedInOrder
  <2>9. \A j \in DOMAIN stream : EndOf(j) <= EndOf(k) /\ stream[j].version = 1 => stream[j].length <= MAX
    BY <1>0, <1>6, <2>3 DEF AllFramed
  <2>10. \A j \in Sound : EndOf(j) <= EndOf(k) <=> \E i \in DOMAIN framed' : framed'[i] = j
    <3>1. \A j \in Sound : j # k => (EndOf(j) <= begin <=> \E i \in DOMAIN framed' : framed'[i] = j)
      BY <1>0, <2>5 DEF AllFramed
    <3>2. \E i \in DOMAIN framed' : framed'[i] = k
      BY <2>5
    <3>3. EndOf(k) <= EndOf(k)
      BY <2>1
    <3> QED
      BY <2>3, <3>1, <3>2, <3>3 DEF Sound
  <2>11. IsCut(EndOf(k))
    BY Cut
  <2>12. IsCut(Passed)' /\ AllFramed(Passed)'
    <3>1. Passed' = EndOf(k)
      BY <1>6 DEF Passed
    <3> QED
      BY <1>0, <1>1, <2>9, <2>10, <2>11, <3>1 DEF IsCut, AllFramed, EndOf
  <2> QED
    BY <1>6, <2>1, <2>8, <2>12 DEF FrameOK
<1> QED
  BY <1>2, <1>4, <1>5, <1>6, RecvFrames

LEMMA FrameStep ==
  ASSUME ReceiverAssumption, StreamTypeOK, FrameOK, FramedInOrder, [StreamNext]_streamVars
  PROVE  FrameOK' /\ FramedInOrder'
<1> USE DEF inVars, outVars, fileVars, sendVars, Passed, Ended
<1>0. /\ begin \in Nat /\ taken \in Nat /\ arrived \in Nat /\ StreamEnd \in Nat
      /\ begin <= taken /\ taken <= arrived /\ arrived <= StreamEnd /\ arrived <= arrived
  BY Cut DEF StreamTypeOK, FrameOK
<1>1. CASE Arrive
  <2>1. arrived' \in Nat /\ arrived <= arrived' /\ arrived' <= StreamEnd
    BY <1>0, <1>1 DEF Arrive
  <2> QED
    BY <1>0, <1>1, <2>1, FrameStays DEF Arrive
<1>2. CASE HangUp
  BY <1>0, <1>2, FrameStays DEF HangUp
<1>3. CASE Shutdown
  BY <1>0, <1>3, FrameStays DEF Shutdown
<1>4. CASE Loop
  <2>1. /\ UNCHANGED <<stream, arrived, taken, framed>> /\ begin' = taken
        /\ Passed = taken /\ Passed' = taken /\ ~Ended /\ doing' \in {"error", "select"}
    BY <1>4 DEF Loop
  <2>2. FramedInOrder'
    BY <2>1 DEF FramedInOrder, Sound
  <2>3. StreamEnd' = StreamEnd
    BY <2>1 DEF StreamEnd, EndOf
  <2>4. IsCut(Passed)' /\ AllFramed(Passed)'
    <3>1. IsCut(taken) /\ AllFramed(taken)
      BY <2>1 DEF FrameOK
    <3> QED
      BY <2>1, <2>3, <3>1 DEF IsCut, AllFramed, Sound, EndOf
  <2>5. begin' <= taken' /\ taken' <= arrived' /\ arrived' <= StreamEnd' /\ ~(taken' > begin')
    BY <1>0, <2>1, <2>3
  <2> QED
    BY <2>2, <2>4, <2>5 DEF FrameOK
<1>5. CASE Select
  BY <1>0, <1>5, FrameStays DEF Select
<1>6. CASE SelectFails
  BY <1>0, <1>6, FrameStays DEF SelectFails
<1>7. CASE WriteOut
  BY <1>0, <1>7, FrameStays DEF WriteOut
<1>8. CASE WriteFails
  BY <1>0, <1>8, FrameStays DEF WriteFails
<1>9. CASE Recv
  BY <1>9, RecvKeepsFrames
<1>10. CASE Handle
  BY <1>0, <1>10, FrameStays DEF Handle
<1>11. CASE Process
  BY <1>0, <1>11, FrameStays DEF Process
<1>12. CASE Push
  BY <1>0, <1>12, FrameStays DEF Push
<1>13. CASE Unlink
  BY <1>0, <1>13, FrameStays DEF Unlink
<1>14. CASE Detach
  BY <1>0, <1>14, FrameStays DEF Detach
<1>15. ASSUME NEW s \in Senders, (\E m \in Msgs : Give(s, m)) \/ Send(s)
       PROVE  FrameOK' /\ FramedInOrder'
  <2>1. UNCHANGED <<inVars, doing>>
    BY <1>15 DEF Give, Send, Test, Open, Write
  <2> QED
    BY <1>0, <2>1, FrameStays
<1>16. CASE UNCHANGED streamVars
  BY <1>0, <1>16, FrameStays DEF streamVars
<1> QED
  BY <1>1, <1>2, <1>3, <1>4, <1>5, <1>6, <1>7, <1>8, <1>9, <1>10, <1>11, <1>12, <1>13, <1>14,
     <1>15, <1>16 DEF StreamNext, Serve

\* Where nobody touches the pipe, nothing is lost.
LEMMA PipeStays ==
  ASSUME WrittenInOrder, UNCHANGED <<accepted, pipe>>, Kept' = Kept, Ended => Ended'
  PROVE  WrittenInOrder'
BY DEF WrittenInOrder

\* A message that is put into the pipe is the last of it.
LEMMA PipeGrows ==
  ASSUME StreamTypeOK, WrittenInOrder, NEW m \in Messages, UNCHANGED <<hand, written>>,
         Kept \in Seq(Messages),
         pipe' = Append(pipe, m), accepted' = Append(accepted, m), Ended => Ended'
  PROVE  WrittenInOrder'
<1> DEFINE lost == Len(accepted) - Len(Kept) - Len(pipe)
<1>1. /\ pipe \in Seq(Messages) /\ accepted \in Seq(Messages)
      /\ Len(pipe) \in Nat /\ Len(accepted) \in Nat /\ Len(Kept) \in Nat
      /\ DOMAIN pipe = 1 .. Len(pipe) /\ DOMAIN Kept = 1 .. Len(Kept)
  BY LenProperties DEF StreamTypeOK
<1>2. /\ Len(pipe') = Len(pipe) + 1 /\ DOMAIN pipe' = 1 .. Len(pipe) + 1
      /\ Len(accepted') = Len(accepted) + 1
      /\ \A i \in 1 .. Len(pipe) : pipe'[i] = pipe[i]
      /\ pipe'[Len(pipe) + 1] = m
      /\ \A i \in 1 .. Len(accepted) : accepted'[i] = accepted[i]
      /\ accepted'[Len(accepted) + 1] = m
  <2>1. pipe' \in Seq(Messages) /\ accepted' \in Seq(Messages)
    BY <1>1, AppendProperties
  <2> QED
    BY <1>1, <2>1, AppendProperties, LenProperties
<1>3. /\ lost \in 0 .. 1 /\ (lost = 1 => Ended)
      /\ \A i \in 1 .. Len(Kept) : accepted[i] = Kept[i]
      /\ \A i \in 1 .. Len(pipe) : accepted[Len(Kept) + lost + i] = pipe[i]
  BY <1>1 DEF WrittenInOrder
<1>4. Kept' = Kept /\ Len(accepted') - Len(Kept') - Len(pipe') = lost
  <2>1. Kept' = Kept
    BY DEF Kept
  <2> QED
    BY <1>1, <1>2, <2>1
<1>5. Len(accepted) = Len(Kept) + lost + Len(pipe) /\ lost \in Nat
  BY <1>1, <1>3
<1> HIDE DEF lost
<1>6. ASSUME NEW i \in 1 .. Len(Kept) PROVE accepted'[i] = Kept[i]
  BY <1>1, <1>2, <1>3, <1>5
<1>7. ASSUME NEW i \in 1 .. Len(pipe) + 1 PROVE accepted'[Len(Kept) + lost + i] = pipe'[i]
  <2>1. CASE i \in 1 .. Len(pipe)
    <3>1. Len(Kept) + lost + i \in 1 .. Len(accepted)
      BY <1>1, <1>5, <2>1
    <3> QED
      BY <1>2, <1>3, <2>1, <3>1
  <2>2. CASE i = Len(pipe) + 1
    <3>1. Len(Kept) + lost + i = Len(accepted) + 1
      BY <1>1, <1>5, <2>2
    <3> QED
      BY <1>2, <2>2, <3>1
  <2>3. i \in 1 .. Len(pipe) \/ i = Len(pipe) + 1
    BY ONLY <1>1, i \in 1 .. Len(pipe) + 1
  <2> QED
    BY <2>1, <2>2, <2>3
<1>8. lost \in 0 .. 1 /\ (lost = 1 => Ended')
  BY <1>3
<1> QED
  BY <1>1, <1>2, <1>4, <1>6, <1>7, <1>8 DEF WrittenInOrder

\* The first message of the pipe is the next that select_recv writes.
LEMMA PipeShrinks ==
  ASSUME StreamTypeOK, InHandOK, WrittenInOrder, doing = "select", Nil \notin Messages,
         pipe # <<>>, hand' = Head(pipe), pipe' = Tail(pipe), UNCHANGED <<written, accepted>>
  PROVE  WrittenInOrder'
<1> DEFINE lost == Len(accepted) - Len(Kept) - Len(pipe)
<1>1. /\ pipe \in Seq(Messages) /\ accepted \in Seq(Messages) /\ written \in Seq(Messages)
      /\ hand = Nil /\ ~Ended
  BY DEF StreamTypeOK, InHandOK, Ended
<1>2. /\ Head(pipe) \in Messages /\ Head(pipe) = pipe[1] /\ pipe' \in Seq(Messages)
      /\ Len(pipe') = Len(pipe) - 1 /\ \A i \in 1 .. Len(pipe') : pipe'[i] = pipe[i + 1]
  BY <1>1, HeadTailProperties
<1>3. Kept = written /\ Kept' = Append(written, pipe[1])
  BY <1>1, <1>2 DEF Kept
<1>4. /\ Kept' \in Seq(Messages) /\ Len(Kept') = Len(written) + 1
      /\ \A i \in 1 .. Len(written) : Kept'[i] = written[i]
      /\ Kept'[Len(written) + 1] = pipe[1]
  BY <1>1, <1>2, <1>3, AppendProperties
<1>5. /\ Len(pipe) \in Nat /\ Len(accepted) \in Nat /\ Len(written) \in Nat /\ Len(pipe) > 0
      /\ DOMAIN pipe = 1 .. Len(pipe) /\ DOMAIN pipe' = 1 .. Len(pipe')
      /\ DOMAIN written = 1 .. Len(written) /\ DOMAIN Kept' = 1 .. Len(Kept')
  BY <1>1, <1>2, <1>4, LenProperties, EmptySeq
<1>6. /\ lost = 0
      /\ \A i \in 1 .. Len(written) : accepted[i] = written[i]
      /\ \A i \in 1 .. Len(pipe) : accepted[Len(written) + i] = pipe[i]
  <2>1. lost \in 0 .. 1 /\ lost # 1
    BY <1>1 DEF WrittenInOrder
  <2>2. lost = 0
    BY <2>1
  <2>3. \A i \in 1 .. Len(written) : accepted[i] = written[i]
    BY <1>3, <1>5 DEF WrittenInOrder
  <2>4. \A i \in 1 .. Len(pipe) : accepted[Len(written) + lost + i] = pipe[i]
    BY <1>3, <1>5 DEF WrittenInOrder
  <2>5. \A i \in 1 .. Len(pipe) : Len(written) + lost + i = Len(written) + i
    BY <1>5, <2>2
  <2> QED
    BY <2>2, <2>3, <2>4, <2>5
<1>7. Len(accepted') - Len(Kept') - Len(pipe') = 0
  BY <1>2, <1>3, <1>4, <1>5, <1>6
<1>8. ASSUME NEW i \in 1 .. Len(Kept') PROVE accepted'[i] = Kept'[i]
  <2>1. CASE i \in 1 .. Len(written)
    BY <1>4, <1>6, <2>1
  <2>2. CASE i = Len(written) + 1
    <3>1. 1 \in 1 .. Len(pipe)
      BY <1>5
    <3>2. accepted[Len(written) + 1] = pipe[1]
      BY <1>6, <3>1
    <3> QED
      BY <1>4, <2>2, <3>2
  <2> QED
    BY <1>4, <1>5, <2>1, <2>2
<1>9. ASSUME NEW i \in 1 .. Len(pipe') PROVE accepted'[Len(Kept') + 0 + i] = pipe'[i]
  <2>1. i + 1 \in 1 .. Len(pipe) /\ Len(Kept') + 0 + i = Len(written) + (i + 1)
    BY <1>2, <1>4, <1>5
  <2>2. accepted[Len(written) + (i + 1)] = pipe[i + 1]
    BY <1>6, <2>1
  <2> QED
    BY <1>2, <2>1, <2>2
<1>10. 0 \in 0 .. 1 /\ (0 = 1 => Ended')
  OBVIOUS
<1>11. /\ \A i \in DOMAIN Kept' : accepted'[i] = Kept'[i]
       /\ \A i \in DOMAIN pipe' : accepted'[Len(Kept') + 0 + i] = pipe'[i]
  BY <1>5, <1>8, <1>9
<1> QED
  BY ONLY <1>7, <1>10, <1>11 DEF WrittenInOrder

\* A write that fails loses the message in hand, and ends the receiver.
LEMMA PipeLoses ==
  ASSUME StreamTypeOK, InHandOK, WrittenInOrder, WriteFails, Nil \notin Messages
  PROVE  WrittenInOrder'
<1> DEFINE lost == Len(accepted) - Len(Kept) - Len(pipe)
<1>1. /\ doing = "write" /\ hand \in Messages /\ hand # Nil /\ ~Ended /\ written \in Seq(Messages)
      /\ accepted \in Seq(Messages) /\ pipe \in Seq(Messages)
      /\ doing' = "error" /\ hand' = Nil /\ UNCHANGED <<pipe, written, accepted>>
  BY DEF WriteFails, outVars, StreamTypeOK, InHandOK, Ended
<1>2. Kept = Append(written, hand) /\ Kept' = written /\ Ended'
  BY <1>1 DEF Kept, Ended
<1>3. Len(Kept) = Len(written) + 1 /\ \A i \in 1 .. Len(written) : Kept[i] = written[i]
  BY <1>1, <1>2, AppendProperties
<1>4. /\ Len(pipe) \in Nat /\ Len(accepted) \in Nat /\ Len(written) \in Nat
      /\ DOMAIN written = 1 .. Len(written) /\ DOMAIN pipe = 1 .. Len(pipe)
      /\ Kept \in Seq(Messages) /\ DOMAIN Kept = 1 .. Len(Kept)
  BY <1>1, <1>2, AppendProperties, LenProperties
<1>5. lost = 0
  BY <1>1 DEF WrittenInOrder
<1>6. /\ \A i \in 1 .. Len(Kept) : accepted[i] = Kept[i]
      /\ \A i \in 1 .. Len(pipe) : accepted[Len(Kept) + lost + i] = pipe[i]
  BY <1>4 DEF WrittenInOrder
<1>7. Len(accepted') - Len(Kept') - Len(pipe') = 1
  BY <1>1, <1>2, <1>3, <1>4, <1>5
<1>8. \A i \in DOMAIN Kept' : accepted'[i] = Kept'[i]
  <2>1. \A i \in 1 .. Len(written) : i \in 1 .. Len(Kept)
    BY <1>3, <1>4
  <2> QED
    BY <1>1, <1>2, <1>3, <1>4, <1>6, <2>1
<1>9. \A i \in DOMAIN pipe' : accepted'[Len(Kept') + 1 + i] = pipe'[i]
  <2>1. \A i \in 1 .. Len(pipe) : Len(Kept) + lost + i = Len(written) + 1 + i
    BY <1>3, <1>4, <1>5
  <2> QED
    BY <1>1, <1>2, <1>4, <1>6, <2>1
<1>10. 1 \in 0 .. 1 /\ (1 = 1 => Ended')
  BY <1>2
<1> QED
  BY ONLY <1>7, <1>8, <1>9, <1>10 DEF WrittenInOrder

LEMMA PipeStep ==
  ASSUME ReceiverAssumption, StreamTypeOK, InHandOK, WrittenInOrder, [StreamNext]_streamVars
  PROVE  WrittenInOrder'
<1> USE DEF inVars, outVars, fileVars, sendVars
<1>0. Nil \notin Messages
  BY ReceiverAssumption DEF Messages
<1>1. Kept \in Seq(Messages)
  <2>1. CASE hand = Nil
    BY <2>1 DEF Kept, StreamTypeOK
  <2>2. CASE hand # Nil
    BY <2>2, AppendProperties DEF Kept, StreamTypeOK
  <2> QED
    BY <2>1, <2>2
<1>2. CASE Arrive \/ HangUp \/ Shutdown \/ Loop \/ SelectFails \/ Recv \/ Handle \/ Process
           \/ Unlink \/ Detach
  <2>1. UNCHANGED <<hand, pipe, written, accepted>> /\ (Ended => Ended')
    BY <1>2 DEF Arrive, HangUp, Shutdown, Loop, SelectFails, Recv, Handle, Process, Unlink, Detach,
                Ended
  <2> QED
    BY <2>1, PipeStays DEF Kept
<1>3. CASE Select
  <2>1. CASE pipe # <<>> /\ hand' = Head(pipe) /\ pipe' = Tail(pipe) /\ doing' = "write"
    BY <1>0, <1>3, <2>1, PipeShrinks DEF Select
  <2>2. CASE pipe = <<>> /\ doing' = "recv" /\ UNCHANGED <<hand, pipe>>
    <3>1. Kept' = Kept
      BY <1>3, <2>2 DEF Select, Kept
    <3> QED
      BY <1>3, <2>2, <3>1, PipeStays DEF Select, Ended
  <2> QED
    BY <1>3, <2>1, <2>2 DEF Select
<1>4. CASE WriteOut
  <2>1. doing = "write" /\ hand # Nil /\ hand' = Nil /\ written' = Append(written, hand)
        /\ UNCHANGED <<pipe, accepted>> /\ (Ended => Ended')
    BY <1>4 DEF WriteOut, InHandOK, Ended
  <2>2. Kept' = Kept
    BY <2>1 DEF Kept
  <2> QED
    BY <2>1, <2>2, PipeStays
<1>5. CASE WriteFails
  BY <1>0, <1>5, PipeLoses
<1>6. CASE Push
  <2>1. framed \in Seq(Nat) /\ framed # <<>>
    BY <1>6 DEF Push, StreamTypeOK, InHandOK
  <2>2. framed[Len(framed)] \in Messages
    BY <2>1, EmptySeq DEF Messages
  <2>3. UNCHANGED <<hand, written>> /\ (Ended => Ended')
        /\ pipe' = Append(pipe, framed[Len(framed)]) /\ accepted' = Append(accepted, framed[Len(framed)])
    BY <1>6 DEF Push, Ended
  <2> QED
    BY <1>1, <2>2, <2>3, PipeGrows
<1>7. ASSUME NEW s \in Senders, (\E m \in Msgs : Give(s, m)) \/ Test(s) \/ Open(s)
      PROVE  WrittenInOrder'
  <2>1. UNCHANGED <<hand, pipe, written, accepted, doing>>
    BY <1>7 DEF Give, Test, Open
  <2> QED
    BY <2>1, PipeStays DEF Kept, Ended
<1>8. ASSUME NEW s \in Senders, Write(s)
      PROVE  WrittenInOrder'
  <2>1. smsg[s] \in Messages
    BY <1>8 DEF Write, InHandOK, Messages
  <2>2. UNCHANGED <<hand, written, doing>> /\ pipe' = Append(pipe, smsg[s])
        /\ accepted' = Append(accepted, smsg[s])
    BY <1>8 DEF Write
  <2> QED
    BY <1>1, <2>1, <2>2, PipeGrows DEF Ended
<1>9. CASE UNCHANGED streamVars
  BY <1>9, PipeStays DEF streamVars, Kept, Ended
<1> QED
  BY <1>2, <1>3, <1>4, <1>5, <1>6, <1>7, <1>8, <1>9 DEF StreamNext, Serve, Send

LEMMA StreamInitInv ==
  ASSUME ReceiverAssumption, StreamInit
  PROVE  StreamIInv
<1>1. StreamTypeOK
  <2>1. /\ framed \in Seq(Nat) /\ answered \in Seq(Nat) /\ pipe \in Seq(Messages)
        /\ written \in Seq(Messages) /\ accepted \in Seq(Messages)
    BY EmptySeq DEF StreamInit
  <2>2. /\ spc \in [Senders -> {"idle", "test", "open", "write"}]
        /\ smsg \in [Senders -> Msgs \cup {Nil}]
    BY DEF StreamInit
  <2> QED
    BY <2>1, <2>2 DEF StreamInit, StreamTypeOK
<1>2. InHandOK
  BY <1>1 DEF StreamInit, InHandOK
<1>3. FrameOK
  <2>1. begin = 0 /\ taken = 0 /\ arrived = 0 /\ doing = "loop" /\ framed = <<>> /\ Passed = 0
    BY DEF StreamInit, Passed
  <2>2. StreamEnd \in Nat /\ IsCut(0)
    BY <1>1, Cut, ReceiverAssumption
  <2>3. \A k \in DOMAIN stream : ~(EndOf(k) <= 0)
    <3>1. \A k \in DOMAIN stream :
            stream[k].start \in Nat /\ EndOf(k) \in Nat /\ stream[k].start < EndOf(k)
      BY <1>1, Cut, ReceiverAssumption
    <3> QED
      BY ONLY <3>1
  <2>4. AllFramed(0)
    BY <2>1, <2>3 DEF AllFramed, Sound
  <2> QED
    BY <2>1, <2>2, <2>4 DEF FrameOK
<1>4. FramedInOrder
  BY DEF StreamInit, FramedInOrder
<1>5. WrittenInOrder
  <2>1. Kept = <<>> /\ accepted = <<>> /\ pipe = <<>>
    BY DEF StreamInit, Kept
  <2>2. Len(<<>>) = 0 /\ DOMAIN <<>> = {}
    OBVIOUS
  <2>3. Len(accepted) - Len(Kept) - Len(pipe) = 0
    <3>1. Len(accepted) = 0 /\ Len(Kept) = 0 /\ Len(pipe) = 0
      BY ONLY <2>1, <2>2
    <3> QED
      BY ONLY <3>1
  <2>4. 0 \in 0 .. 1 /\ 0 # 1
    OBVIOUS
  <2> QED
    BY ONLY <2>1, <2>2, <2>3, <2>4 DEF WrittenInOrder
<1> QED
  BY <1>1, <1>2, <1>3, <1>4, <1>5 DEF StreamIInv

LEMMA StreamNextInv ==
  ASSUME ReceiverAssumption, StreamIInv, [StreamNext]_streamVars
  PROVE  StreamIInv'
BY StreamTypeStep, FrameStep, PipeStep DEF StreamIInv

LEMMA StreamInvariance == StreamSpec => []StreamIInv
<1>1. StreamInit => StreamIInv
  BY ReceiverAssumption, StreamInitInv
<1>2. StreamIInv /\ [StreamNext]_streamVars => StreamIInv'
  BY ReceiverAssumption, StreamNextInv
<1> QED
  BY <1>1, <1>2, PTL DEF StreamSpec

\* The receiver and the senders keep their variables to their types, and hold a message
\* where they need one (receive_loop, select_recv, peer_send_msg).
THEOREM StreamTypeCorrect == StreamSpec => [](StreamTypeOK /\ InHandOK)
<1>1. StreamIInv => StreamTypeOK /\ InHandOK
  BY DEF StreamIInv
<1> QED
  BY <1>1, StreamInvariance, PTL

\* Whatever the other side sends, however TCP cuts it and whatever other processes put
\* into the pipe meanwhile: receive_message gets the messages of the stream whole, in
\* order and once each, and misses none; and of what peer_send_msg accepted nothing
\* disappears, changes places or comes twice but the one message at which a write failed
\* (receive_loop, select_recv, peer_send_msg).
THEOREM StreamsAreSound == StreamSpec => []StreamsSound
<1>1. StreamIInv => StreamsSound
  BY DEF StreamIInv, StreamsSound
<1> QED
  BY <1>1, StreamInvariance, PTL
=============================================================================
