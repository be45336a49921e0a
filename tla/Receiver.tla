------------------------------ MODULE Receiver ------------------------------
(***************************************************************************)
(* One receiver process (cdp/receiver.c) between its two streams: the      *)
(* bytes that arrive on the socket, which receive_loop cuts into messages, *)
(* and the messages that other processes put into its pipe with            *)
(* peer_send_msg, which select_recv writes to the socket.                  *)
(*                                                                         *)
(* The parent that forked the receiver never closes its copies of the      *)
(* pipe, so a sender that has opened it never fails for want of a reader.  *)
(* What a message does to its peer is the subject of PeerStateMachine:     *)
(* here it may be ignored, taken note of, or answered, through the pipe    *)
(* (Snd_DWA, Snd_DPA) or on the socket (the CEA).                          *)
(***************************************************************************)
EXTENDS Integers, Sequences, SequencesExt, FiniteSetsExt

CONSTANTS
  Senders,   \* processes that call peer_send_msg
  Locking,   \* those of them that hold the lock of the peer (Snd_DWR, Snd_DPR)
  Msgs,      \* messages they send
  Streams,   \* what the other side may send: messages, and bytes that begin none
  HDR,       \* hdr_len
  MAX,       \* DP_MAX_MSG_LENGTH
  PIPE,      \* messages that the pipe holds
  receiver,  \* the receiver process
  Nil

\* Of each message of a stream its version, where it starts and its length: it starts
\* where the one before ends. A byte that is not a version 1 stands for itself.
WellCut(st) ==
  \A k \in DOMAIN st :
    /\ st[k].version \in Nat /\ st[k].start \in Nat /\ st[k].length \in Nat
    /\ IF st[k].version = 1 THEN st[k].length >= HDR ELSE st[k].length = 1
    /\ st[k].start = IF k = 1 THEN 0 ELSE st[k - 1].start + st[k - 1].length
    /\ \A j \in 1 .. k - 1 : st[j].start + st[j].length <= st[k].start

ASSUME ReceiverAssumption ==
  /\ HDR \in Nat /\ HDR > 1 /\ MAX \in Nat
  /\ \A st \in Streams : st \in Seq([version : Nat, start : Nat, length : Nat]) /\ WellCut(st)
  /\ Nil \notin Msgs \cup Nat \cup Senders \cup {receiver} /\ receiver \notin Senders

VARIABLES
  stream,    \* what the other side sends
  arrived,   \* bytes of it that have arrived
  taken,     \* bytes of it that recv has returned
  hungup,    \* the other side has closed the connection
  begin,     \* buf and msg of receive_loop hold the bytes from begin + 1 to taken
  framed,    \* the messages that were complete, as their place in stream; 0 for other
             \* bytes taken for a message
  ready,     \* FD_ISSET(s, &rfds)
  hand,      \* msg of select_recv
  pipe,      \* the messages in the pipe; an answer is the number of what it answers
  attached,  \* p->send_pipe names the pipe
  file,      \* the pipe has a name in the file system
  written,   \* messages from the pipe that were written to the socket
  answered,  \* answers written to it directly
  plock,     \* p->lock: the process that holds it, or Nil
  down,      \* *shutdownx
  doing,     \* where the receiver is
  spc,       \* where each sender is
  smsg,      \* the message each sender sends
  fresh,     \* messages that were not sent yet
  accepted   \* messages that peer_send_msg has put into the pipe, in order

inVars == <<stream, arrived, taken, hungup, begin, framed>>
outVars == <<ready, hand, pipe, written, answered>>
fileVars == <<attached, file, plock, down>>
sendVars == <<spc, smsg, fresh>>
streamVars == <<inVars, outVars, fileVars, doing, sendVars, accepted>>

(******************************* Bytes ***********************************)

EndOf(k) == stream[k].start + stream[k].length

\* The message that byte i belongs to.
MessageAt(i) == CHOOSE k \in DOMAIN stream : stream[k].start < i /\ i <= EndOf(k)

\* The last byte of the stream.
StreamEnd == IF stream = <<>> THEN 0 ELSE EndOf(Len(stream))

IsVersion1 == \E k \in DOMAIN stream : stream[k].start = begin /\ stream[k].version = 1

\* get_3bytes(buf+1).
LengthIn == stream[MessageAt(begin + 2)].length

\* A mutant: as many bytes as fit the header, also of the rest of a message.
AskedHeader(got) ==
  IF got = 0 THEN 1 ELSE IF got < HDR THEN HDR - got ELSE HDR

\* The bytes receive_loop asks for: one, the rest of the header, the rest of the message.
Asked(got) ==
  IF got = 0 THEN 1 ELSE IF got < HDR THEN HDR - got ELSE LengthIn - got

Readable == arrived > taken \/ hungup

StreamInit ==
  /\ stream \in Streams /\ arrived = 0 /\ taken = 0 /\ hungup = FALSE
  /\ begin = 0 /\ framed = <<>>
  /\ ready = FALSE /\ hand = Nil /\ pipe = <<>> /\ written = <<>> /\ answered = <<>>
  /\ attached = TRUE /\ file = TRUE /\ plock = Nil /\ down = FALSE
  /\ doing = "loop"
  /\ spc = [s \in Senders |-> "idle"] /\ smsg = [s \in Senders |-> Nil]
  /\ fresh = Msgs /\ accepted = <<>>

(**************************** The other side *****************************)

Arrive ==
  /\ ~hungup /\ arrived < StreamEnd
  /\ arrived' \in arrived + 1 .. StreamEnd
  /\ UNCHANGED <<stream, taken, hungup, begin, framed, outVars, fileVars, doing,
                 sendVars, accepted>>

HangUp ==
  /\ ~hungup
  /\ hungup' = TRUE
  /\ UNCHANGED <<stream, arrived, taken, begin, framed, outVars, fileVars, doing,
                 sendVars, accepted>>

Shutdown ==
  /\ ~down
  /\ down' = TRUE
  /\ UNCHANGED <<inVars, outVars, attached, file, plock, doing, sendVars, accepted>>

(***************************** The receiver ******************************)

\* The head of receive_loop.
Loop ==
  /\ doing = "loop"
  /\ begin' = taken
  /\ doing' = IF down THEN "error" ELSE "select"
  /\ UNCHANGED <<stream, arrived, taken, hungup, framed, outVars, fileVars, sendVars, accepted>>

\* select returns when there is something to read, and the pipe comes first. On a
\* shutdown select_recv returns 0 bytes and receive_loop calls it again for ever: there
\* is no step out of it.
Select ==
  /\ doing = "select" /\ ~down
  /\ ready' = Readable
  /\ \/ /\ pipe # <<>>
        /\ hand' = Head(pipe) /\ pipe' = Tail(pipe) /\ doing' = "write"
     \/ pipe = <<>> /\ Readable /\ doing' = "recv" /\ UNCHANGED <<hand, pipe>>
  /\ UNCHANGED <<inVars, written, answered, fileVars, sendVars, accepted>>

\* An exception on the socket, or a signal: select_recv returns -1.
SelectFails ==
  /\ doing = "select" /\ ~down
  /\ doing' = "error"
  /\ UNCHANGED <<inVars, outVars, fileVars, sendVars, accepted>>

\* A mutant: recv is called whether there is something to read or not, and waits.
WriteAndRecv ==
  /\ doing = "write"
  /\ written' = Append(written, hand)
  /\ hand' = Nil
  /\ doing' = "recv"
  /\ UNCHANGED <<inVars, ready, pipe, answered, fileVars, sendVars, accepted>>

\* The message from the pipe is written and freed. Without anything to read
\* select_recv returns 0 bytes and is called again.
WriteOut ==
  /\ doing = "write"
  /\ written' = Append(written, hand)
  /\ hand' = Nil
  /\ doing' = IF ready THEN "recv" ELSE "select"
  /\ UNCHANGED <<inVars, ready, pipe, answered, fileVars, sendVars, accepted>>

\* The write fails or is short: the message is freed, the socket closed.
WriteFails ==
  /\ doing = "write"
  /\ hand' = Nil
  /\ doing' = "error"
  /\ UNCHANGED <<inVars, ready, pipe, written, answered, fileVars, sendVars, accepted>>

\* The message that is complete, and nothing else, is in the buffer up to byte last.
Complete(k, last) == stream[k].start = begin /\ EndOf(k) = last

\* What receive_loop does with the bytes it has, got of them up to byte last: one that
\* is no version 1 is dropped, a message that is too big, or for which there is no
\* memory, ends the connection.
Reads(last, got) ==
  \/ /\ got < HDR
     /\ doing' = IF IsVersion1 THEN "select" ELSE "loop"
     /\ UNCHANGED framed
  \/ got = HDR /\ doing' = "error" /\ UNCHANGED framed
  \/ /\ got >= HDR /\ LengthIn <= MAX /\ got < LengthIn
     /\ doing' = "select"
     /\ UNCHANGED framed
  \/ /\ got >= HDR /\ LengthIn <= MAX /\ got >= LengthIn
     /\ doing' = "handle"
     /\ \/ \E k \in DOMAIN stream : Complete(k, last) /\ framed' = Append(framed, k)
        \/ /\ \A k \in DOMAIN stream : ~Complete(k, last)
           /\ framed' = Append(framed, 0)

Recv ==
  /\ doing = "recv"
  /\ \/ LET n == Min({Asked(taken - begin), arrived - taken}) IN
        /\ n > 0
        /\ taken' = taken + n
        /\ Reads(taken + n, taken + n - begin)
     \/ arrived = taken /\ hungup /\ doing' = "error" /\ UNCHANGED <<taken, framed>>
  /\ UNCHANGED <<stream, arrived, hungup, begin, outVars, fileVars, sendVars, accepted>>

\* receive_message: the message cannot be decoded or is ignored, or goes to sm_process.
Handle ==
  /\ doing = "handle"
  /\ doing' \in {"loop", "lock"}
  /\ UNCHANGED <<inVars, outVars, fileVars, sendVars, accepted>>

\* sm_process, under the lock of the peer: without an answer, with one on the socket
\* (which then may break), or with one through the pipe.
Process ==
  /\ doing = "lock" /\ plock = Nil
  /\ \/ doing' \in {"loop", "error"} /\ UNCHANGED <<answered, plock>>
     \/ /\ answered' = Append(answered, framed[Len(framed)]) /\ doing' = "loop"
        /\ UNCHANGED plock
     \/ doing' = "push" /\ plock' = receiver /\ UNCHANGED answered
  /\ UNCHANGED <<inVars, ready, hand, pipe, written, attached, file, down, sendVars,
                 accepted>>

\* The receiver puts its answer into its own pipe, with the lock of the peer.
Push ==
  /\ doing = "push" /\ Len(pipe) < PIPE
  /\ pipe' = Append(pipe, framed[Len(framed)])
  /\ accepted' = Append(accepted, framed[Len(framed)])
  /\ plock' = Nil
  /\ doing' = "loop"
  /\ UNCHANGED <<inVars, ready, hand, written, answered, attached, file, down, sendVars>>

\* The end of receive_loop, and of the process.
Unlink ==
  /\ doing = "error"
  /\ file' = FALSE
  /\ doing' = "remove"
  /\ UNCHANGED <<inVars, outVars, attached, plock, down, sendVars, accepted>>

Detach ==
  /\ doing = "remove" /\ plock = Nil
  /\ attached' = FALSE
  /\ doing' = "done"
  /\ UNCHANGED <<inVars, outVars, file, plock, down, sendVars, accepted>>

(****************************** The senders *******************************)

Give(s, m) ==
  /\ spc[s] = "idle" /\ m \in fresh
  /\ s \in Locking => plock = Nil
  /\ plock' = IF s \in Locking THEN s ELSE plock
  /\ fresh' = fresh \ {m}
  /\ smsg' = [smsg EXCEPT ![s] = m]
  /\ spc' = [spc EXCEPT ![s] = "test"]
  /\ UNCHANGED <<inVars, outVars, attached, file, down, doing, accepted>>

\* peer_send_msg returns; its caller frees a message that was refused.
Returns(s) ==
  /\ spc' = [spc EXCEPT ![s] = "idle"]
  /\ smsg' = [smsg EXCEPT ![s] = Nil]
  /\ plock' = IF plock = s THEN Nil ELSE plock

\* if (!p->send_pipe.s) return 0.
Test(s) ==
  /\ spc[s] = "test"
  /\ \/ attached /\ spc' = [spc EXCEPT ![s] = "open"] /\ UNCHANGED <<smsg, plock>>
     \/ ~attached /\ Returns(s)
  /\ UNCHANGED <<inVars, outVars, attached, file, down, doing, fresh, accepted>>

Open(s) ==
  /\ spc[s] = "open"
  /\ \/ file /\ spc' = [spc EXCEPT ![s] = "write"] /\ UNCHANGED <<smsg, plock>>
     \/ ~file /\ Returns(s)
  /\ UNCHANGED <<inVars, outVars, attached, file, down, doing, fresh, accepted>>

\* write blocks while the pipe is full.
Write(s) ==
  /\ spc[s] = "write" /\ Len(pipe) < PIPE
  /\ pipe' = Append(pipe, smsg[s])
  /\ accepted' = Append(accepted, smsg[s])
  /\ Returns(s)
  /\ UNCHANGED <<inVars, ready, hand, written, answered, attached, file, down, doing,
                 fresh>>

Serve ==
  Loop \/ Select \/ WriteOut \/ Recv \/ Handle \/ Process \/ Push \/ Unlink \/ Detach

Send(s) == Test(s) \/ Open(s) \/ Write(s)

StreamNext ==
  \/ Arrive \/ HangUp \/ Shutdown
  \/ Serve \/ SelectFails \/ WriteFails
  \/ \E s \in Senders : (\E m \in Msgs : Give(s, m)) \/ Send(s)

\* A process that can run is scheduled. Nothing is assumed of the other side.
StreamFairness == WF_streamVars(Serve) /\ \A s \in Senders : WF_streamVars(Send(s))

StreamSpec == StreamInit /\ [][StreamNext]_streamVars /\ StreamFairness

(***************************** Properties ********************************)

Ended == doing \in {"error", "remove", "done"}

\* The messages of the stream up to one that is too big.
Sound ==
  {k \in DOMAIN stream :
     /\ stream[k].version = 1
     /\ \A j \in 1 .. k : stream[j].version = 1 => stream[j].length <= MAX}

\* However TCP cuts the stream, and whatever is written in between, receive_message
\* gets the messages whole, in order and once each, and misses none (receive_loop).
FramedInOrder ==
  \A i \in DOMAIN framed :
    /\ framed[i] \in Sound
    /\ \A j \in 1 .. i - 1 : framed[j] < framed[i]
    /\ \A k \in Sound : k < framed[i] => \E j \in 1 .. i - 1 : framed[j] = k

\* What of the pipe is on the socket or on its way to it.
Kept == IF hand = Nil THEN written ELSE Append(written, hand)

\* The messages that peer_send_msg accepted are on the socket, in hand or in the pipe,
\* in the order in which they were accepted; the one in hand when the connection breaks
\* is the only one that disappears (select_recv).
WrittenInOrder ==
  LET lost == Len(accepted) - Len(Kept) - Len(pipe)
  IN  /\ lost \in 0 .. 1 /\ (lost = 1 => Ended)
      /\ \A i \in DOMAIN Kept : accepted[i] = Kept[i]
      /\ \A i \in DOMAIN pipe : accepted[Len(Kept) + lost + i] = pipe[i]

StreamsSound == FramedInOrder /\ WrittenInOrder

\* The pipe is full and the receiver waits for what only it can give: room in its own
\* pipe, or the lock of a sender that waits for room.
Jammed ==
  /\ Len(pipe) = PIPE
  /\ \/ doing = "push"
     \/ doing = "lock" /\ plock \in Senders /\ spc[plock] = "write"

\* A message in the pipe is written, whatever arrives on the socket meanwhile, unless
\* the receiver ends, jams or is shut down.
Served(m) == (m \in ToSet(pipe)) ~> (m \in ToSet(written) \/ Ended \/ Jammed \/ down)
============================================================================
