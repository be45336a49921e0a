----------------------------- MODULE Processes ------------------------------
(***************************************************************************)
(* The processes of a program (cdp/diameter_peer.c).  diameter_peer_start  *)
(* forks the acceptor and the workers; the main process becomes the timer  *)
(* process and forks a receiver for each peer it connects to, the acceptor *)
(* one for each connection it accepts.  pid_list, in shared memory, names  *)
(* the processes that diameter_peer_destroy waits for; it runs in a signal *)
(* handler of the main process, wherever the signal finds that process.    *)
(*                                                                         *)
(* fork and shm_malloc succeed, and pid_list starts empty (the code leaves *)
(* its two pointers as the allocator returned them).                       *)
(***************************************************************************)
EXTENDS Integers, Sequences, SequencesExt, FiniteSets

CONSTANTS
  main, acceptor,
  WorkerPids,
  Initiated,  \* receivers that the timer process forks (peer_connect)
  Accepted,   \* receivers that the acceptor forks (accept_connection)
  ZeroPid,       \* pid 0
  NoPid

ASSUME ProcAssumption ==
  /\ IsFiniteSet(WorkerPids)
  /\ main # acceptor
  /\ {main, acceptor} \cap (WorkerPids \cup Initiated \cup Accepted) = {}
  /\ Initiated \cap WorkerPids = {} /\ Accepted \cap (Initiated \cup WorkerPids) = {}
  /\ {ZeroPid, NoPid} \cap ({main, acceptor} \cup WorkerPids \cup Initiated \cup Accepted) = {}
  /\ ZeroPid # NoPid

VARIABLES
  pids,    \* pid_list
  lock,    \* pid_list_lock: the process that holds it, or NoPid
  proc,    \* where each forked process is
  begin,   \* the pids that diameter_peer_start has still to fork and add
  at,      \* where the main process is; it stays there once the signal has come
  new,     \* the pid that it adds
  ending,  \* where diameter_peer_destroy is
  last,    \* pid of diameter_peer_destroy
  reaped   \* children that waitpid has returned

procVars == <<pids, lock, proc, begin, at, new, ending, last, reaped>>

Children == {acceptor} \cup WorkerPids \cup Initiated

ProcInit ==
  /\ pids = <<>> /\ lock = NoPid
  /\ proc = [p \in Children \cup Accepted |-> "none"]
  /\ begin = <<acceptor>> \o SetToSeq(WorkerPids) \o <<main>>
  /\ at = "fork" /\ new = NoPid
  /\ ending = "no" /\ last = NoPid /\ reaped = {}

(*************************** The main process ****************************)

\* diameter_peer_start forks the next process, or adds its own pid.
Fork ==
  /\ ending = "no" /\ at = "fork"
  /\ new' = Head(begin) /\ begin' = Tail(begin)
  /\ proc' = IF new' = main THEN proc ELSE [proc EXCEPT ![new'] = "run"]
  /\ at' = "add"
  /\ UNCHANGED <<pids, lock, ending, last, reaped>>

\* dp_add_pid, up to the release of its lock.
AddPid ==
  /\ ending = "no" /\ at = "add" /\ lock = NoPid
  /\ lock' = main
  /\ pids' = Append(pids, new)
  /\ at' = "release"
  /\ UNCHANGED <<proc, begin, new, ending, last, reaped>>

Release ==
  /\ ending = "no" /\ at = "release"
  /\ lock' = NoPid
  /\ at' = IF begin # <<>> THEN "fork" ELSE IF new = main THEN "sleep" ELSE "busy"
  /\ UNCHANGED <<pids, proc, begin, new, ending, last, reaped>>

\* The timer process sleeps, or calls peer_timer, which holds the lock of a peer ...
Turn ==
  /\ ending = "no"
  /\ at \in {"sleep", "busy"} /\ at' \in {"sleep", "busy"} \ {at}
  /\ UNCHANGED <<pids, lock, proc, begin, new, ending, last, reaped>>

\* ... also while it connects.
Connect(r) ==
  /\ ending = "no" /\ at = "busy" /\ proc[r] = "none"
  /\ proc' = [proc EXCEPT ![r] = "run"]
  /\ new' = r
  /\ at' = "add"
  /\ UNCHANGED <<pids, lock, begin, ending, last, reaped>>

(***************************** The shutdown ******************************)

Signal ==
  /\ ending = "no"
  /\ ending' = "poison"
  /\ UNCHANGED <<pids, lock, proc, begin, at, new, last, reaped>>

\* A second signal finds *shutdownx set, and the handler ends the program.
Again ==
  /\ ending \notin {"no", "freed", "quit"}
  /\ ending' = "quit"
  /\ UNCHANGED <<pids, lock, proc, begin, at, new, last, reaped>>

Poison ==
  /\ ending = "poison"
  /\ ending' = "test"
  /\ UNCHANGED <<pids, lock, proc, begin, at, new, last, reaped>>

\* while (pid_list->tail), without the lock.
Test ==
  /\ ending = "test"
  /\ ending' = IF pids = <<>> THEN "freed" ELSE "last"
  /\ UNCHANGED <<pids, lock, proc, begin, at, new, last, reaped>>

LastPid ==
  /\ ending = "last" /\ lock = NoPid
  /\ last' = IF pids = <<>> THEN NoPid ELSE Last(pids)
  /\ ending' = IF last' \in {NoPid, ZeroPid, main} THEN "delete" ELSE "wait"
  /\ UNCHANGED <<pids, lock, proc, begin, at, new, reaped>>

\* A mutant: a child that waitpid fails for stays in the list.
WaitPidKeeps ==
  /\ ending = "wait"
  /\ \/ last \in reaped /\ ending' = "test" /\ UNCHANGED reaped
     \/ /\ last \notin reaped /\ proc[last] \in {"over", "killed"}
        /\ reaped' = reaped \cup {last}
        /\ ending' = IF proc[last] = "killed" THEN "poison" ELSE "delete"
  /\ UNCHANGED <<pids, lock, proc, begin, at, new, last>>

\* waitpid fails for a child that it has returned before.
WaitPid ==
  /\ ending = "wait"
  /\ \/ last \in reaped /\ ending' = "delete" /\ UNCHANGED reaped
     \/ /\ last \notin reaped /\ proc[last] \in {"over", "killed"}
        /\ reaped' = reaped \cup {last}
        /\ ending' = IF proc[last] = "killed" THEN "poison" ELSE "delete"
  /\ UNCHANGED <<pids, lock, proc, begin, at, new, last>>

\* A mutant: whatever is deleted, the process before it becomes the tail.
DeletedToTail(p) ==
  IF \E i \in DOMAIN pids : pids[i] = p
  THEN SubSeq(pids, 1, (CHOOSE i \in DOMAIN pids : pids[i] = p) - 1) ELSE pids

\* dp_del_pid: the first entry with the pid, if there is one.
PidDeleted(p) == RemoveFirst(pids, p)

DeletePid ==
  /\ ending = "delete" /\ lock = NoPid
  /\ pids' = PidDeleted(last)
  /\ ending' = "test"
  /\ UNCHANGED <<lock, proc, begin, at, new, last, reaped>>

(****************************** The others *******************************)

Becomes(p, to) ==
  /\ proc' = [proc EXCEPT ![p] = to]
  /\ UNCHANGED <<begin, at, new, ending, last, reaped>>

\* The child of the fork adds the pid that fork returned to it, 0, and nobody adds its
\* own.
Accept(r) ==
  /\ proc[acceptor] = "run" /\ proc[r] = "none"
  /\ Becomes(r, "zero")
  /\ UNCHANGED <<pids, lock>>

\* What is in the list after it was freed is not modelled.
AddZero(r) ==
  /\ proc[r] = "zero" /\ lock = NoPid /\ ending # "freed"
  /\ pids' = Append(pids, ZeroPid)
  /\ Becomes(r, "run")
  /\ UNCHANGED lock

\* A worker ends when it finds the poison, the acceptor when it sees *shutdownx, a
\* receiver when its connection breaks or it sees *shutdownx between two messages; each
\* then takes its pid out of the list: dp_del_pid(getpid()), up to the release of its
\* lock, and the exit.
Leave(p) ==
  /\ proc[p] = "run" /\ lock = NoPid /\ ending # "freed"
  /\ p \in WorkerPids => ending \notin {"no", "poison"}
  /\ p = acceptor => ending # "no"
  /\ lock' = p
  /\ pids' = PidDeleted(p)
  /\ Becomes(p, "free")

\* A receiver that sees *shutdownx in select_recv reads 0 bytes for ever.
Spin(r) ==
  /\ proc[r] = "run" /\ ending # "no"
  /\ Becomes(r, "spin")
  /\ UNCHANGED <<pids, lock>>

Crash(p) ==
  /\ proc[p] = "run"
  /\ Becomes(p, "killed")
  /\ UNCHANGED <<pids, lock>>

Exit(p) ==
  /\ proc[p] = "free"
  /\ lock' = NoPid
  /\ Becomes(p, "over")
  /\ UNCHANGED pids

PeerDestroy == Poison \/ Test \/ LastPid \/ WaitPid \/ DeletePid

Main ==
  Fork \/ AddPid \/ Release \/ Turn \/ (\E r \in Initiated : Connect(r)) \/ Signal \/ Again

Other(p) == Exit(p) \/ (p \in Accepted /\ AddZero(p))

ProcNext ==
  \/ Main \/ PeerDestroy
  \/ \E r \in Accepted : Accept(r)
  \/ \E p \in Children \cup Accepted : Leave(p) \/ Other(p)
  \/ \E r \in Initiated : Spin(r)
  \/ \E p \in Children : Crash(p)

(***************************** Properties ********************************)

\* The main process holds the lock of pid_list, or that of a peer.
Holds == at \in {"release", "busy"} \/ (at = "add" /\ new \in Initiated)

\* A process that leaves may need a lock that the main process holds.
Ends(p) == ~Holds /\ ending # "no" /\ (Leave(p) \/ (p \in Initiated /\ Spin(p)))

\* Some process that can run is scheduled.
ProcFairness ==
  /\ WF_procVars(PeerDestroy)
  /\ WF_procVars(\E p \in Children \cup Accepted : Other(p) \/ Ends(p))

ProcSpec == ProcInit /\ [][ProcNext]_procVars /\ ProcFairness

\* "wait for all childs to clean up nicely (acceptor, receiver, timer, workers)"
\* (diameter_peer.c:370): when the list is freed every child of the main process has
\* left it, whatever was forked, crashed or left by itself before; only a child whose
\* fork the signal met before its pid was added is missed, and one that has left may
\* still have to release the lock.
ChildrenAreWaitedFor ==
  ending = "freed" =>
    \A c \in Children :
      proc[c] \in {"none", "free", "over", "killed"} \/ (at = "add" /\ c = new)

\* The shutdown ends, unless its signal met the main process with a lock that it or its
\* children then wait for, or a receiver reads 0 bytes for ever (diameter_peer_destroy).
ShutdownEnds ==
  ending # "no" ~>
    ending \in {"freed", "quit"} \/ Holds \/ \E r \in Initiated : proc[r] = "spin"
============================================================================
