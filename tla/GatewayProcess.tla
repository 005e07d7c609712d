------------------------------ MODULE GatewayProcess ------------------------------
(***************************************************************************)
(* Gateway processes on one macOS machine, from their start to their end:  *)
(* the lock file that is to let only one of them run and the pid file      *)
(* (acquire_instance_lock, release_instance_lock), the thread that waits   *)
(* for a shutdown signal (install_signal_waiter), and the life of          *)
(* httplib's server as run_gateway_server drives it.                       *)
(*                                                                         *)
(* A lock taken with flock belongs to the inode that was opened and not to *)
(* its path; it is gone when the descriptor is closed, by the process or   *)
(* with it.  Every system call another process can observe is a step.      *)
(* Each process runs once: a restart is another process.                   *)
(***************************************************************************)
EXTENDS FiniteSets

CONSTANTS
  Procs,    \* the processes started
  Inodes    \* the inodes the lock file may be given
CONSTANTS NoInode, NoProc

ASSUME GatewayAssumption == NoInode \notin Inodes /\ NoProc \notin Procs

VARIABLES
  pc,          \* where the main thread of each process is
  fd,          \* the inode its g_instance_lock_fd refers to
  lock_path,   \* the inode the path of the lock file leads to
  pid_file,    \* the process the pid file names
  signal,      \* the shutdown signal of each process: "none", "pending", "taken"
  waiter,      \* where its signal waiter is
  svr_sock     \* is its listening socket "none", "open", "closed"

files == <<fd, lock_path, pid_file>>
server == <<signal, waiter, svr_sock>>
vars == <<pc, files, server>>

Started == {"opened", "locked", "stamped", "holding", "armed", "bound", "listening",
            "draining", "returned", "unpidded", "unlinking"}
Ended == {"refused", "exited", "killed"}
HasLock == {"locked", "stamped", "holding", "armed", "bound", "listening", "draining",
            "returned", "unpidded"}
\* The server object lives in run_gateway_server and is destroyed before the lock is
\* released.
HasServer == {"armed", "bound", "listening", "draining"}

Init ==
  /\ pc = [p \in Procs |-> "unborn"]
  /\ fd = [p \in Procs |-> NoInode] /\ lock_path = NoInode /\ pid_file = NoProc
  /\ signal = [p \in Procs |-> "none"] /\ waiter = [p \in Procs |-> "none"]
  /\ svr_sock = [p \in Procs |-> "none"]

Goes(p, from, to) == pc[p] = from /\ pc' = [pc EXCEPT ![p] = to]

--------------------------------------------------------------------------------
(* acquire_instance_lock                                                     *)

Unused == Inodes \ ({lock_path} \cup {fd[q] : q \in Procs})

\* open(O_CREAT): the inode at the path, or a new one.
OpenLockFile(p) ==
  /\ Goes(p, "unborn", "opened")
  /\ \E i \in (IF lock_path = NoInode THEN Unused ELSE {lock_path}) :
       fd' = [fd EXCEPT ![p] = i] /\ lock_path' = i
  /\ UNCHANGED <<pid_file, server>>

\* Mutant: a lock that cannot be had is taken for one that was had.
MutLockedByOther(p) == FALSE
LockedByOther(p) == \E q \in Procs \ {p} : pc[q] \in HasLock /\ fd[q] = fd[p]

\* flock(LOCK_EX | LOCK_NB)
Lock(p) ==
  /\ Goes(p, "opened", "locked")
  /\ ~LockedByOther(p)
  /\ UNCHANGED <<files, server>>

\* Somebody else has the lock: the file is closed and left where it is.
LockRefused(p) ==
  /\ Goes(p, "opened", "refused")
  /\ LockedByOther(p)
  /\ fd' = [fd EXCEPT ![p] = NoInode]
  /\ UNCHANGED <<lock_path, pid_file, server>>

\* flock or ftruncate fails.
AcquireFails(p) ==
  /\ Goes(p, "opened", "refused") \/ Goes(p, "locked", "refused")
  /\ fd' = [fd EXCEPT ![p] = NoInode]
  /\ UNCHANGED <<lock_path, pid_file, server>>

\* The pid is written into the lock file.
StampLockFile(p) == Goes(p, "locked", "stamped") /\ UNCHANGED <<files, server>>

WritePidFile(p) ==
  /\ Goes(p, "stamped", "holding")
  /\ pid_file' = p
  /\ UNCHANGED <<fd, lock_path, server>>

\* Writing either fails: a pid file half written is removed, the lock file is
\* unlocked and closed, and its path is yet to be removed.
WriteFails(p) ==
  /\ \/ Goes(p, "locked", "unlinking") /\ UNCHANGED pid_file
     \/ Goes(p, "stamped", "unlinking") /\ pid_file' \in {pid_file, NoProc}
  /\ fd' = [fd EXCEPT ![p] = NoInode]
  /\ UNCHANGED <<lock_path, server>>

--------------------------------------------------------------------------------
(* run_gateway_server                                                        *)

\* The signals are blocked and the waiter is started.
InstallSignalWaiter(p) ==
  /\ Goes(p, "holding", "armed")
  /\ waiter' = [waiter EXCEPT ![p] = "waiting"]
  /\ UNCHANGED <<files, signal, svr_sock>>

\* The signal waiter cannot be installed, or the port cannot be bound: return 1.
StartFails(p) ==
  /\ Goes(p, "holding", "returned") \/ Goes(p, "armed", "returned")
  /\ UNCHANGED <<files, server>>

BindToPort(p) ==
  /\ Goes(p, "armed", "bound")
  /\ svr_sock' = [svr_sock EXCEPT ![p] = "open"]
  /\ UNCHANGED <<files, signal, waiter>>

\* listen_internal: is_running_ becomes true.
Listen(p) == Goes(p, "bound", "listening") /\ UNCHANGED <<files, server>>

\* The accept loop ends: the socket was closed by stop(), or accept failed and the
\* loop closes it itself.
AcceptLoopEnds(p) ==
  /\ Goes(p, "listening", "draining")
  /\ svr_sock[p] = "closed"
  /\ UNCHANGED <<files, server>>
AcceptFails(p) ==
  /\ Goes(p, "listening", "draining")
  /\ svr_sock' = [svr_sock EXCEPT ![p] = "closed"]
  /\ UNCHANGED <<files, signal, waiter>>

\* The task queue is shut down, listen returns and the server is destroyed.
ServerReturns(p) == Goes(p, "draining", "returned") /\ UNCHANGED <<files, server>>

--------------------------------------------------------------------------------
(* The signal waiter: one signal, one call of svr.stop().                    *)

\* A signal before the waiter is installed has its default effect.
ShutdownSignal(p) ==
  /\ pc[p] \in Started /\ signal[p] = "none" /\ waiter[p] # "none"
  /\ signal' = [signal EXCEPT ![p] = "pending"]
  /\ UNCHANGED <<pc, files, waiter, svr_sock>>

TakeSignal(p) ==
  /\ pc[p] \in Started /\ waiter[p] = "waiting" /\ signal[p] = "pending"
  /\ signal' = [signal EXCEPT ![p] = "taken"]
  /\ waiter' = [waiter EXCEPT ![p] = "stopping"]
  /\ UNCHANGED <<pc, files, svr_sock>>

\* stop() looks at is_running_ ...
StopTests(p) ==
  /\ pc[p] \in HasServer /\ waiter[p] = "stopping"
  /\ waiter' = [waiter EXCEPT ![p] =
                  IF pc[p] \in {"listening", "draining"} THEN "closing" ELSE "done"]
  /\ UNCHANGED <<pc, files, signal, svr_sock>>

\* Mutant: the socket is shut down for new data only, accept goes on.
MutCloses(p) == svr_sock
Closes(p) == [svr_sock EXCEPT ![p] = "closed"]

\* ... and shuts the listening socket.
StopCloses(p) ==
  /\ pc[p] \in HasServer /\ waiter[p] = "closing"
  /\ svr_sock' = Closes(p)
  /\ waiter' = [waiter EXCEPT ![p] = "done"]
  /\ UNCHANGED <<pc, files, signal>>

--------------------------------------------------------------------------------
(* release_instance_lock                                                     *)

\* Mutant: the pid file is left behind.
MutPidFileLeft == pid_file
\* Mutant: the pid file is emptied, not removed.
MutPidFileEmptied == "nobody"
PidFileGone == NoProc

RemovePidFile(p) ==
  /\ Goes(p, "returned", "unpidded")
  /\ pid_file' = PidFileGone
  /\ UNCHANGED <<fd, lock_path, server>>

\* Unlocked and closed ...
Unlock(p) ==
  /\ Goes(p, "unpidded", "unlinking")
  /\ fd' = [fd EXCEPT ![p] = NoInode]
  /\ UNCHANGED <<lock_path, pid_file, server>>

\* ... and then removed by its path, whatever that leads to by now.
UnlinkLockFile(p) ==
  /\ Goes(p, "unlinking", "exited")
  /\ lock_path' = NoInode
  /\ UNCHANGED <<fd, pid_file, server>>

\* Killed at any point, or by its waiter calling stop() on the server that the main
\* thread destroyed; the system closes its files.
Killed(p) ==
  /\ pc[p] \in Started
  /\ pc' = [pc EXCEPT ![p] = "killed"]
  /\ fd' = [fd EXCEPT ![p] = NoInode]
  /\ svr_sock' = [svr_sock EXCEPT ![p] = IF @ = "open" THEN "closed" ELSE @]
  /\ UNCHANGED <<lock_path, pid_file, signal, waiter>>

--------------------------------------------------------------------------------
MainStep(p) ==
  \/ OpenLockFile(p) \/ Lock(p) \/ LockRefused(p) \/ AcquireFails(p)
  \/ StampLockFile(p) \/ WritePidFile(p) \/ WriteFails(p) \/ InstallSignalWaiter(p)
  \/ StartFails(p) \/ BindToPort(p) \/ Listen(p) \/ AcceptLoopEnds(p) \/ ServerReturns(p)
  \/ RemovePidFile(p) \/ Unlock(p) \/ UnlinkLockFile(p)
WaiterStep(p) == TakeSignal(p) \/ StopTests(p) \/ StopCloses(p)

Next == \E p \in Procs :
          MainStep(p) \/ WaiterStep(p) \/ AcceptFails(p) \/ ShutdownSignal(p) \/ Killed(p)

Spec == Init /\ [][Next]_vars

\* Both threads of a process are scheduled, and requests in progress come to an end.
FairSpec == Spec /\ \A p \in Procs : WF_vars(MainStep(p)) /\ WF_vars(WaiterStep(p))

--------------------------------------------------------------------------------
(* Properties.                                                               *)

TypeOK ==
  /\ pc \in [Procs -> {"unborn"} \cup Started \cup Ended]
  /\ fd \in [Procs -> Inodes \cup {NoInode}] /\ lock_path \in Inodes \cup {NoInode}
  /\ pid_file \in Procs \cup {NoProc}
  /\ signal \in [Procs -> {"none", "pending", "taken"}]
  /\ waiter \in [Procs -> {"none", "waiting", "stopping", "closing", "done"}]
  /\ svr_sock \in [Procs -> {"none", "open", "closed"}]

\* Started, refused, failed and killed in any number and order, processes never hold
\* the lock side by side: it takes one that removes the lock file on its way out.
OnlyReleaseBreaksExclusion ==
  (\A p \in Procs : pc[p] # "exited") =>
    \A p, q \in Procs : pc[p] \in HasLock /\ pc[q] \in HasLock => p = q

\* "Single-instance runtime": no two gateways serve at the same time.
AtMostOneServes ==
  \A p, q \in Procs : pc[p] = "listening" /\ pc[q] = "listening" => p = q

\* The pid file names a process that has not begun to stop, or one that was killed:
\* a gateway that ended in order is not mistaken for a running one.
NoStalePid ==
  \A p \in Procs :
    pid_file = p => pc[p] \in HasServer \cup {"holding", "returned", "killed"}

\* A shutdown signal that reaches a gateway that serves ends it.
SignalEndsServing ==
  \A p \in Procs :
    (pc[p] = "listening" /\ signal[p] = "pending") ~> (pc[p] \in Ended)
================================================================================
