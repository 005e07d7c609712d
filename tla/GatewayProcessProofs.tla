--------------------------- MODULE GatewayProcessProofs ---------------------------
(***************************************************************************)
(* What GatewayProcess guarantees for any number of processes.  Exclusion  *)
(* rests on one fact: as long as nobody has removed the lock file, every   *)
(* descriptor refers to the inode its path leads to, so that the lock on   *)
(* an inode is a lock on the path.                                         *)
(***************************************************************************)
EXTENDS GatewayProcess, TLAPS

HasFile == HasLock \cup {"opened"}

LEMMA InitTypeOK == Init => TypeOK
  BY DEF Init, TypeOK

LEMMA NextTypeOK == TypeOK /\ [Next]_vars => TypeOK'
<1> SUFFICES ASSUME TypeOK, [Next]_vars PROVE TypeOK'
  OBVIOUS
<1> USE DEF TypeOK, files, server
<1>1. CASE UNCHANGED vars
  BY <1>1 DEF vars
<1>2. ASSUME NEW p \in Procs, MainStep(p) PROVE TypeOK'
  <2> USE DEF Goes, Started, Ended
  <2>1. CASE OpenLockFile(p)
    <3>1. PICK i \in (IF lock_path = NoInode THEN Unused ELSE {lock_path}) :
            fd' = [fd EXCEPT ![p] = i] /\ lock_path' = i
      BY <2>1 DEF OpenLockFile
    <3>2. i \in Inodes
      BY <3>1 DEF Unused
    <3> QED BY <2>1, <3>1, <3>2 DEF OpenLockFile
  <2>2. CASE Lock(p) \/ StampLockFile(p) \/ Listen(p) \/ AcceptLoopEnds(p)
             \/ ServerReturns(p) \/ StartFails(p)
    BY <2>2 DEF Lock, StampLockFile, Listen, AcceptLoopEnds, ServerReturns, StartFails
  <2>3. CASE LockRefused(p) \/ AcquireFails(p) \/ Unlock(p) \/ UnlinkLockFile(p)
    BY <2>3 DEF LockRefused, AcquireFails, Unlock, UnlinkLockFile
  <2>4. CASE WritePidFile(p) \/ RemovePidFile(p)
    BY <2>4 DEF WritePidFile, RemovePidFile, PidFileGone
  <2>5. CASE WriteFails(p)
    BY <2>5 DEF WriteFails
  <2>6. CASE InstallSignalWaiter(p) \/ BindToPort(p)
    BY <2>6 DEF InstallSignalWaiter, BindToPort
  <2> QED BY <1>2, <2>1, <2>2, <2>3, <2>4, <2>5, <2>6 DEF MainStep
<1>3. ASSUME NEW p \in Procs, WaiterStep(p) \/ ShutdownSignal(p) PROVE TypeOK'
  BY <1>3 DEF WaiterStep, TakeSignal, StopTests, StopCloses, Closes, ShutdownSignal
<1>4. ASSUME NEW p \in Procs, AcceptFails(p) \/ Killed(p) PROVE TypeOK'
  BY <1>4 DEF AcceptFails, Killed, Goes, Started, Ended
<1> QED BY <1>1, <1>2, <1>3, <1>4 DEF Next

\* Every variable has its type, for any number of processes.
THEOREM TypeCorrect == Spec => []TypeOK
  BY InitTypeOK, NextTypeOK, PTL DEF Spec

--------------------------------------------------------------------------------
(* Exclusion.                                                                *)

\* A process that has opened the lock file and not closed it has a descriptor.
FilesOpen == \A p \in Procs : pc[p] \in HasFile => fd[p] \in Inodes

\* flock: the lock on an inode has one holder.
InodeExclusive ==
  \A p, q \in Procs :
    pc[p] \in HasLock /\ pc[q] \in HasLock /\ fd[p] = fd[q] => p = q

\* Until somebody removed the lock file, everybody has the one at the path.
AtThePath ==
  (\A p \in Procs : pc[p] # "exited") =>
    \A p \in Procs : pc[p] \in HasFile => fd[p] = lock_path

Exclusive == FilesOpen /\ InodeExclusive /\ AtThePath

LEMMA InitExclusive == Init => Exclusive
  BY DEF Init, Exclusive, FilesOpen, InodeExclusive, AtThePath, HasFile, HasLock

\* What a step of process p does to the processes that have the file, if it neither
\* opens, locks nor removes it.
LEMMA QuietStep ==
  ASSUME TypeOK, Exclusive, NEW p \in Procs,
         lock_path' = lock_path,
         \A q \in Procs \ {p} : pc'[q] = pc[q] /\ fd'[q] = fd[q],
         pc'[p] \in HasFile => pc[p] \in HasFile /\ fd'[p] = fd[p],
         pc'[p] \in HasLock => pc[p] \in HasLock,
         pc[p] # "exited"
  PROVE  Exclusive'
<1>1. FilesOpen'
  BY DEF Exclusive, FilesOpen
<1>2. InodeExclusive'
  BY DEF Exclusive, InodeExclusive, HasFile
<1>3. AtThePath'
  BY DEF Exclusive, AtThePath
<1> QED BY <1>1, <1>2, <1>3 DEF Exclusive

LEMMA NextExclusive == TypeOK /\ Exclusive /\ [Next]_vars => Exclusive'
<1> SUFFICES ASSUME TypeOK, Exclusive, [Next]_vars PROVE Exclusive'
  OBVIOUS
<1> USE DEF files, server, Goes
<1>1. CASE UNCHANGED vars
  BY <1>1 DEF vars, Exclusive, FilesOpen, InodeExclusive, AtThePath
<1>2. ASSUME NEW p \in Procs, OpenLockFile(p) PROVE Exclusive'
  <2>1. PICK i \in (IF lock_path = NoInode THEN Unused ELSE {lock_path}) :
          fd' = [fd EXCEPT ![p] = i] /\ lock_path' = i
    BY <1>2 DEF OpenLockFile
  <2>2. i \in Inodes /\ NoInode \notin Inodes
    BY <2>1, GatewayAssumption DEF TypeOK, Unused
  <2>3. /\ pc' = [pc EXCEPT ![p] = "opened"] /\ pc[p] = "unborn"
        /\ fd'[p] = i /\ pc'[p] = "opened"
        /\ \A q \in Procs \ {p} : fd'[q] = fd[q] /\ pc'[q] = pc[q]
    BY <1>2, <2>1 DEF OpenLockFile, TypeOK
  <2>4. FilesOpen'
    BY <2>2, <2>3 DEF Exclusive, FilesOpen
  <2>5. InodeExclusive'
    BY <2>3 DEF Exclusive, InodeExclusive, HasLock
  <2>6. ASSUME \A q \in Procs : pc'[q] # "exited", NEW q \in Procs, pc'[q] \in HasFile
        PROVE  fd'[q] = lock_path'
    <3>1. CASE q = p
      BY <3>1, <2>1, <2>3
    <3>2. CASE q # p
      <4>1. \A r \in Procs : pc[r] # "exited"
        BY <2>3, <2>6
      <4>2. fd[q] = lock_path /\ fd[q] \in Inodes
        BY <3>2, <4>1, <2>3, <2>6 DEF Exclusive, AtThePath, FilesOpen
      <4>3. lock_path' = lock_path
        BY <2>1, <2>2, <4>2
      <4> QED BY <3>2, <4>2, <4>3, <2>3
    <3> QED BY <3>1, <3>2
  <2>7. AtThePath'
    BY <2>6 DEF AtThePath
  <2> QED BY <2>4, <2>5, <2>7 DEF Exclusive
<1>3. ASSUME NEW p \in Procs, Lock(p) PROVE Exclusive'
  <2>1. /\ pc[p] = "opened" /\ pc'[p] = "locked" /\ UNCHANGED <<fd, lock_path>>
        /\ \A q \in Procs \ {p} : pc'[q] = pc[q] /\ ~(pc[q] \in HasLock /\ fd[q] = fd[p])
    BY <1>3 DEF Lock, LockedByOther, TypeOK
  <2>2. FilesOpen' /\ AtThePath'
    BY <2>1 DEF Exclusive, FilesOpen, AtThePath, HasFile, HasLock
  <2>3. InodeExclusive'
    BY <2>1 DEF Exclusive, InodeExclusive
  <2> QED BY <2>2, <2>3 DEF Exclusive
<1>4. ASSUME NEW p \in Procs, UnlinkLockFile(p) PROVE Exclusive'
  <2>1. /\ pc[p] = "unlinking" /\ pc'[p] = "exited" /\ fd' = fd
        /\ \A q \in Procs \ {p} : pc'[q] = pc[q]
    BY <1>4 DEF UnlinkLockFile, TypeOK
  <2>2. FilesOpen' /\ InodeExclusive'
    BY <2>1 DEF Exclusive, FilesOpen, InodeExclusive, HasFile, HasLock
  <2>3. AtThePath'
    BY <2>1 DEF AtThePath
  <2> QED BY <2>2, <2>3 DEF Exclusive
<1>5. ASSUME NEW p \in Procs,
             \/ LockRefused(p) \/ AcquireFails(p) \/ WriteFails(p) \/ Unlock(p) \/ Killed(p)
      PROVE  Exclusive'
  <2>1. pc[p] # "exited" /\ pc'[p] \notin HasFile /\ lock_path' = lock_path
    BY <1>5 DEF LockRefused, AcquireFails, WriteFails, Unlock, Killed, TypeOK, HasFile, HasLock,
                Started
  <2>2. \A q \in Procs \ {p} : pc'[q] = pc[q] /\ fd'[q] = fd[q]
    BY <1>5 DEF LockRefused, AcquireFails, WriteFails, Unlock, Killed, TypeOK
  <2> QED BY <2>1, <2>2, QuietStep DEF HasFile
<1>6. ASSUME NEW p \in Procs,
             \/ StampLockFile(p) \/ WritePidFile(p) \/ InstallSignalWaiter(p) \/ StartFails(p)
             \/ BindToPort(p) \/ Listen(p) \/ AcceptLoopEnds(p) \/ AcceptFails(p)
             \/ ServerReturns(p) \/ RemovePidFile(p)
      PROVE  Exclusive'
  <2>1. pc[p] \in HasLock /\ pc'[p] \in HasLock /\ UNCHANGED <<fd, lock_path>>
    BY <1>6 DEF StampLockFile, WritePidFile, InstallSignalWaiter, StartFails, BindToPort, Listen,
                AcceptLoopEnds, AcceptFails, ServerReturns, RemovePidFile, TypeOK, HasLock
  <2>2. \A q \in Procs \ {p} : pc'[q] = pc[q]
    BY <1>6 DEF StampLockFile, WritePidFile, InstallSignalWaiter, StartFails, BindToPort, Listen,
                AcceptLoopEnds, AcceptFails, ServerReturns, RemovePidFile, TypeOK
  <2>3. pc[p] # "exited"
    BY <2>1 DEF HasLock
  <2> QED BY <2>1, <2>2, <2>3, QuietStep DEF HasFile
<1>7. ASSUME NEW p \in Procs, WaiterStep(p) \/ ShutdownSignal(p) PROVE Exclusive'
  <2>1. UNCHANGED <<pc, fd, lock_path>>
    BY <1>7 DEF WaiterStep, TakeSignal, StopTests, StopCloses, ShutdownSignal
  <2> QED BY <2>1 DEF Exclusive, FilesOpen, InodeExclusive, AtThePath
<1> QED BY <1>1, <1>2, <1>3, <1>4, <1>5, <1>6, <1>7 DEF Next, MainStep

\* However many processes are started, refused, fail to start or are killed, no two
\* hold the lock as long as none has removed the lock file.
THEOREM KillsKeepExclusion == Spec => []OnlyReleaseBreaksExclusion
<1>1. Exclusive => OnlyReleaseBreaksExclusion
  BY DEF Exclusive, InodeExclusive, AtThePath, OnlyReleaseBreaksExclusion, HasFile
<1> QED BY <1>1, InitTypeOK, NextTypeOK, InitExclusive, NextExclusive, PTL DEF Spec

--------------------------------------------------------------------------------
(* The pid file.                                                             *)

LEMMA NextNoStalePid == TypeOK /\ NoStalePid /\ [Next]_vars => NoStalePid'
<1> SUFFICES ASSUME TypeOK, NoStalePid, [Next]_vars, NEW p \in Procs, pid_file' = p
             PROVE  pc'[p] \in HasServer \cup {"holding", "returned", "killed"}
  BY DEF NoStalePid
<1> USE DEF files, server, Goes
<1>1. NoProc \notin Procs
  BY GatewayAssumption
<1>2. CASE UNCHANGED vars
  BY <1>2 DEF vars, NoStalePid
<1>3. ASSUME NEW q \in Procs, q # p, MainStep(q) \/ AcceptFails(q) \/ Killed(q)
      PROVE  pid_file = p /\ pc'[p] = pc[p]
  BY <1>1, <1>3 DEF TypeOK, MainStep, OpenLockFile, Lock, LockRefused, AcquireFails,
    StampLockFile, WritePidFile, WriteFails, InstallSignalWaiter, StartFails, BindToPort,
    Listen, AcceptLoopEnds, AcceptFails, ServerReturns, RemovePidFile, PidFileGone, Unlock,
    UnlinkLockFile, Killed
<1>4. ASSUME WritePidFile(p)
      PROVE  pc'[p] = "holding"
  BY <1>4 DEF WritePidFile, TypeOK
<1>5. ASSUME MainStep(p) \/ AcceptFails(p) \/ Killed(p), ~WritePidFile(p)
      PROVE  pid_file = p /\ ~RemovePidFile(p)
  BY <1>1, <1>5 DEF MainStep, OpenLockFile, Lock, LockRefused, AcquireFails,
    StampLockFile, WriteFails, InstallSignalWaiter, StartFails, BindToPort,
    Listen, AcceptLoopEnds, AcceptFails, ServerReturns, RemovePidFile, PidFileGone, Unlock,
    UnlinkLockFile, Killed
<1>6. ASSUME MainStep(p) \/ AcceptFails(p) \/ Killed(p), ~WritePidFile(p)
      PROVE  pc'[p] \in HasServer \cup {"holding", "returned", "killed"}
  <2>1. pc[p] \in HasServer \cup {"holding", "returned", "killed"}
    BY <1>5, <1>6 DEF NoStalePid
  <2> QED
    BY <2>1, <1>5, <1>6 DEF TypeOK, HasServer, MainStep, OpenLockFile, Lock, LockRefused,
      AcquireFails, StampLockFile, WriteFails, InstallSignalWaiter, StartFails, BindToPort,
      Listen, AcceptLoopEnds, AcceptFails, ServerReturns, Unlock, UnlinkLockFile, Killed
<1>7. ASSUME NEW q \in Procs, WaiterStep(q) \/ ShutdownSignal(q)
      PROVE  pid_file = p /\ pc'[p] = pc[p]
  BY <1>7 DEF WaiterStep, TakeSignal, StopTests, StopCloses, ShutdownSignal
<1>8. pid_file = p /\ pc'[p] = pc[p] => pc'[p] \in HasServer \cup {"holding", "returned", "killed"}
  BY DEF NoStalePid
<1> QED BY <1>2, <1>3, <1>4, <1>6, <1>7, <1>8 DEF Next

\* The pid file never names a gateway that ended in order, however many run, stop
\* and write it at the same time.
THEOREM PidFileHonest == Spec => []NoStalePid
<1>1. Init => NoStalePid
  BY GatewayAssumption DEF Init, NoStalePid
<1> QED BY <1>1, InitTypeOK, NextTypeOK, NextNoStalePid, PTL DEF Spec
================================================================================
