-------------------------- MODULE ServerThreadPoolProofs --------------------------
(***************************************************************************)
(* What ServerThreadPool guarantees for every set of workers, every size   *)
(* and every number of jobs.  Four inductive invariants, each resting on   *)
(* the ones before it: types, threads, idle workers, queued jobs.          *)
(***************************************************************************)
EXTENDS ServerThreadPool, FiniteSetTheorems, TLAPS

--------------------------------------------------------------------------------
(* Types.                                                                    *)

\* A worker that runs a job was given one.
RunsItsJob == \A w \in Workers : wpc[w] = "running" => job[w] \in 1..MaxJobs

Typed ==
  /\ jobs \in Seq(1..MaxJobs) /\ accepted \in 0..MaxJobs /\ shutdown \in BOOLEAN
  /\ ThreadsOK /\ RunsItsJob

LEMMA InitTyped == Init => Typed
<1> SUFFICES ASSUME Init PROVE Typed
  OBVIOUS
<1>1. jobs \in Seq(1..MaxJobs) /\ accepted \in 0..MaxJobs /\ shutdown \in BOOLEAN
  <2>1. shutdown \in BOOLEAN
    BY DEF Init
  <2>2. jobs \in Seq(1..MaxJobs)
    BY DEF Init
  <2>3. accepted \in 0..MaxJobs
    BY PoolAssumption DEF Init
  <2> QED
    BY <2>1, <2>2, <2>3, Zenon
<1>2. threads \subseteq Workers
  BY PoolAssumption DEF Init
<1>3. wpc \in [Workers -> WorkerPC] /\ lpc \in ListenerPC
  BY DEF Init, WorkerPC, ListenerPC
<1>4. job \in [Workers -> 0..MaxJobs] /\ RunsItsJob
  <2>1. job \in [Workers -> 0..MaxJobs]
    BY PoolAssumption DEF Init
  <2>2. \A w \in Workers : wpc[w] # "running"
    BY DEF Init
  <2> QED
    BY <2>1, <2>2 DEF RunsItsJob
<1> QED
  BY <1>1, <1>2, <1>3, <1>4 DEF Typed, ThreadsOK, Init

LEMMA NextTyped == Typed /\ [Next]_vars => Typed'
<1> SUFFICES ASSUME Typed, [Next]_vars PROVE Typed'
  OBVIOUS
<1> USE PoolAssumption DEF Typed, ThreadsOK, RunsItsJob, queueVars, listVars, workerVars
<1>1. ASSUME QueueJob
      PROVE  jobs' \in Seq(1..MaxJobs) /\ accepted' \in 0..MaxJobs
  BY <1>1 DEF QueueJob
<1>2. CASE EnqueueAndGrow
  BY <1>2, <1>1 DEF EnqueueAndGrow, QueueJob, ListenerPC
<1>3. CASE EnqueueAndStart
  BY <1>3, <1>1 DEF EnqueueAndStart, QueueJob, ListenerPC, WorkerPC, At
<1>4. CASE EnqueueOnly
  BY <1>4, <1>1 DEF EnqueueOnly, QueueJob, ListenerPC
<1>5. CASE StartDynamic
  BY <1>5 DEF StartDynamic, ListenerPC, WorkerPC, At
<1>6. CASE NotifyOne
  BY <1>6 DEF NotifyOne, ListenerPC, WorkerPC, At
<1>7. CASE SetShutdown
  BY <1>7 DEF SetShutdown, ListenerPC
<1>8. CASE NotifyAll
  BY <1>8 DEF NotifyAll, ListenerPC, WorkerPC
<1>9. CASE JoinThreads
  BY <1>9 DEF JoinThreads, ListenerPC
<1>10. CASE Collect
  BY <1>10 DEF Collect, Collected, ListenerPC
<1>11. CASE JoinRemaining
  BY <1>11 DEF JoinRemaining, ListenerPC
<1>12. ASSUME NEW w \in Workers, TakeJob(w) PROVE Typed'
  <2>1. Head(jobs) \in 1..MaxJobs /\ Tail(jobs) \in Seq(1..MaxJobs)
    BY <1>12 DEF TakeJob
  <2> QED
    BY <1>12, <2>1 DEF TakeJob, WorkerPC
<1>13. ASSUME NEW w \in Workers, Wait(w) PROVE Typed'
  BY <1>13 DEF Wait, WorkerPC
<1>14. ASSUME NEW w \in Workers, LeaveOnShutdown(w) PROVE Typed'
  BY <1>14 DEF LeaveOnShutdown, WorkerPC
<1>15. ASSUME NEW w \in Workers, Retire(w) PROVE Typed'
  BY <1>15 DEF Retire, ToFinished, WorkerPC
<1>16. ASSUME NEW w \in Workers, Exit(w) PROVE Typed'
  BY <1>16 DEF Exit, WorkerPC
<1>17. ASSUME NEW w \in Workers, SpuriousWakeup(w) PROVE Typed'
  BY <1>17 DEF SpuriousWakeup, WorkerPC
<1>18. ASSUME NEW w \in Workers, IdleTimeout(w) PROVE Typed'
  BY <1>18 DEF IdleTimeout, WorkerPC
<1>19. ASSUME NEW w \in Workers, JobEnds(w) PROVE Typed'
  <2>1. job[w] \in 1..MaxJobs
    BY <1>19 DEF JobEnds
  <2>2. job' \in [Workers -> 0..MaxJobs]
    BY <1>19 DEF JobEnds
  <2>3. done' \subseteq 1..MaxJobs
    <3>1. done \subseteq 1..MaxJobs /\ done' = done \cup {job[w]}
      BY <1>19 DEF JobEnds
    <3> QED
      BY <3>1, <2>1
  <2>4. RunsItsJob'
    BY <1>19 DEF JobEnds, WorkerPC
  <2> QED
    BY <1>19, <2>2, <2>3, <2>4 DEF JobEnds, WorkerPC
<1>20. CASE UNCHANGED vars
  BY <1>20 DEF vars
<1> QED
  BY <1>2, <1>3, <1>4, <1>5, <1>6, <1>7, <1>8, <1>9, <1>10, <1>11, <1>12, <1>13,
     <1>14, <1>15, <1>16, <1>17, <1>18, <1>19, <1>20
     DEF Next, Listener, Enqueue, ListenerInPool, WorkerStep, WorkerGoesOn, Stopped

LEMMA AlwaysTyped == Spec => []Typed
<1>1. Init => Typed
  BY InitTyped
<1>2. Typed /\ [Next]_vars => Typed'
  BY NextTyped
<1> QED
  BY <1>1, <1>2, PTL DEF Spec

--------------------------------------------------------------------------------
(* Threads: who holds which handle, and who was joined.                      *)

\* shutdown_ is set exactly from the start of shutdown on.
PhaseKnown ==
  shutdown <=> lpc \in {"notifyAll", "joinThreads", "collect", "joinRemaining", "stopped"}

\* Only a dynamic worker's wait ends by its timeout.
LateIsDynamic ==
  \A w \in Workers : wpc[w] = "timedOut" /\ ~shutdown => w \in dynamic_threads

\* What shutdown has joined and taken over so far.
JoinedSoFar ==
  /\ lpc \in {"collect", "joinRemaining", "stopped"} =>
       \A w \in threads : wpc[w] = "exited"
  /\ IF lpc \in {"joinRemaining", "stopped"}
     THEN dynamic_threads = {} /\ finished_threads = {}
     ELSE remaining = {}
  /\ lpc = "stopped" => \A w \in remaining : wpc[w] = "exited"

Threaded == PhaseKnown /\ LateIsDynamic /\ JoinedSoFar /\ NoThreadDropped

LEMMA InitThreaded == Init => Threaded
BY PoolAssumption DEF Init, Threaded, PhaseKnown, LateIsDynamic, JoinedSoFar, NoThreadDropped

LEMMA NextThreaded == Typed /\ Threaded /\ [Next]_vars => Threaded'
<1> SUFFICES ASSUME Typed, Threaded, [Next]_vars PROVE Threaded'
  OBVIOUS
<1> USE PoolAssumption
<1> USE DEF Typed, ThreadsOK, Threaded, PhaseKnown, LateIsDynamic, JoinedSoFar,
            NoThreadDropped, queueVars, listVars, workerVars
<1>1. CASE EnqueueAndGrow
  BY <1>1 DEF EnqueueAndGrow, QueueJob
<1>2. CASE EnqueueAndStart
  BY <1>2 DEF EnqueueAndStart, QueueJob, At
<1>3. CASE EnqueueOnly
  BY <1>3 DEF EnqueueOnly, QueueJob
<1>4. CASE StartDynamic
  BY <1>4 DEF StartDynamic, At
<1>5. CASE NotifyOne
  BY <1>5 DEF NotifyOne, At
<1>6. CASE SetShutdown
  BY <1>6 DEF SetShutdown
<1>7. CASE NotifyAll
  BY <1>7 DEF NotifyAll, Notified, At
<1>8. CASE JoinThreads
  BY <1>8 DEF JoinThreads
<1>9. CASE Collect
  BY <1>9 DEF Collect, Collected
<1>10. CASE JoinRemaining
  BY <1>10 DEF JoinRemaining
<1>11. ASSUME NEW w \in Workers, TakeJob(w) PROVE Threaded'
  BY <1>11 DEF TakeJob, Ready
<1>12. ASSUME NEW w \in Workers, Wait(w) PROVE Threaded'
  BY <1>12 DEF Wait, Ready
<1>13. ASSUME NEW w \in Workers, LeaveOnShutdown(w) PROVE Threaded'
  BY <1>13 DEF LeaveOnShutdown, Ready
<1>14. ASSUME NEW w \in Workers, Retire(w) PROVE Threaded'
  BY <1>14 DEF Retire, StillIdle, ToFinished
<1>15. ASSUME NEW w \in Workers, Exit(w) PROVE Threaded'
  BY <1>15 DEF Exit
<1>16. ASSUME NEW w \in Workers, SpuriousWakeup(w) PROVE Threaded'
  BY <1>16 DEF SpuriousWakeup
<1>17. ASSUME NEW w \in Workers, IdleTimeout(w) PROVE Threaded'
  BY <1>17 DEF IdleTimeout
<1>18. ASSUME NEW w \in Workers, JobEnds(w) PROVE Threaded'
  BY <1>18 DEF JobEnds
<1>19. CASE UNCHANGED vars
  BY <1>19 DEF vars
<1> QED
  BY <1>1, <1>2, <1>3, <1>4, <1>5, <1>6, <1>7, <1>8, <1>9, <1>10, <1>11, <1>12,
     <1>13, <1>14, <1>15, <1>16, <1>17, <1>18, <1>19
     DEF Next, Listener, Enqueue, ListenerInPool, WorkerStep, WorkerGoesOn, Stopped

LEMMA AlwaysThreaded == Spec => []Threaded
<1>1. Init => Threaded
  BY InitThreaded
<1>2. Typed /\ Threaded /\ [Next]_vars => Threaded'
  BY NextThreaded
<1> QED
  BY <1>1, <1>2, AlwaysTyped, PTL DEF Spec

\* No std::thread handle is lost or destroyed while its thread may run, for every
\* size of the pool and however starts, idle timeouts and shutdown interleave.
THEOREM HandlesKept == Spec => []NoThreadDropped
<1>1. Threaded => NoThreadDropped
  BY DEF Threaded
<1> QED
  BY <1>1, AlwaysThreaded, PTL

\* When shutdown has returned, no worker runs: httplib may destroy the pool.
THEOREM ShutdownJoinsAll == Spec => []AllJoined
<1>1. Typed /\ Threaded => AllJoined
  BY DEF Typed, ThreadsOK, Threaded, JoinedSoFar, NoThreadDropped, AllJoined
<1> QED
  BY <1>1, AlwaysTyped, AlwaysThreaded, PTL

--------------------------------------------------------------------------------
(* Counting workers by where they are.                                       *)

Number(pc, places) == Cardinality({w \in Workers : pc[w] \in places})

LEMMA NumberIsNat == ASSUME NEW pc, NEW places PROVE Number(pc, places) \in Nat
BY PoolAssumption, FS_Subset, FS_CardinalityType,
   {w \in Workers : pc[w] \in places} \in SUBSET Workers DEF Number

\* Every worker stays in the places, or stays out of them.
LEMMA NoneMoves ==
  ASSUME NEW pc, NEW qc, NEW places,
         \A v \in Workers : qc[v] \in places <=> pc[v] \in places
  PROVE  Number(qc, places) = Number(pc, places)
<1>1. {v \in Workers : qc[v] \in places} = {v \in Workers : pc[v] \in places}
  OBVIOUS
<1> QED
  BY <1>1 DEF Number

\* Exactly one worker enters the places.
LEMMA OneEnters ==
  ASSUME NEW pc, NEW qc, NEW places, NEW w \in Workers,
         pc[w] \notin places, qc[w] \in places,
         \A v \in Workers \ {w} : qc[v] \in places <=> pc[v] \in places
  PROVE  Number(qc, places) = Number(pc, places) + 1
<1> DEFINE S == {v \in Workers : pc[v] \in places}
           T == {v \in Workers : qc[v] \in places}
<1>1. IsFiniteSet(S) /\ Cardinality(S) \in Nat
  BY PoolAssumption, FS_Subset, FS_CardinalityType, S \in SUBSET Workers
<1>2. T = S \cup {w} /\ w \notin S
  OBVIOUS
<1>3. Cardinality(T) = Cardinality(S) + 1
  <2> HIDE DEF S, T
  <2> QED
    BY <1>1, <1>2, FS_AddElement
<1> QED
  BY <1>3 DEF Number

\* Exactly one worker leaves the places.
LEMMA OneLeaves ==
  ASSUME NEW pc, NEW qc, NEW places, NEW w \in Workers,
         pc[w] \in places, qc[w] \notin places,
         \A v \in Workers \ {w} : qc[v] \in places <=> pc[v] \in places
  PROVE  Number(qc, places) = Number(pc, places) - 1
<1>1. Number(pc, places) = Number(qc, places) + 1
  BY OneEnters
<1> QED
  BY <1>1, NumberIsNat

--------------------------------------------------------------------------------
(* Idle workers, and the limit of a limited pool.                            *)

IdlePlaces == {"waiting", "woken", "timedOut"}
Idle(pc) == Number(pc, IdlePlaces)

WithinLimit == ~Unbounded => Cardinality(threads) <= ConfiguredSize

Counted == IdleExact /\ WithinLimit

LEMMA InitCounted == Init => Counted
<1> SUFFICES ASSUME Init PROVE Counted
  OBVIOUS
<1>1. InWait = {}
  BY DEF Init, InWait
<1>2. ~Unbounded => threads = {}
  BY DEF Init
<1> QED
  BY <1>1, <1>2, FS_EmptySet, PoolAssumption DEF Init, Counted, IdleExact, WithinLimit

LEMMA NextIdleExact == Typed /\ IdleExact /\ [Next]_vars => IdleExact'
<1> SUFFICES ASSUME Typed, IdleExact, [Next]_vars PROVE IdleExact'
  OBVIOUS
<1>1. /\ wpc \in [Workers -> WorkerPC] /\ Idle(wpc) \in Nat
      /\ idle_thread_count = Idle(wpc)
      /\ IdleExact' <=> idle_thread_count' = Idle(wpc')
  BY NumberIsNat DEF Typed, ThreadsOK, IdleExact, InWait, Idle, IdlePlaces, Number
<1>2. ASSUME \A w \in Workers : wpc'[w] \in IdlePlaces <=> wpc[w] \in IdlePlaces,
             UNCHANGED idle_thread_count
      PROVE  IdleExact'
  BY <1>1, <1>2, NoneMoves DEF Idle
<1>3. ASSUME NEW w \in Workers, NEW to \in {"waiting", "running", "exiting"},
             wpc[w] \in {"loop", "woken", "timedOut"}, wpc' = [wpc EXCEPT ![w] = to],
             idle_thread_count' = IF to = "waiting" THEN IdleWithout(w) + 1
                                                    ELSE IdleWithout(w)
      PROVE  IdleExact'
  <2>1. \A v \in Workers \ {w} : wpc'[v] \in IdlePlaces <=> wpc[v] \in IdlePlaces
    BY <1>1, <1>3
  <2>2. Idle(wpc') = IF wpc[w] = "loop"
                     THEN IF to = "waiting" THEN Idle(wpc) + 1 ELSE Idle(wpc)
                     ELSE IF to = "waiting" THEN Idle(wpc) ELSE Idle(wpc) - 1
    <3>1. /\ wpc'[w] \in IdlePlaces <=> to = "waiting"
          /\ wpc[w] \in IdlePlaces <=> wpc[w] # "loop"
      BY <1>1, <1>3 DEF IdlePlaces
    <3> QED
      BY <2>1, <3>1, NoneMoves, OneEnters, OneLeaves DEF Idle
  <2>3. idle_thread_count' = Idle(wpc')
    BY <1>1, <1>3, <2>2 DEF IdleWithout
  <2> QED
    BY <1>1, <2>3
<1> USE DEF queueVars, listVars, workerVars, IdlePlaces
<1>4. CASE EnqueueAndGrow \/ EnqueueOnly \/ SetShutdown \/ JoinThreads \/ Collect
           \/ JoinRemaining \/ UNCHANGED vars
  BY <1>4, <1>2 DEF EnqueueAndGrow, EnqueueOnly, QueueJob, SetShutdown, JoinThreads,
                    Collect, JoinRemaining, vars
<1>5. CASE EnqueueAndStart
  BY <1>5, <1>1, <1>2 DEF EnqueueAndStart, QueueJob, At
<1>6. CASE StartDynamic
  BY <1>6, <1>1, <1>2 DEF StartDynamic, At
<1>7. CASE NotifyOne
  BY <1>7, <1>1, <1>2 DEF NotifyOne, At
<1>8. CASE NotifyAll
  BY <1>8, <1>1, <1>2 DEF NotifyAll, Notified, At
<1>9. ASSUME NEW w \in Workers, TakeJob(w) PROVE IdleExact'
  BY <1>9, <1>3 DEF TakeJob, Ready
<1>10. ASSUME NEW w \in Workers, Wait(w) PROVE IdleExact'
  BY <1>10, <1>3 DEF Wait, Ready
<1>11. ASSUME NEW w \in Workers, LeaveOnShutdown(w) PROVE IdleExact'
  BY <1>11, <1>3 DEF LeaveOnShutdown, Ready
<1>12. ASSUME NEW w \in Workers, Retire(w) PROVE IdleExact'
  BY <1>12, <1>3 DEF Retire
<1>13. ASSUME NEW w \in Workers, Exit(w) PROVE IdleExact'
  BY <1>13, <1>1, <1>2 DEF Exit
<1>14. ASSUME NEW w \in Workers, SpuriousWakeup(w) PROVE IdleExact'
  BY <1>14, <1>1, <1>2 DEF SpuriousWakeup
<1>15. ASSUME NEW w \in Workers, IdleTimeout(w) PROVE IdleExact'
  BY <1>15, <1>1, <1>2 DEF IdleTimeout
<1>16. ASSUME NEW w \in Workers, JobEnds(w) PROVE IdleExact'
  BY <1>16, <1>1, <1>2 DEF JobEnds
<1> QED
  BY <1>4, <1>5, <1>6, <1>7, <1>8, <1>9, <1>10, <1>11, <1>12, <1>13, <1>14, <1>15, <1>16
     DEF Next, Listener, Enqueue, ListenerInPool, WorkerStep, WorkerGoesOn, Stopped

LEMMA NextWithinLimit == Typed /\ WithinLimit /\ [Next]_vars => WithinLimit'
<1> SUFFICES ASSUME Typed, WithinLimit, [Next]_vars PROVE WithinLimit'
  OBVIOUS
<1>1. IsFiniteSet(threads) /\ Cardinality(threads) \in Nat
  BY PoolAssumption, FS_Subset, FS_CardinalityType DEF Typed, ThreadsOK
<1>2. CASE UNCHANGED threads
  BY <1>2 DEF WithinLimit, Unbounded
<1>3. CASE EnqueueAndStart
  <2>1. PICK w \in Workers : threads' = threads \cup {w}
    BY <1>3 DEF EnqueueAndStart, At
  <2>2. Cardinality(threads') <= Cardinality(threads) + 1
    <3>1. Cardinality(threads \cup {w})
            = IF w \in threads THEN Cardinality(threads) ELSE Cardinality(threads) + 1
      BY <1>1, FS_AddElement
    <3> QED
      BY <1>1, <2>1, <3>1
  <2>3. Cardinality(threads) < ConfiguredSize /\ Cardinality(threads') \in Nat
    BY <1>1, <1>3, <2>1, FS_AddElement, FS_CardinalityType DEF EnqueueAndStart, BelowLimit
  <2> QED
    BY <1>1, <2>2, <2>3, PoolAssumption DEF WithinLimit
<1>4. UNCHANGED threads \/ EnqueueAndStart
  BY DEF Next, Listener, Enqueue, ListenerInPool, WorkerStep, WorkerGoesOn, Stopped,
         EnqueueAndGrow, EnqueueOnly, StartDynamic, NotifyOne, SetShutdown, NotifyAll,
         JoinThreads, Collect, JoinRemaining, TakeJob, Wait, LeaveOnShutdown, Retire,
         Exit, SpuriousWakeup, IdleTimeout, JobEnds, vars, listVars
<1> QED
  BY <1>2, <1>3, <1>4

LEMMA AlwaysCounted == Spec => []Counted
<1>1. Init => Counted
  BY InitCounted
<1>2. Typed /\ Counted /\ [Next]_vars => Counted'
  BY NextIdleExact, NextWithinLimit DEF Counted
<1> QED
  BY <1>1, <1>2, AlwaysTyped, PTL DEF Spec

\* Every variable has its type: in particular idle_thread_count_ never wraps.
THEOREM TypeCorrect == Spec => []TypeOK
<1>1. Typed /\ Counted => TypeOK
  <2>1. InWait = {w \in Workers : wpc[w] \in IdlePlaces}
    BY DEF InWait, IdlePlaces
  <2>2. Counted => idle_thread_count \in Nat
    BY <2>1, NumberIsNat DEF Counted, IdleExact, Number
  <2> QED
    BY <2>2 DEF Typed, TypeOK, QueueOK
<1> QED
  BY <1>1, AlwaysTyped, AlwaysCounted, PTL

\* idle_thread_count_ is exact at every point between two critical sections.
THEOREM IdleCountExact == Spec => []IdleExact
<1>1. Counted => IdleExact
  BY DEF Counted
<1> QED
  BY <1>1, AlwaysCounted, PTL

--------------------------------------------------------------------------------
(* Queued jobs.                                                              *)

FreePlaces == {"loop", "waiting", "woken", "timedOut"}
FreeWorkers(pc) == Number(pc, FreePlaces)

LEMMA IdleAreFree == ASSUME NEW pc PROVE Idle(pc) <= FreeWorkers(pc)
<1>1. {w \in Workers : pc[w] \in FreePlaces} \in SUBSET Workers
  OBVIOUS
<1>2. {w \in Workers : pc[w] \in IdlePlaces}
        \in SUBSET {w \in Workers : pc[w] \in FreePlaces}
  BY DEF IdlePlaces, FreePlaces
<1> QED
  BY <1>1, <1>2, PoolAssumption, FS_Subset DEF Idle, FreeWorkers, Number

\* Each step keeps the promise of QueuedJobsServed.
LEMMA NextUnserved ==
  Typed /\ Counted /\ UnservedOnlyWhenSaturated /\ [Next]_vars
    => UnservedOnlyWhenSaturated'
<1> SUFFICES ASSUME Typed, Counted, UnservedOnlyWhenSaturated, [Next]_vars
             PROVE  UnservedOnlyWhenSaturated'
  OBVIOUS
<1> DEFINE Starting == IF lpc = "cleanup" THEN 1 ELSE 0
<1>1. /\ wpc \in [Workers -> WorkerPC] /\ jobs \in Seq(1..MaxJobs)
      /\ FreeWorkers(wpc) \in Nat /\ FreeWorkers(wpc') \in Nat /\ Len(jobs) \in Nat
  BY NumberIsNat DEF Typed, ThreadsOK, FreeWorkers
<1>2. /\ UnservedOnlyWhenSaturated <=> Len(jobs) <= FreeWorkers(wpc) + Starting \/ Saturated
      /\ UnservedOnlyWhenSaturated' <=>
           Len(jobs') <= FreeWorkers(wpc') + Starting' \/ Saturated'
  BY DEF UnservedOnlyWhenSaturated, Free, FreeWorkers, FreePlaces, Number
<1>3. ASSUME Len(jobs') <= FreeWorkers(wpc') + Starting' PROVE UnservedOnlyWhenSaturated'
  BY <1>2, <1>3
<1>4. ASSUME UNCHANGED threads, Saturated PROVE UnservedOnlyWhenSaturated'
  BY <1>2, <1>4 DEF Saturated, Unbounded
<1>5. ASSUME UNCHANGED <<threads, jobs>>,
             FreeWorkers(wpc') + Starting' >= FreeWorkers(wpc) + Starting
      PROVE  UnservedOnlyWhenSaturated'
  BY <1>1, <1>2, <1>4, <1>5
<1>6. ASSUME jobs' = <<>> PROVE UnservedOnlyWhenSaturated'
  BY <1>1, <1>3, <1>6
<1>7. (\A w \in Workers : wpc'[w] \in FreePlaces <=> wpc[w] \in FreePlaces)
        => FreeWorkers(wpc') = FreeWorkers(wpc)
  BY NoneMoves DEF FreeWorkers
<1>8. ASSUME NEW w \in Workers, wpc[w] \notin FreePlaces, wpc'[w] \in FreePlaces,
             \A v \in Workers \ {w} : wpc'[v] \in FreePlaces <=> wpc[v] \in FreePlaces
      PROVE  FreeWorkers(wpc') = FreeWorkers(wpc) + 1
  BY <1>8, OneEnters DEF FreeWorkers
<1> USE DEF queueVars, listVars, workerVars
<1>9. ASSUME QueueJob PROVE Len(jobs') = Len(jobs) + 1
  BY <1>1, <1>9 DEF QueueJob
<1>10. CASE EnqueueAndGrow
  <2>1. lpc = "accept" /\ lpc' = "cleanup" /\ UNCHANGED <<threads, wpc>>
    BY <1>10 DEF EnqueueAndGrow, QueueJob
  <2>2. Len(jobs') = Len(jobs) + 1
    BY <1>9, <1>10 DEF EnqueueAndGrow
  <2> QED
    BY <1>1, <1>2, <1>3, <1>4, <2>1, <2>2
<1>11. CASE EnqueueAndStart
  <2>1. PICK w \in Workers : wpc[w] = "absent" /\ wpc' = [wpc EXCEPT ![w] = "loop"]
    BY <1>11 DEF EnqueueAndStart, At
  <2>2. FreeWorkers(wpc') = FreeWorkers(wpc) + 1
    BY <1>1, <1>8, <2>1 DEF FreePlaces
  <2>3. Len(jobs') = Len(jobs) + 1 /\ lpc = "accept" /\ lpc' = "notify"
    BY <1>9, <1>11 DEF EnqueueAndStart, QueueJob
  <2>4. ~Saturated
    <3>1. Cardinality(threads) \in Nat
      BY PoolAssumption, FS_Subset, FS_CardinalityType DEF Typed, ThreadsOK
    <3> QED
      BY <1>11, <3>1, PoolAssumption DEF EnqueueAndStart, BelowLimit, Saturated
  <2> QED
    BY <1>1, <1>2, <1>3, <2>2, <2>3, <2>4
<1>12. CASE EnqueueOnly
  <2>1. UNCHANGED <<threads, wpc>> /\ lpc' = "notify" /\ Len(jobs') = Len(jobs) + 1
    BY <1>9, <1>12 DEF EnqueueOnly
  <2>2. CASE ~NeedsMoreCapacity
    <3>1. idle_thread_count = Idle(wpc) /\ Idle(wpc) \in Nat
      BY NumberIsNat DEF Counted, IdleExact, InWait, Idle, IdlePlaces, Number
    <3>2. Len(jobs) + 1 <= Idle(wpc)
      BY <1>1, <2>2, <3>1 DEF NeedsMoreCapacity
    <3> QED
      BY <1>1, <1>3, <2>1, <3>1, <3>2, IdleAreFree
  <2>3. CASE ~Unbounded /\ ~BelowLimit
    <3>1. Cardinality(threads) \in Nat
      BY PoolAssumption, FS_Subset, FS_CardinalityType DEF Typed, ThreadsOK
    <3>2. Saturated
      BY <2>3, <3>1, PoolAssumption DEF BelowLimit, Saturated, Counted, WithinLimit
    <3> QED
      BY <1>4, <2>1, <3>2
  <2> QED
    BY <1>12, <2>2, <2>3 DEF EnqueueOnly
<1>13. CASE StartDynamic
  <2>1. PICK w \in At("absent") \cup finished_threads :
          wpc' = [v \in Workers |-> CASE v = w -> "loop"
                                     [] v # w /\ v \in finished_threads -> "absent"
                                     [] OTHER -> wpc[v]]
    BY <1>13 DEF StartDynamic
  <2>2. w \in Workers /\ wpc[w] \notin FreePlaces
    BY <1>13 DEF StartDynamic, At, FreePlaces, Typed, ThreadsOK
  <2>3. wpc'[w] \in FreePlaces
        /\ \A v \in Workers \ {w} : wpc'[v] \in FreePlaces <=> wpc[v] \in FreePlaces
    BY <1>13, <2>1, <2>2 DEF StartDynamic, FreePlaces
  <2>4. FreeWorkers(wpc') = FreeWorkers(wpc) + 1
    BY <1>8, <2>2, <2>3
  <2>5. UNCHANGED <<threads, jobs>> /\ lpc = "cleanup" /\ lpc' = "notify"
    BY <1>13 DEF StartDynamic
  <2> QED
    BY <1>1, <1>5, <2>4, <2>5
<1>14. CASE NotifyOne
  BY <1>1, <1>5, <1>7, <1>14 DEF NotifyOne, At, FreePlaces
<1>15. CASE NotifyAll
  BY <1>1, <1>5, <1>7, <1>15 DEF NotifyAll, Notified, At, FreePlaces
<1>16. CASE SetShutdown \/ JoinThreads \/ Collect \/ JoinRemaining \/ UNCHANGED vars
  BY <1>1, <1>5, <1>16 DEF SetShutdown, JoinThreads, Collect, JoinRemaining, vars
<1>17. ASSUME NEW w \in Workers, TakeJob(w) PROVE UnservedOnlyWhenSaturated'
  <2>1. Len(jobs') = Len(jobs) - 1 /\ UNCHANGED <<threads, lpc>>
    BY <1>1, <1>17 DEF TakeJob
  <2>2. /\ wpc[w] \in FreePlaces /\ wpc'[w] \notin FreePlaces
        /\ \A v \in Workers \ {w} : wpc'[v] \in FreePlaces <=> wpc[v] \in FreePlaces
    BY <1>1, <1>17 DEF TakeJob, Ready, FreePlaces
  <2>3. FreeWorkers(wpc') = FreeWorkers(wpc) - 1
    BY <2>2, OneLeaves DEF FreeWorkers
  <2> QED
    BY <1>1, <1>2, <1>3, <1>4, <2>1, <2>3
<1>18. ASSUME NEW w \in Workers, Wait(w) \/ LeaveOnShutdown(w) \/ Retire(w)
       PROVE  UnservedOnlyWhenSaturated'
  BY <1>6, <1>18 DEF Wait, LeaveOnShutdown, MayLeave, Retire, StillIdle
<1>19. ASSUME NEW w \in Workers, Exit(w) \/ SpuriousWakeup(w) \/ IdleTimeout(w)
       PROVE  UnservedOnlyWhenSaturated'
  BY <1>1, <1>5, <1>7, <1>19 DEF Exit, SpuriousWakeup, IdleTimeout, FreePlaces
<1>20. ASSUME NEW w \in Workers, JobEnds(w) PROVE UnservedOnlyWhenSaturated'
  <2>1. FreeWorkers(wpc') = FreeWorkers(wpc) + 1
    BY <1>1, <1>8, <1>20 DEF JobEnds, FreePlaces
  <2> QED
    BY <1>1, <1>5, <1>20, <2>1 DEF JobEnds
<1> QED
  BY <1>10, <1>11, <1>12, <1>13, <1>14, <1>15, <1>16, <1>17, <1>18, <1>19, <1>20
     DEF Next, Listener, Enqueue, ListenerInPool, WorkerStep, WorkerGoesOn, Stopped

\* A queued job has a worker that will come for it, except in a limited pool at its
\* limit: for every size of the pool, starts and idle timeouts lose no capacity.
THEOREM QueuedJobsServed == Spec => []UnservedOnlyWhenSaturated
<1>1. Init => UnservedOnlyWhenSaturated
  <2>1. Free = {w \in Workers : wpc[w] \in FreePlaces}
    BY DEF Free, FreePlaces
  <2>2. Cardinality(Free) \in Nat
    BY <2>1, NumberIsNat DEF Number
  <2>3. Init => Len(jobs) = 0 /\ lpc = "accept"
    BY DEF Init
  <2> QED
    BY <2>2, <2>3 DEF UnservedOnlyWhenSaturated
<1>2. Typed /\ Counted /\ UnservedOnlyWhenSaturated /\ [Next]_vars
        => UnservedOnlyWhenSaturated'
  BY NextUnserved
<1> QED
  BY <1>1, <1>2, AlwaysTyped, AlwaysCounted, PTL DEF Spec

--------------------------------------------------------------------------------
(* Wake-ups.                                                                 *)

AwakePlaces == {"loop", "woken", "timedOut"}
AwakeWorkers(pc) == Number(pc, AwakePlaces)

LEMMA NextNoticed == Typed /\ NoJobWaitsForNotice /\ [Next]_vars => NoJobWaitsForNotice'
<1> SUFFICES ASSUME Typed, NoJobWaitsForNotice, [Next]_vars
             PROVE  NoJobWaitsForNotice'
  OBVIOUS
<1> DEFINE Notice == IF lpc \in {"cleanup", "notify"} THEN 1 ELSE 0
           Asleep == At("waiting") # {}
<1>1. /\ wpc \in [Workers -> WorkerPC] /\ jobs \in Seq(1..MaxJobs)
      /\ AwakeWorkers(wpc) \in Nat /\ AwakeWorkers(wpc') \in Nat /\ Len(jobs) \in Nat
  BY NumberIsNat DEF Typed, ThreadsOK, AwakeWorkers
<1>2. /\ NoJobWaitsForNotice <=> (Asleep => Len(jobs) <= AwakeWorkers(wpc) + Notice)
      /\ NoJobWaitsForNotice' <=>
           (Asleep' => Len(jobs') <= AwakeWorkers(wpc') + Notice')
  BY DEF NoJobWaitsForNotice, Awake, AwakeWorkers, AwakePlaces, Number
<1>3. ASSUME jobs' = <<>> PROVE NoJobWaitsForNotice'
  BY <1>1, <1>2, <1>3
<1>4. ASSUME ~Asleep' PROVE NoJobWaitsForNotice'
  BY <1>2, <1>4
<1>5. ASSUME Asleep' => Asleep, UNCHANGED jobs,
             AwakeWorkers(wpc') + Notice' >= AwakeWorkers(wpc) + Notice
      PROVE  NoJobWaitsForNotice'
  BY <1>1, <1>2, <1>5
<1>6. (\A w \in Workers : wpc'[w] \in AwakePlaces <=> wpc[w] \in AwakePlaces)
        => AwakeWorkers(wpc') = AwakeWorkers(wpc)
  BY NoneMoves DEF AwakeWorkers
<1>7. ASSUME NEW w \in Workers, wpc[w] \notin AwakePlaces, wpc'[w] \in AwakePlaces,
             \A v \in Workers \ {w} : wpc'[v] \in AwakePlaces <=> wpc[v] \in AwakePlaces
      PROVE  AwakeWorkers(wpc') = AwakeWorkers(wpc) + 1
  BY <1>7, OneEnters DEF AwakeWorkers
<1>8. ASSUME NEW w \in Workers, wpc[w] \notin AwakePlaces, wpc'[w] \in AwakePlaces,
             \A v \in Workers \ {w} : wpc'[v] = wpc[v],
             UNCHANGED <<jobs, lpc>>
      PROVE  NoJobWaitsForNotice'
  <2>1. AwakeWorkers(wpc') = AwakeWorkers(wpc) + 1
    BY <1>7, <1>8
  <2>2. Asleep' => Asleep
    BY <1>8 DEF At, AwakePlaces
  <2> QED
    BY <1>1, <1>5, <1>8, <2>1, <2>2
<1> USE DEF queueVars, listVars, workerVars
<1>9. CASE Enqueue
  <2>1. Len(jobs') = Len(jobs) + 1 /\ lpc = "accept" /\ lpc' \in {"cleanup", "notify"}
    BY <1>1, <1>9 DEF Enqueue, EnqueueAndGrow, EnqueueAndStart, EnqueueOnly, QueueJob
  <2>2. CASE UNCHANGED wpc
    BY <1>1, <1>2, <2>1, <2>2 DEF At
  <2>3. CASE EnqueueAndStart
    <3>1. PICK w \in Workers : wpc[w] = "absent" /\ wpc' = [wpc EXCEPT ![w] = "loop"]
      BY <2>3 DEF EnqueueAndStart, At
    <3>2. AwakeWorkers(wpc') = AwakeWorkers(wpc) + 1
      BY <1>1, <1>7, <3>1 DEF AwakePlaces
    <3>3. Asleep' => Asleep
      BY <1>1, <3>1 DEF At
    <3> QED
      BY <1>1, <1>2, <2>1, <3>2, <3>3
  <2> QED
    BY <1>9, <2>2, <2>3 DEF Enqueue, EnqueueAndGrow, EnqueueOnly
<1>10. CASE StartDynamic
  <2>1. PICK w \in At("absent") \cup finished_threads :
          wpc' = [v \in Workers |-> CASE v = w -> "loop"
                                     [] v # w /\ v \in finished_threads -> "absent"
                                     [] OTHER -> wpc[v]]
    BY <1>10 DEF StartDynamic
  <2>2. w \in Workers /\ wpc[w] \notin AwakePlaces
    BY <1>10 DEF StartDynamic, At, AwakePlaces, Typed, ThreadsOK
  <2>3. wpc'[w] \in AwakePlaces
        /\ \A v \in Workers \ {w} : wpc'[v] \in AwakePlaces <=> wpc[v] \in AwakePlaces
    BY <1>10, <2>1, <2>2 DEF StartDynamic, AwakePlaces
  <2>4. AwakeWorkers(wpc') = AwakeWorkers(wpc) + 1
    BY <1>7, <2>2, <2>3
  <2>5. Asleep' => Asleep
    BY <2>1 DEF At
  <2> QED
    BY <1>1, <1>5, <1>10, <2>4, <2>5 DEF StartDynamic
<1>11. CASE NotifyOne
  <2>1. CASE At("waiting") = {} /\ UNCHANGED wpc
    BY <1>4, <2>1 DEF At
  <2>2. ASSUME NEW w \in At("waiting"), wpc' = [wpc EXCEPT ![w] = "woken"]
        PROVE  NoJobWaitsForNotice'
    <3>1. AwakeWorkers(wpc') = AwakeWorkers(wpc) + 1
      BY <1>1, <1>7, <2>2 DEF At, AwakePlaces
    <3>2. UNCHANGED jobs /\ lpc = "notify" /\ lpc' = "accept" /\ Asleep
      BY <1>11, <2>2 DEF NotifyOne
    <3> QED
      BY <1>1, <1>5, <3>1, <3>2
  <2> QED
    BY <1>11, <2>1, <2>2 DEF NotifyOne
<1>12. CASE NotifyAll
  <2>1. ~Asleep'
    BY <1>12 DEF NotifyAll, Notified, At
  <2> QED
    BY <1>4, <2>1
<1>13. CASE SetShutdown \/ JoinThreads \/ Collect \/ JoinRemaining \/ UNCHANGED vars
  BY <1>1, <1>5, <1>13 DEF SetShutdown, JoinThreads, Collect, JoinRemaining, vars, At
<1>14. ASSUME NEW w \in Workers, TakeJob(w) PROVE NoJobWaitsForNotice'
  <2>1. Len(jobs') = Len(jobs) - 1 /\ UNCHANGED lpc
    BY <1>1, <1>14 DEF TakeJob
  <2>2. /\ wpc[w] \in AwakePlaces /\ wpc'[w] \notin AwakePlaces
        /\ \A v \in Workers \ {w} : wpc'[v] \in AwakePlaces <=> wpc[v] \in AwakePlaces
    BY <1>1, <1>14 DEF TakeJob, Ready, AwakePlaces
  <2>3. AwakeWorkers(wpc') = AwakeWorkers(wpc) - 1
    BY <2>2, OneLeaves DEF AwakeWorkers
  <2>4. Asleep' => Asleep
    BY <1>1, <1>14 DEF TakeJob, At
  <2> QED
    BY <1>1, <1>2, <2>1, <2>3, <2>4
<1>15. ASSUME NEW w \in Workers, Wait(w) \/ LeaveOnShutdown(w) \/ Retire(w)
       PROVE  NoJobWaitsForNotice'
  BY <1>3, <1>15 DEF Wait, LeaveOnShutdown, MayLeave, Retire, StillIdle
<1>16. ASSUME NEW w \in Workers, Exit(w) PROVE NoJobWaitsForNotice'
  <2>1. Asleep' => Asleep
    BY <1>1, <1>16 DEF Exit, At
  <2>2. AwakeWorkers(wpc') = AwakeWorkers(wpc)
    BY <1>1, <1>6, <1>16 DEF Exit, AwakePlaces
  <2> QED
    BY <1>1, <1>5, <1>16, <2>1, <2>2 DEF Exit
<1>17. ASSUME NEW w \in Workers, SpuriousWakeup(w) \/ IdleTimeout(w) \/ JobEnds(w)
       PROVE  NoJobWaitsForNotice'
  BY <1>1, <1>8, <1>17 DEF SpuriousWakeup, IdleTimeout, JobEnds, AwakePlaces
<1> QED
  BY <1>9, <1>10, <1>11, <1>12, <1>13, <1>14, <1>15, <1>16, <1>17
     DEF Next, Listener, ListenerInPool, WorkerStep, WorkerGoesOn, Stopped

\* No wake-up is lost although enqueue notifies after it has released the mutex.
THEOREM NoLostWakeup == Spec => []NoJobWaitsForNotice
<1>1. Init => NoJobWaitsForNotice
  <2>1. Init => At("waiting") = {}
    BY DEF Init, At
  <2> QED
    BY <2>1 DEF NoJobWaitsForNotice
<1>2. Typed /\ NoJobWaitsForNotice /\ [Next]_vars => NoJobWaitsForNotice'
  BY NextNoticed
<1> QED
  BY <1>1, <1>2, AlwaysTyped, PTL DEF Spec

--------------------------------------------------------------------------------
(* The pool is a TaskQueue.                                                  *)

\* Jobs are handed out in the order of their numbers: those that were begun are the
\* first ones, those queued the rest; a job is run by one worker, once.
JobsInOrder ==
  /\ Len(jobs) <= accepted
  /\ \A i \in 1..Len(jobs) : jobs[i] = accepted - Len(jobs) + i
  /\ {job[w] : w \in At("running")} \cup done = 1..(accepted - Len(jobs))
  /\ \A w \in At("running") : job[w] \notin done
  /\ \A v, w \in At("running") : job[v] = job[w] => v = w

\* A limited pool has no dynamic workers, and its workers leave only when shutdown
\* has left no job.
LimitedPool ==
  ~Unbounded =>
    /\ dynamic_threads = {} /\ finished_threads = {} /\ remaining = {}
    /\ lpc # "cleanup"
    /\ \A w \in Workers : wpc[w] \in {"exiting", "exited"} => shutdown /\ jobs = <<>>

\* The pool begins without jobs.
LEMMA InitOrdered == Init => JobsInOrder /\ LimitedPool
  BY DEF Init, JobsInOrder, LimitedPool, At

\* Only an unbounded pool grows, and only shutdown empties a limited one.
LEMMA NextLimitedPool ==
  Typed /\ Threaded /\ LimitedPool /\ [Next]_vars => LimitedPool'
<1> SUFFICES ASSUME Typed, Threaded, LimitedPool, [Next]_vars PROVE LimitedPool'
  OBVIOUS
<1> USE DEF Typed, ThreadsOK, Threaded, PhaseKnown, LateIsDynamic, LimitedPool,
            queueVars, listVars, workerVars
<1>1. CASE EnqueueAndGrow
  BY <1>1 DEF EnqueueAndGrow
<1>2. CASE EnqueueAndStart
  BY <1>2 DEF EnqueueAndStart, QueueJob, At
<1>3. CASE EnqueueOnly
  BY <1>3 DEF EnqueueOnly, QueueJob
<1>4. CASE StartDynamic
  BY <1>4 DEF StartDynamic
<1>5. CASE NotifyOne
  BY <1>5 DEF NotifyOne, At
<1>6. CASE SetShutdown
  BY <1>6 DEF SetShutdown
<1>7. CASE NotifyAll
  BY <1>7 DEF NotifyAll, Notified, At
<1>8. CASE JoinThreads \/ Collect \/ JoinRemaining
  BY <1>8 DEF JoinThreads, Collect, Collected, JoinRemaining
<1>9. ASSUME NEW w \in Workers, TakeJob(w) PROVE LimitedPool'
  BY <1>9 DEF TakeJob, Ready
<1>10. ASSUME NEW w \in Workers, Wait(w) \/ SpuriousWakeup(w) \/ JobEnds(w)
       PROVE  LimitedPool'
  BY <1>10 DEF Wait, Ready, SpuriousWakeup, JobEnds
<1>11. ASSUME NEW w \in Workers, LeaveOnShutdown(w) PROVE LimitedPool'
  BY <1>11 DEF LeaveOnShutdown, Ready, MayLeave
<1>12. ASSUME NEW w \in Workers, Retire(w) \/ IdleTimeout(w) PROVE LimitedPool'
  BY <1>12 DEF Retire, IdleTimeout, StillIdle
<1>13. ASSUME NEW w \in Workers, Exit(w) PROVE LimitedPool'
  BY <1>13 DEF Exit
<1>14. CASE UNCHANGED vars
  BY <1>14 DEF vars
<1> QED
  BY <1>1, <1>2, <1>3, <1>4, <1>5, <1>6, <1>7, <1>8, <1>9, <1>10, <1>11, <1>12, <1>13,
     <1>14
  DEF Next, Listener, Enqueue, ListenerInPool, WorkerStep, WorkerGoesOn, Stopped

\* A worker that takes a job takes the oldest one.
LEMMA TakeJobOrdered ==
  ASSUME Typed, JobsInOrder, NEW w \in Workers, TakeJob(w)
  PROVE  /\ JobsInOrder'
         /\ job'[w] = accepted - Len(jobs) + 1 /\ Len(jobs') = Len(jobs) - 1
         /\ At("running")' = At("running") \cup {w} /\ w \notin At("running")
         /\ \A v \in At("running") : job'[v] = job[v]
         /\ done' = done
<1> USE DEF Typed, ThreadsOK
<1>1. /\ jobs # <<>> /\ jobs' = Tail(jobs)
      /\ job' = [job EXCEPT ![w] = jobs[1]] /\ wpc' = [wpc EXCEPT ![w] = "running"]
      /\ wpc[w] # "running" /\ UNCHANGED <<accepted, done>>
  BY DEF TakeJob, Ready
<1>2. /\ Len(jobs) > 0 /\ Len(jobs') = Len(jobs) - 1
      /\ \A i \in 1..Len(jobs') : jobs'[i] = jobs[i + 1] /\ i + 1 \in 1..Len(jobs)
  BY <1>1
<1>3. job'[w] = accepted - Len(jobs) + 1
  BY <1>1, <1>2 DEF JobsInOrder
<1>4. /\ At("running")' = At("running") \cup {w} /\ w \notin At("running")
      /\ \A v \in At("running") : job'[v] = job[v]
  BY <1>1 DEF At
<1>5. {job'[v] : v \in At("running")'}
        = {job[v] : v \in At("running")} \cup {accepted - Len(jobs) + 1}
  BY <1>3, <1>4
<1>6. {job'[v] : v \in At("running")'} \cup done' = 1..(accepted' - Len(jobs'))
  <2> DEFINE n == accepted - Len(jobs)
             R == {job[v] : v \in At("running")}
  <2>1. R \cup done = 1..n /\ n \in Nat
    BY DEF JobsInOrder
  <2>2. accepted' - Len(jobs') = n + 1
    BY <1>1, <1>2
  <2>3. {job'[v] : v \in At("running")'} \cup done' = (R \cup done) \cup {n + 1}
    BY <1>1, <1>5
  <2> HIDE DEF n, R
  <2>4. (1..n) \cup {n + 1} = 1..(n + 1)
    BY <2>1
  <2> QED
    BY <2>1, <2>2, <2>3, <2>4
<1>7. accepted - Len(jobs) + 1 \notin {job[v] : v \in At("running")} \cup done
  BY <1>2 DEF JobsInOrder
<1>8. /\ \A v \in At("running")' : job'[v] \notin done'
      /\ \A u, v \in At("running")' : job'[u] = job'[v] => u = v
  BY <1>1, <1>3, <1>4, <1>7 DEF JobsInOrder
<1>9. /\ Len(jobs') <= accepted'
      /\ \A i \in 1..Len(jobs') : jobs'[i] = accepted' - Len(jobs') + i
  BY <1>1, <1>2 DEF JobsInOrder
<1> QED
  BY <1>1, <1>2, <1>3, <1>4, <1>6, <1>8, <1>9 DEF JobsInOrder

\* A job that ends was run by one worker.
LEMMA JobEndsOrdered ==
  ASSUME Typed, JobsInOrder, NEW w \in Workers, JobEnds(w)
  PROVE  /\ JobsInOrder'
         /\ job[w] \in {job[v] : v \in At("running")}
         /\ {job'[v] : v \in At("running")'} = {job[v] : v \in At("running")} \ {job[w]}
         /\ done' = done \cup {job[w]}
<1> USE DEF Typed, ThreadsOK
<1>1. /\ w \in At("running") /\ done' = done \cup {job[w]}
      /\ job' = [job EXCEPT ![w] = 0] /\ wpc' = [wpc EXCEPT ![w] = "loop"]
      /\ UNCHANGED <<jobs, accepted>>
  BY DEF JobEnds, At, queueVars
<1>2. At("running")' = At("running") \ {w} /\ \A v \in At("running")' : job'[v] = job[v]
  BY <1>1 DEF At
<1>3. {job'[v] : v \in At("running")'} = {job[v] : v \in At("running")} \ {job[w]}
  BY <1>1, <1>2 DEF JobsInOrder
<1>4. {job'[v] : v \in At("running")'} \cup done' = 1..(accepted' - Len(jobs'))
  BY <1>1, <1>3 DEF JobsInOrder
<1>5. /\ \A v \in At("running")' : job'[v] \notin done'
      /\ \A u, v \in At("running")' : job'[u] = job'[v] => u = v
  BY <1>1, <1>2 DEF JobsInOrder
<1> QED
  BY <1>1, <1>3, <1>4, <1>5 DEF JobsInOrder

\* enqueue appends the next number.
LEMMA QueueJobOrdered ==
  ASSUME Typed, JobsInOrder, QueueJob, At("running")' = At("running")
  PROVE  JobsInOrder'
<1> USE DEF Typed
<1>1. /\ accepted' = accepted + 1 /\ jobs' = Append(jobs, accepted + 1)
      /\ UNCHANGED <<job, done>>
  BY DEF QueueJob
<1>2. /\ Len(jobs') = Len(jobs) + 1 /\ jobs'[Len(jobs) + 1] = accepted + 1
      /\ \A i \in 1..Len(jobs) : jobs'[i] = jobs[i]
  BY <1>1
<1>3. accepted' - Len(jobs') = accepted - Len(jobs) /\ Len(jobs') <= accepted'
  BY <1>1, <1>2 DEF JobsInOrder
<1>4. \A i \in 1..Len(jobs') : jobs'[i] = accepted' - Len(jobs') + i
  BY <1>1, <1>2, <1>3 DEF JobsInOrder
<1> QED
  BY <1>1, <1>3, <1>4 DEF JobsInOrder

\* All other steps leave the jobs, and who runs them, as they are.
LEMMA OtherSteps ==
  ASSUME Typed, Threaded, [Next]_vars,
         ~ Enqueue, \A w \in Workers : ~ TakeJob(w) /\ ~ JobEnds(w)
  PROVE  /\ UNCHANGED <<jobs, accepted, job, done>>
         /\ At("running")' = At("running")
<1> USE DEF Typed, ThreadsOK, Threaded, At, queueVars, listVars, workerVars
<1>1. CASE StartDynamic
  <2>1. \A v \in finished_threads \cup At("absent") : wpc[v] # "running"
    BY <1>1 DEF StartDynamic
  <2> QED
    BY <1>1, <2>1 DEF StartDynamic
<1>2. CASE NotifyOne
  BY <1>2 DEF NotifyOne
<1>3. CASE NotifyAll
  BY <1>3 DEF NotifyAll, Notified
<1>4. CASE SetShutdown \/ JoinThreads \/ Collect \/ JoinRemaining
  BY <1>4 DEF SetShutdown, JoinThreads, Collect, JoinRemaining
<1>5. ASSUME NEW w \in Workers, Wait(w) \/ LeaveOnShutdown(w) \/ Retire(w) \/ Exit(w)
                                \/ SpuriousWakeup(w) \/ IdleTimeout(w)
      PROVE  /\ UNCHANGED <<jobs, accepted, job, done>>
             /\ At("running")' = At("running")
  BY <1>5 DEF Wait, LeaveOnShutdown, Retire, Exit, SpuriousWakeup, IdleTimeout, Ready
<1>6. CASE UNCHANGED vars
  BY <1>6 DEF vars
<1> QED
  BY <1>1, <1>2, <1>3, <1>4, <1>5, <1>6
  DEF Next, Listener, ListenerInPool, WorkerStep, WorkerGoesOn, Stopped

\* enqueue begins no job.
LEMMA EnqueueKeepsRunning ==
  Typed /\ Enqueue => QueueJob /\ At("running")' = At("running")
<1> SUFFICES ASSUME Typed, Enqueue PROVE QueueJob /\ At("running")' = At("running")
  OBVIOUS
<1> USE DEF Typed, ThreadsOK, At
<1>1. CASE EnqueueAndStart
  BY <1>1 DEF EnqueueAndStart
<1>2. CASE EnqueueAndGrow \/ EnqueueOnly
  BY <1>2 DEF EnqueueAndGrow, EnqueueOnly
<1> QED
  BY <1>1, <1>2 DEF Enqueue

\* Every step keeps the order of the jobs.
LEMMA NextJobsInOrder == Typed /\ Threaded /\ JobsInOrder /\ [Next]_vars => JobsInOrder'
<1> SUFFICES ASSUME Typed, Threaded, JobsInOrder, [Next]_vars PROVE JobsInOrder'
  OBVIOUS
<1>1. CASE Enqueue
  BY <1>1, EnqueueKeepsRunning, QueueJobOrdered
<1>2. CASE \E w \in Workers : TakeJob(w) \/ JobEnds(w)
  BY <1>2, TakeJobOrdered, JobEndsOrdered
<1>3. CASE ~ Enqueue /\ \A w \in Workers : ~ TakeJob(w) /\ ~ JobEnds(w)
  BY <1>3, OtherSteps DEF JobsInOrder
<1> QED
  BY <1>1, <1>2, <1>3

\* What the refinement rests on.
TaskInv == /\ Typed /\ Threaded /\ Counted /\ UnservedOnlyWhenSaturated
           /\ JobsInOrder /\ LimitedPool

\* It holds in every state of the pool.
LEMMA AlwaysTaskInv == Spec => []TaskInv
<1>1. Typed /\ Threaded /\ JobsInOrder /\ LimitedPool /\ [Next]_vars
        => (JobsInOrder /\ LimitedPool)'
  BY NextJobsInOrder, NextLimitedPool
<1> QED
  BY <1>1, InitOrdered, AlwaysTyped, AlwaysThreaded, AlwaysCounted, QueuedJobsServed, PTL
  DEF Spec, TaskInv

\* Another job may run when a worker of a limited pool is free.
LEMMA RoomForAnother ==
  ASSUME TaskInv, ~Unbounded, NEW w \in Workers, TakeJob(w)
  PROVE  Cardinality({job[v] : v \in At("running")}) < ConfiguredSize
<1> DEFINE R == At("running")
           T == {job[v] : v \in R}
<1>1. IsFiniteSet(threads) /\ Cardinality(threads) \in Nat
  BY PoolAssumption, FS_Subset, FS_CardinalityType DEF TaskInv, Typed, ThreadsOK
<1>2. w \in threads /\ R \subseteq threads \ {w}
  BY DEF TaskInv, Threaded, NoThreadDropped, LimitedPool, TakeJob, Ready, At
<1>3. /\ IsFiniteSet(threads \ {w})
      /\ Cardinality(threads \ {w}) = Cardinality(threads) - 1
  BY <1>1, <1>2, FS_RemoveElement
<1>4. IsFiniteSet(R) /\ Cardinality(R) <= Cardinality(threads) - 1
  BY <1>2, <1>3, FS_Subset
<1>5. [v \in R |-> job[v]] \in Surjection(R, T)
  BY DEF Surjection
<1>6. Cardinality(T) <= Cardinality(R) /\ IsFiniteSet(T)
  BY <1>4, <1>5, FS_Surjection
<1>7. Cardinality(threads) <= ConfiguredSize
  BY DEF TaskInv, Counted, WithinLimit
<1> QED
  BY <1>1, <1>4, <1>6, <1>7, FS_CardinalityType, PoolAssumption

\* When shutdown has returned no job is queued and none runs.
LEMMA StoppedIsDone ==
  ASSUME TaskInv, TaskInv', JoinRemaining
  PROVE  done = 1..accepted /\ At("running") = {}
<1>1. lpc' = "stopped" /\ UNCHANGED <<jobs, wpc, threads, done, accepted, job>>
  BY DEF JoinRemaining, queueVars, listVars, workerVars
<1>2. \A w \in Workers : wpc[w] \in {"absent", "exited"}
  BY <1>1 DEF TaskInv, Typed, ThreadsOK, Threaded, JoinedSoFar, NoThreadDropped
<1>3. jobs = <<>>
  <2>1. CASE Saturated
    <3>1. threads # {}
      BY <2>1, FS_EmptySet, PoolAssumption DEF Saturated, Unbounded
    <3>2. PICK w \in Workers : w \in threads
      BY <3>1 DEF TaskInv, Typed, ThreadsOK
    <3>3. wpc[w] = "exited"
      BY <3>2, <1>2 DEF TaskInv, Threaded, NoThreadDropped
    <3> QED
      BY <3>3, <2>1 DEF Saturated, TaskInv, LimitedPool
  <2>2. CASE ~Saturated
    <3>1. Free = {}
      BY <1>2 DEF Free
    <3>2. Len(jobs) <= 0
      BY <2>2, <3>1, FS_EmptySet DEF TaskInv, UnservedOnlyWhenSaturated, JoinRemaining
    <3> QED
      BY <3>2 DEF TaskInv, Typed
  <2> QED
    BY <2>1, <2>2
<1>4. At("running") = {}
  BY <1>2 DEF At
<1>5. Len(jobs) = 0 /\ accepted - 0 = accepted
  BY <1>3 DEF TaskInv, Typed
<1>6. {job[w] : w \in At("running")} = {}
  BY <1>4
<1>7. {job[w] : w \in At("running")} \cup done = 1..(accepted - Len(jobs))
  BY DEF TaskInv, JobsInOrder
<1> QED
  BY <1>4, <1>5, <1>6, <1>7

\* The instance has the same measure of a set.
LEMMA SameCardinality == \A S : Tasks!Cardinality(S) = Cardinality(S)
  BY DEF Tasks!Cardinality, Cardinality, Tasks!IsFiniteSet, IsFiniteSet

\* Every step of the pool is one of the queue, or leaves it as it is.
LEMMA StepMaps ==
  ASSUME TaskInv, TaskInv', [Next]_vars
  PROVE  Tasks!Next \/ UNCHANGED Tasks!taskVars
<1> DEFINE running == {job[w] : w \in At("running")}
           phase == CASE lpc = "stopped" -> "stopped"
                      [] shutdown /\ lpc # "stopped" -> "closing"
                      [] OTHER -> "open"
<1>1. CASE Enqueue
  <2>1. QueueJob /\ running' = running
    BY <1>1, EnqueueKeepsRunning DEF TaskInv, QueueJob
  <2>2. lpc = "accept" /\ lpc' # "stopped" /\ ~shutdown /\ ~shutdown'
    BY <1>1, <2>1 DEF QueueJob, Enqueue, EnqueueAndGrow, EnqueueAndStart, EnqueueOnly,
       TaskInv, Threaded, PhaseKnown
  <2> QED
    BY <2>1, <2>2 DEF QueueJob, Tasks!Next, Tasks!Accept
<1>2. ASSUME NEW w \in Workers, TakeJob(w) PROVE Tasks!Begin
  <2>1. UNCHANGED <<accepted, done, shutdown, lpc>>
    BY <1>2 DEF TakeJob
  <2>2. running' = running \cup {accepted - Len(jobs) + 1}
    BY <1>2, TakeJobOrdered DEF TaskInv
  <2>3. running \cup done = 1..(accepted - Len(jobs))
        /\ accepted - Len(jobs) + 1 \in 1..accepted
    BY <1>2 DEF TaskInv, Typed, JobsInOrder, TakeJob
  <2>4. ConfiguredSize = 0 \/ Cardinality(running) < ConfiguredSize
    BY <1>2, RoomForAnother DEF Unbounded
  <2> HIDE DEF running
  <2>5. running \cup done = 1..((accepted - Len(jobs) + 1) - 1)
    BY <2>3 DEF TaskInv, Typed
  <2>6. accepted - Len(jobs) + 1 \in 1..accepted
    BY <2>3
  <2>7. \E n \in 1..accepted : running \cup done = 1..(n - 1)
                              /\ running' = running \cup {n}
    BY <2>2, <2>5, <2>6
  <2>8. UNCHANGED <<accepted, done, phase>>
    BY <2>1
  <2> HIDE DEF phase
  <2> QED
    BY <2>4, <2>7, <2>8, SameCardinality DEF Tasks!Begin, Tasks!Begun, running, phase
<1>3. ASSUME NEW w \in Workers, JobEnds(w) PROVE Tasks!End
  <2>1. UNCHANGED <<accepted, shutdown, lpc>>
    BY <1>3 DEF JobEnds, queueVars
  <2> QED
    BY <1>3, <2>1, JobEndsOrdered DEF TaskInv, Tasks!End
<1>4. CASE ~ Enqueue /\ \A w \in Workers : ~ TakeJob(w) /\ ~ JobEnds(w)
  <2>1. UNCHANGED <<accepted, done>> /\ running' = running
    BY <1>4, OtherSteps DEF TaskInv
  <2>2. CASE SetShutdown
    BY <2>1, <2>2 DEF SetShutdown, TaskInv, Threaded, PhaseKnown, Tasks!Next, Tasks!Close
  <2>3. CASE JoinRemaining
    <3>1. done = 1..accepted
      BY <2>3, StoppedIsDone
    <3>2. shutdown /\ shutdown' /\ lpc # "stopped" /\ lpc' = "stopped"
      BY <2>3 DEF JoinRemaining, TaskInv, Threaded, PhaseKnown
    <3> QED
      BY <2>1, <3>1, <3>2 DEF Tasks!Next, Tasks!Stop
  <2>4. CASE shutdown' = shutdown /\ (lpc' = "stopped" <=> lpc = "stopped")
    BY <2>1, <2>4 DEF Tasks!taskVars
  <2>5. SetShutdown \/ JoinRemaining
        \/ (shutdown' = shutdown /\ (lpc' = "stopped" <=> lpc = "stopped"))
    BY <1>4 DEF Next, Listener, ListenerInPool, WorkerStep, WorkerGoesOn, Stopped,
       StartDynamic, NotifyOne, NotifyAll, JoinThreads, Collect, Wait, LeaveOnShutdown,
       Retire, Exit, SpuriousWakeup, IdleTimeout, vars
  <2> QED
    BY <2>2, <2>3, <2>4, <2>5
<1> QED
  BY <1>1, <1>2, <1>3, <1>4 DEF Tasks!Next

\* The pool is the queue of tasks httplib expects: the refinement, for every set of
\* workers, every size and every number of jobs (enqueue, the worker loop, shutdown).
THEOREM PoolServesTasks == Spec => ServesTasks
<1>1. Init => Tasks!Init
  BY DEF Init, Tasks!Init, At
<1>2. TaskInv /\ TaskInv' /\ [Next]_vars => [Tasks!Next]_(Tasks!taskVars)
  BY StepMaps
<1> QED
  BY AlwaysTaskInv, <1>1, <1>2, PTL DEF Spec, ServesTasks, Tasks!Spec
================================================================================
