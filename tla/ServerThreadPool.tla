----------------------------- MODULE ServerThreadPool -----------------------------
(***************************************************************************)
(* The worker pool behind the HTTP server, src/src/server_thread_pool.cpp. *)
(* A pool of configured size 0 is unbounded: it keeps its base workers and *)
(* starts dynamic ones that leave after an idle time.  Any other size is   *)
(* the limit of a pool that starts its workers as jobs pile up.            *)
(*                                                                         *)
(* httplib's listener is the one thread that calls the pool: it enqueues   *)
(* each connection it accepts and, when the server stops, shuts the pool   *)
(* down.  A critical section is one action; the mutex is a variable of its *)
(* own only where it is held across a step, when the listener joins        *)
(* finished workers (lpc = "cleanup").  The condition variable is modelled *)
(* with its wait set: notify_one wakes a worker that waits at that moment, *)
(* if there is one, and is a separate step because enqueue has unlocked.   *)
(***************************************************************************)
EXTENDS Naturals, Sequences, FiniteSets

CONSTANTS
  Workers,          \* identities of worker threads, reused once joined
  BaseWorkers,      \* the base workers of an unbounded pool (kDefaultThreadCount)
  ConfiguredSize,   \* the constructor's argument: max_thread_count_, or 0
  MaxJobs           \* bound: how many connections are accepted

Unbounded == ConfiguredSize = 0

ASSUME PoolAssumption ==
  /\ IsFiniteSet(Workers) /\ BaseWorkers \subseteq Workers
  /\ ConfiguredSize \in Nat /\ MaxJobs \in Nat

VARIABLES
  jobs,                \* jobs_: the n-th accepted job is n
  idle_thread_count,
  shutdown,
  threads,             \* threads_: workers of a limited pool, base workers
  dynamic_threads,
  finished_threads,
  wpc,                 \* where each worker is
  job,                 \* the job a worker runs, or 0
  lpc,                 \* where the listener is
  remaining,           \* the threads shutdown collected to join
  accepted,            \* how many jobs enqueue accepted
  done                 \* the jobs that were run

queueVars == <<jobs, idle_thread_count, accepted>>
listVars == <<threads, dynamic_threads, finished_threads, remaining>>
workerVars == <<wpc, job, done>>
vars == <<queueVars, listVars, workerVars, shutdown, lpc>>

WorkerPC == {"absent", "loop", "waiting", "woken", "timedOut", "running",
             "exiting", "exited"}
ListenerPC == {"accept", "cleanup", "notify", "notifyAll", "joinThreads", "collect",
               "joinRemaining", "stopped"}

At(place) == {w \in Workers : wpc[w] = place}

MutexFree == lpc # "cleanup"

Init ==
  /\ jobs = <<>> /\ idle_thread_count = 0 /\ accepted = 0
  /\ shutdown = FALSE /\ lpc = "accept"
  /\ threads = (IF Unbounded THEN BaseWorkers ELSE {})
  /\ dynamic_threads = {} /\ finished_threads = {} /\ remaining = {}
  /\ wpc = [w \in Workers |-> IF w \in threads THEN "loop" ELSE "absent"]
  /\ job = [w \in Workers |-> 0] /\ done = {}

--------------------------------------------------------------------------------
(* enqueue, by the listener                                                  *)

\* Mutant: the job just queued is not counted against the idle workers.
MutNeedsMoreCapacity == Len(jobs) > idle_thread_count
NeedsMoreCapacity == Len(jobs) + 1 > idle_thread_count

BelowLimit == Cardinality(threads) < ConfiguredSize

QueueJob ==
  /\ lpc = "accept" /\ accepted < MaxJobs
  /\ accepted' = accepted + 1
  /\ jobs' = Append(jobs, accepted')
  /\ UNCHANGED <<idle_thread_count, finished_threads, remaining, job, done, shutdown>>

\* A job an unbounded pool has no idle worker for: the listener keeps the mutex
\* while it joins the finished workers.
EnqueueAndGrow ==
  /\ QueueJob
  /\ Unbounded /\ NeedsMoreCapacity
  /\ lpc' = "cleanup"
  /\ UNCHANGED <<threads, dynamic_threads, wpc>>

\* cleanup_finished_threads_locked has joined them; start_worker_locked(true).
StartDynamic ==
  /\ lpc = "cleanup"
  /\ \A w \in finished_threads : wpc[w] = "exited"
  /\ \E w \in At("absent") \cup finished_threads :
       /\ wpc' = [v \in Workers |-> CASE v = w -> "loop"
                                      [] v # w /\ v \in finished_threads -> "absent"
                                      [] OTHER -> wpc[v]]
       /\ dynamic_threads' = dynamic_threads \cup {w}
  /\ finished_threads' = {}
  /\ lpc' = "notify"
  /\ UNCHANGED <<queueVars, threads, remaining, job, done, shutdown>>

\* A pool below its limit: start_worker_locked(false).
EnqueueAndStart ==
  /\ QueueJob
  /\ ~Unbounded /\ NeedsMoreCapacity /\ BelowLimit
  /\ \E w \in At("absent") : /\ threads' = threads \cup {w}
                             /\ wpc' = [wpc EXCEPT ![w] = "loop"]
  /\ lpc' = "notify"
  /\ UNCHANGED dynamic_threads

EnqueueOnly ==
  /\ QueueJob
  /\ ~NeedsMoreCapacity \/ (~Unbounded /\ ~BelowLimit)
  /\ lpc' = "notify"
  /\ UNCHANGED <<threads, dynamic_threads, wpc>>

\* Mutant: the wake-up may be given to nobody although a worker waits.
MutNotifyOne ==
  /\ lpc = "notify"
  /\ \/ \E w \in At("waiting") : wpc' = [wpc EXCEPT ![w] = "woken"]
     \/ UNCHANGED wpc
  /\ lpc' = "accept"
  /\ UNCHANGED <<queueVars, listVars, job, done, shutdown>>
\* cond_.notify_one(), after the mutex is released.
NotifyOne ==
  /\ lpc = "notify"
  /\ \/ \E w \in At("waiting") : wpc' = [wpc EXCEPT ![w] = "woken"]
     \/ At("waiting") = {} /\ UNCHANGED wpc
  /\ lpc' = "accept"
  /\ UNCHANGED <<queueVars, listVars, job, done, shutdown>>

--------------------------------------------------------------------------------
(* worker: "loop" is the top of its loop; "woken" and "timedOut" have left   *)
(* the wait set, notified or late, and are counted idle until they have the  *)
(* mutex again.                                                              *)

Ready(w) == MutexFree /\ wpc[w] \in {"loop", "woken", "timedOut"}

\* Mutant: a worker that finds work without a wait is not counted in before it is
\* counted out.
MutIdleUncounted(w) == idle_thread_count - 1
\* Mutant: a worker whose wait timed out keeps being counted.
MutIdleWithout(w) == IF wpc[w] = "woken" THEN idle_thread_count - 1 ELSE idle_thread_count
IdleWithout(w) == IF wpc[w] = "loop" THEN idle_thread_count ELSE idle_thread_count - 1

TakeJob(w) ==
  /\ Ready(w) /\ jobs # <<>>
  /\ idle_thread_count' = IdleWithout(w)
  /\ job' = [job EXCEPT ![w] = Head(jobs)]
  /\ jobs' = Tail(jobs)
  /\ wpc' = [wpc EXCEPT ![w] = "running"]
  /\ UNCHANGED <<accepted, listVars, done, shutdown, lpc>>

Wait(w) ==
  /\ Ready(w) /\ wpc[w] # "timedOut" /\ jobs = <<>> /\ ~shutdown
  /\ idle_thread_count' = IdleWithout(w) + 1
  /\ wpc' = [wpc EXCEPT ![w] = "waiting"]
  /\ UNCHANGED <<jobs, accepted, listVars, job, done, shutdown, lpc>>

\* The condition variable may wake a worker nobody notified.
SpuriousWakeup(w) ==
  /\ wpc[w] = "waiting"
  /\ wpc' = [wpc EXCEPT ![w] = "woken"]
  /\ UNCHANGED <<queueVars, listVars, job, done, shutdown, lpc>>

\* Mutant: a worker leaves at shutdown although jobs are queued.
MutMayLeave == shutdown
MayLeave == shutdown /\ jobs = <<>>

LeaveOnShutdown(w) ==
  /\ Ready(w) /\ MayLeave
  /\ idle_thread_count' = IdleWithout(w)
  /\ wpc' = [wpc EXCEPT ![w] = "exiting"]
  /\ UNCHANGED <<jobs, accepted, listVars, job, done, shutdown, lpc>>

\* kDynamicThreadIdleTimeout is over: the wait ends, the mutex is still to be had.
IdleTimeout(w) ==
  /\ wpc[w] = "waiting" /\ w \in dynamic_threads
  /\ wpc' = [wpc EXCEPT ![w] = "timedOut"]
  /\ UNCHANGED <<queueVars, listVars, job, done, shutdown, lpc>>

StillIdle == jobs = <<>> /\ ~shutdown

\* Mutant: the handle of the leaving worker is erased, not kept for the join.
MutToFinished(w) == finished_threads
ToFinished(w) == finished_threads \cup {w}

\* No work came in the meantime: move_dynamic_to_finished_locked and leave.
Retire(w) ==
  /\ MutexFree /\ wpc[w] = "timedOut"
  /\ StillIdle
  /\ idle_thread_count' = IdleWithout(w)
  /\ dynamic_threads' = dynamic_threads \ {w}
  /\ finished_threads' = ToFinished(w)
  /\ wpc' = [wpc EXCEPT ![w] = "exiting"]
  /\ UNCHANGED <<jobs, accepted, threads, remaining, job, done, shutdown, lpc>>

JobEnds(w) ==
  /\ wpc[w] = "running"
  /\ done' = done \cup {job[w]}
  /\ job' = [job EXCEPT ![w] = 0]
  /\ wpc' = [wpc EXCEPT ![w] = "loop"]
  /\ UNCHANGED <<queueVars, listVars, shutdown, lpc>>

\* The thread function returns: whoever joins the thread goes on.
Exit(w) ==
  /\ wpc[w] = "exiting"
  /\ wpc' = [wpc EXCEPT ![w] = "exited"]
  /\ UNCHANGED <<queueVars, listVars, job, done, shutdown, lpc>>

--------------------------------------------------------------------------------
(* shutdown, by the listener when the server stops                           *)

SetShutdown ==
  /\ lpc = "accept"
  /\ shutdown' = TRUE
  /\ lpc' = "notifyAll"
  /\ UNCHANGED <<queueVars, listVars, workerVars>>

\* Mutant: one worker is woken instead of all.
MutNotified == IF At("waiting") = {} THEN {} ELSE {CHOOSE w \in At("waiting") : TRUE}
Notified == At("waiting")

NotifyAll ==
  /\ lpc = "notifyAll"
  /\ wpc' = [w \in Workers |-> IF w \in Notified THEN "woken" ELSE wpc[w]]
  /\ lpc' = "joinThreads"
  /\ UNCHANGED <<queueVars, listVars, job, done, shutdown>>

JoinThreads ==
  /\ lpc = "joinThreads"
  /\ \A w \in threads : wpc[w] = "exited"
  /\ lpc' = "collect"
  /\ UNCHANGED <<queueVars, listVars, workerVars, shutdown>>

\* Mutant: the dynamic workers that still run are not joined.
MutCollected == finished_threads
Collected == dynamic_threads \cup finished_threads

Collect ==
  /\ lpc = "collect"
  /\ remaining' = Collected
  /\ dynamic_threads' = {} /\ finished_threads' = {}
  /\ lpc' = "joinRemaining"
  /\ UNCHANGED <<queueVars, threads, workerVars, shutdown>>

JoinRemaining ==
  /\ lpc = "joinRemaining"
  /\ \A w \in remaining : wpc[w] = "exited"
  /\ lpc' = "stopped"
  /\ UNCHANGED <<queueVars, listVars, workerVars, shutdown>>

\* The listener has returned: the only state in which nothing may be left to do.
Stopped == lpc = "stopped" /\ UNCHANGED vars

--------------------------------------------------------------------------------
Enqueue == EnqueueAndGrow \/ EnqueueAndStart \/ EnqueueOnly
ListenerInPool == \/ StartDynamic \/ NotifyOne
                  \/ NotifyAll \/ JoinThreads \/ Collect \/ JoinRemaining
Listener == Enqueue \/ SetShutdown \/ ListenerInPool

\* What a scheduled worker does; how long jobs and waits last is not its doing.
WorkerGoesOn(w) == TakeJob(w) \/ Wait(w) \/ LeaveOnShutdown(w) \/ Retire(w) \/ Exit(w)
WorkerStep(w) == WorkerGoesOn(w) \/ SpuriousWakeup(w) \/ IdleTimeout(w) \/ JobEnds(w)

Next == Listener \/ (\E w \in Workers : WorkerStep(w)) \/ Stopped

Spec == Init /\ [][Next]_vars

\* The threads are scheduled and the mutex is granted; a job may last for ever.
ScheduledSpec ==
  /\ Spec
  /\ WF_vars(ListenerInPool)
  /\ \A w \in Workers : WF_vars(WorkerGoesOn(w))

\* Moreover every job ends.
FairSpec == ScheduledSpec /\ \A w \in Workers : WF_vars(JobEnds(w))

--------------------------------------------------------------------------------
(* Properties.                                                               *)

\* Every variable has its type; the unsigned idle_thread_count_ never wraps below 0.
QueueOK ==
  /\ jobs \in Seq(1..MaxJobs) /\ idle_thread_count \in Nat
  /\ accepted \in 0..MaxJobs /\ shutdown \in BOOLEAN
ThreadsOK ==
  /\ threads \subseteq Workers /\ dynamic_threads \subseteq Workers
  /\ finished_threads \subseteq Workers /\ remaining \subseteq Workers
  /\ wpc \in [Workers -> WorkerPC] /\ lpc \in ListenerPC
  /\ job \in [Workers -> 0..MaxJobs] /\ done \subseteq 1..MaxJobs
TypeOK == QueueOK /\ ThreadsOK

\* idle_thread_count_ counts exactly the workers inside the wait, whether they
\* still wait or were woken and have yet to get the mutex.
InWait == {w \in Workers : wpc[w] \in {"waiting", "woken", "timedOut"}}
IdleExact == idle_thread_count = Cardinality(InWait)

\* A queued job has a worker that will come for it: idle, or at the top of its
\* loop, or about to be started; except in a limited pool at its limit.
Free == {w \in Workers : wpc[w] \in {"loop", "waiting", "woken", "timedOut"}}
Saturated == ~Unbounded /\ Cardinality(threads) = ConfiguredSize
UnservedOnlyWhenSaturated ==
  \/ Len(jobs) <= Cardinality(Free) + (IF lpc = "cleanup" THEN 1 ELSE 0)
  \/ Saturated

\* No lost wake-up: while a worker sleeps, every queued job is matched by a worker
\* that is awake and free or by a notification the listener is about to give.
Awake == {w \in Workers : wpc[w] \in {"loop", "woken", "timedOut"}}
NoJobWaitsForNotice ==
  At("waiting") # {} =>
    Len(jobs) <= Cardinality(Awake) + (IF lpc \in {"cleanup", "notify"} THEN 1 ELSE 0)

\* No std::thread handle is destroyed or lost while its thread may run: the threads
\* started and not yet joined by cleanup are those of the four lists, each in one.
NoThreadDropped ==
  /\ \A w \in Workers :
       wpc[w] # "absent" <=> w \in threads \cup dynamic_threads \cup finished_threads
                                     \cup remaining
  /\ threads \cap (dynamic_threads \cup finished_threads \cup remaining) = {}
  /\ dynamic_threads \cap (finished_threads \cup remaining) = {}
  /\ finished_threads \cap remaining = {}

\* httplib destroys the pool when shutdown has returned: no worker runs any more.
AllJoined == lpc = "stopped" => \A w \in Workers : wpc[w] \in {"absent", "exited"}

\* Every job accepted is begun although the running ones may never end: nothing
\* queues behind a long-lived stream in an unbounded pool.
EveryJobBegins ==
  \A n \in 1..MaxJobs : (accepted >= n) ~> (\A i \in 1..Len(jobs) : jobs[i] # n)

\* Every job accepted is run, those queued when shutdown is called included.
EveryJobRun == \A n \in 1..MaxJobs : (accepted >= n) ~> (n \in done)

\* shutdown returns when the jobs end.
ShutdownReturns == shutdown ~> (lpc = "stopped")

\* The pool is the queue of tasks httplib expects: in order, once each, never more
\* at a time than the configured size, and all done when shutdown returns.
Tasks == INSTANCE TaskQueue WITH
  Limit <- ConfiguredSize,
  running <- {job[w] : w \in At("running")},
  finished <- done,
  phase <- CASE lpc = "stopped" -> "stopped"
             [] shutdown /\ lpc # "stopped" -> "closing"
             [] OTHER -> "open"
ServesTasks == Tasks!Spec
================================================================================
