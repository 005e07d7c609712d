-------------------------------- MODULE TaskQueue --------------------------------
(***************************************************************************)
(* What httplib expects of the TaskQueue it hands accepted connections to: *)
(* every job taken on is run exactly once, jobs are begun in the order in  *)
(* which they were taken on, at most Limit of them run at a time (when     *)
(* there is a limit), and shutdown returns when all of them are over.      *)
(* ServerThreadPool (src/src/server_thread_pool.cpp) implements it.        *)
(***************************************************************************)
EXTENDS Naturals, FiniteSets

CONSTANT Limit   \* a natural number: how many jobs may run at a time, 0 for no limit

VARIABLES
  accepted,   \* how many jobs were taken on; job n is the n-th one
  running,    \* the jobs being run
  finished,   \* the jobs that were run
  phase       \* "open", "closing" (no more jobs are taken on), "stopped"

taskVars == <<accepted, running, finished, phase>>

Init == accepted = 0 /\ running = {} /\ finished = {} /\ phase = "open"

Begun == running \cup finished

Accept ==
  /\ phase = "open"
  /\ accepted' = accepted + 1
  /\ UNCHANGED <<running, finished, phase>>

\* The oldest job not begun is begun.
Begin ==
  /\ Limit = 0 \/ Cardinality(running) < Limit
  /\ \E job \in 1..accepted :
       /\ Begun = 1..(job - 1)
       /\ running' = running \cup {job}
  /\ UNCHANGED <<accepted, finished, phase>>

End ==
  \E job \in running :
    /\ running' = running \ {job}
    /\ finished' = finished \cup {job}
    /\ UNCHANGED <<accepted, phase>>

Close ==
  /\ phase = "open"
  /\ phase' = "closing"
  /\ UNCHANGED <<accepted, running, finished>>

Stop ==
  /\ phase = "closing" /\ finished = 1..accepted
  /\ phase' = "stopped"
  /\ UNCHANGED <<accepted, running, finished>>

Next == Accept \/ Begin \/ End \/ Close \/ Stop

Spec == Init /\ [][Next]_taskVars
================================================================================
