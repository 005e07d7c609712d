---------------------------- MODULE MCServerThreadPool ----------------------------
(* Finite instances of ServerThreadPool.                                     *)
EXTENDS ServerThreadPool

CONSTANTS w1, w2, w3, w4

\* A limited pool of size two; a third identity would show a limit exceeded.
LimitedWorkers == {w1, w2, w3}
NoBase == {}

\* An unbounded pool with one base worker and one dynamic worker per job.
UnboundedWorkers == {w1, w2, w3, w4}
OneBase == {w1}
================================================================================
