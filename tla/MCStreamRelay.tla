------------------------------ MODULE MCStreamRelay ------------------------------
(* Finite instances of StreamRelay.                                          *)
EXTENDS StreamRelay

\* A success, and a failure the provider reports with a body.
MCStatuses == {200, 429}
================================================================================
