---------------------------- MODULE MCWinHttpExchange ----------------------------
(* A finite instance of WinHttpExchange.                                     *)
EXTENDS WinHttpExchange, TLC
================================================================================
