----------------------------- MODULE StreamChannel -----------------------------
(***************************************************************************)
(* What one streaming request promises to the client that issued it: the   *)
(* chunks the relay accepted from upstream come out in the order they were *)
(* accepted, none is repeated or skipped, and the closing mark of the      *)
(* response is written only when upstream is finished and nothing is left. *)
(* A response may be cut short, but then it carries no closing mark.       *)
(* StreamRelay (src/src/providers.cpp and src/darwin/main.cpp) implements  *)
(* this channel.                                                           *)
(***************************************************************************)
EXTENDS Naturals

VARIABLES
  accepted,   \* how many chunks upstream handed over; chunk n is the n-th one
  sent,       \* how many of them the client was sent
  closed,     \* upstream hands over nothing more
  ending      \* "open", "done" (closing mark written) or "cut"

channel == <<accepted, sent, closed, ending>>

Init == accepted = 0 /\ sent = 0 /\ closed = FALSE /\ ending = "open"

\* Upstream hands over the next chunk.  An upstream that has not noticed that the
\* response was cut short may still do so; nothing it hands over then is sent.
Accept ==
  /\ ~closed
  /\ accepted' = accepted + 1
  /\ UNCHANGED <<sent, closed, ending>>

\* The client is sent the oldest chunk it has not been sent yet.
Send ==
  /\ ending = "open" /\ sent < accepted
  /\ sent' = sent + 1
  /\ UNCHANGED <<accepted, closed, ending>>

Close ==
  /\ ~closed
  /\ closed' = TRUE
  /\ UNCHANGED <<accepted, sent, ending>>

Finish ==
  /\ ending = "open" /\ closed /\ sent = accepted
  /\ ending' = "done"
  /\ UNCHANGED <<accepted, sent, closed>>

Cut ==
  /\ ending = "open"
  /\ ending' = "cut"
  /\ UNCHANGED <<accepted, sent, closed>>

Next == Accept \/ Send \/ Close \/ Finish \/ Cut

Spec == Init /\ [][Next]_channel
================================================================================
