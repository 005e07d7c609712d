------------------------------- MODULE OpenAIStream -------------------------------
(***************************************************************************)
(* The translation of an OpenAI chat completion stream to the events of    *)
(* an Anthropic message, OpenAIProvider::transformStreamChunk and the      *)
(* StreamState it keeps from one SSE event of the provider to the next.    *)
(* The upstream thread of StreamRelay calls it once for every event; what  *)
(* it returns is one chunk of the relay.                                   *)
(*                                                                         *)
(* A text, a thought or a fragment of a tool call is known by the number   *)
(* of the event that brought it: its wording is not told apart.            *)
(***************************************************************************)
EXTENDS Integers, Sequences, SequencesExt

CONSTANTS
  Deltas,      \* what an event's delta may hold; see Delta
  MaxEvents    \* bound: how many events the provider sends

NoIndex == -1  \* a fragment without "index", also "no call"
Fragment == [index : {NoIndex} \cup Nat, args : BOOLEAN]
Delta == [role : BOOLEAN, thinking : BOOLEAN, text : BOOLEAN,
          tools : Seq(Fragment), finish : STRING]

ASSUME DeltasAssumption == Deltas \subseteq Delta /\ MaxEvents \in Nat

VARIABLES
  stream_state,   \* struct StreamState
  out,            \* the events emitted, in order
  given,          \* the pieces the provider sent, in order; see Pieces
  events,         \* how many events were read
  input           \* "open", "done" (data: [DONE] was read), "over"

vars == <<stream_state, out, given, events, input>>

FreshState == [message_started |-> FALSE, stop_reason |-> "", next |-> 0,
               type |-> "", index |-> -1, tool |-> NoIndex, calls |-> <<>>]

Init == /\ stream_state = FreshState
        /\ out = <<>> /\ given = <<>> /\ events = 0 /\ input = "open"

--------------------------------------------------------------------------------
(* The emitters.  A translation in progress is the StreamState and what it   *)
(* has emitted: [st, out].                                                   *)

Event(kind, index, type) == [kind |-> kind, index |-> index, type |-> type,
                             event |-> 0, call |-> NoIndex]
Content(index, type, event, call) == [kind |-> "delta", index |-> index, type |-> type,
                                      event |-> event, call |-> call]
Emit(t, new) == [st |-> t.st, out |-> t.out \o new]

\* What stops the active block; a thinking block is signed first, a tool block is
\* stopped only once.
StopActive(st) ==
  CASE st.type = "thinking" -> <<Event("signature", st.index, "thinking"),
                                 Event("stop", st.index, "thinking")>>
    [] st.type = "text" -> <<Event("stop", st.index, "text")>>
    [] st.type = "tool" /\ ~st.calls[st.tool].closed ->
         <<Event("stop", st.calls[st.tool].index, "tool")>>
    [] OTHER -> <<>>

\* Mutant: the call of a stopped tool block is not marked closed.
MutClosed(st) == st.calls
Closed(st) == IF st.type = "tool" THEN [st.calls EXCEPT ![st.tool].closed = TRUE]
                                  ELSE st.calls

closeActiveBlock(t) ==
  [out |-> t.out \o StopActive(t.st),
   st |-> [t.st EXCEPT !.calls = Closed(t.st), !.type = "", !.index = -1, !.tool = NoIndex]]

OpenBlock(t, type) ==
  LET closed == closeActiveBlock(t)
  IN  [out |-> closed.out \o <<Event("start", t.st.next, type)>>,
       st |-> [closed.st EXCEPT !.type = type, !.index = t.st.next, !.next = @ + 1]]

\* A thought or a text goes to the active block if that is of its kind, or to a new
\* one.
Say(t, type, event) ==
  LET opened == IF t.st.type = type THEN t ELSE OpenBlock(t, type)
  IN  Emit(opened, <<Content(opened.st.index, type, event, NoIndex)>>)

\* The calls with one more, whose block is open.
NewCall(calls, i, index) ==
  [j \in DOMAIN calls \cup {i} |->
     IF j = i THEN [index |-> index, closed |-> FALSE] ELSE calls[j]]

\* Mutant: the state has the block's name in the API.
MutStartCall(t, i) ==
  LET opened == OpenBlock(t, "tool")
  IN  [out |-> opened.out,
       st |-> [opened.st EXCEPT !.tool = i, !.type = "tool_use",
                                !.calls = NewCall(@, i, t.st.next)]]
\* A fragment of a call seen for the first time starts a tool block ...
StartCall(t, i) ==
  LET opened == OpenBlock(t, "tool")
  IN  [out |-> opened.out,
       st |-> [opened.st EXCEPT !.tool = i, !.calls = NewCall(@, i, t.st.next)]]

\* ... and one of a known call that is not the active one makes it active again,
\* though its block was stopped.
ResumeCall(t, i) ==
  LET closed == closeActiveBlock(t)
  IN  [out |-> closed.out,
       st |-> [closed.st EXCEPT !.type = "tool", !.index = t.st.calls[i].index, !.tool = i]]

\* Mutant: any active tool block takes the fragment.
MutIsActive(st, i) == st.type = "tool"
IsActive(st, i) == st.type = "tool" /\ st.tool = i

ToolFragment(t, i, args, event) ==
  LET active == CASE i \notin DOMAIN t.st.calls -> StartCall(t, i)
                  [] i \in DOMAIN t.st.calls /\ ~IsActive(t.st, i) -> ResumeCall(t, i)
                  [] OTHER -> t
  IN  IF args
      THEN Emit(active, <<Content(active.st.index, "tool", event, i)>>)
      ELSE active

\* A fragment without an index is the one at its position.
CallOf(tools, n) == IF tools[n].index = NoIndex THEN n - 1 ELSE tools[n].index

StopReason(finish) ==
  CASE finish = "stop" -> "end_turn" [] finish = "length" -> "max_tokens"
    [] finish = "tool_calls" -> "tool_use" [] OTHER -> finish

StartMessage(t) ==
  IF t.st.message_started THEN t
  ELSE [st |-> [t.st EXCEPT !.message_started = TRUE],
        out |-> t.out \o <<Event("message_start", -1, "")>>]

\* Mutant: a text beside a thought is overlooked.
MutSpeak(t, delta, event) ==
  CASE delta.thinking -> Say(t, "thinking", event)
    [] delta.text /\ ~delta.thinking -> Say(t, "text", event)
    [] OTHER -> t
Speak(t, delta, event) ==
  LET thought == IF delta.thinking THEN Say(t, "thinking", event) ELSE t
  IN  IF delta.text THEN Say(thought, "text", event) ELSE thought

CallTools(t, tools, event) ==
  FoldLeftDomain(LAMBDA u, n : ToolFragment(u, CallOf(tools, n), tools[n].args, event),
                 t, tools)

Finish(t, finish) ==
  IF finish = "" THEN t
  ELSE [st |-> [t.st EXCEPT !.stop_reason = StopReason(finish)], out |-> t.out]

\* One event with a delta: thought, then text, then the fragments of tool calls.  A
\* delta that names the role ends with the start of the message, whatever else
\* it holds.
Translate(t, delta, event) ==
  LET start == StartMessage(t)
  IN  IF delta.role THEN start
      ELSE Finish(CallTools(Speak(start, delta, event), delta.tools, event), delta.finish)

\* What closeAllToolBlocks finds left to stop.
OpenCalls(st) == {i \in DOMAIN st.calls : ~st.calls[i].closed}
\* Mutant: the active block is taken for closed.
MutCloseAll(t) ==
  Emit(t, SetToSeq({Event("stop", t.st.calls[i].index, "tool") : i \in OpenCalls(t.st)}))
CloseAll(t) ==
  LET closed == closeActiveBlock(t)
  IN  Emit(closed, SetToSeq({Event("stop", closed.st.calls[i].index, "tool")
                              : i \in OpenCalls(closed.st)}))

EndMessage(t) ==
  [out |-> CloseAll(t).out \o <<Event("message_delta", -1, t.st.stop_reason),
                                Event("message_stop", -1, "")>>,
   st |-> FreshState]

--------------------------------------------------------------------------------
(* What the provider sends.                                                  *)

Apply(t) == stream_state' = t.st /\ out' = t.out
Current == [st |-> stream_state, out |-> out]

\* What a delta brings, in the order in which it is to come out: a piece says whether
\* it has a wording to relay, which a fragment of a call may lack.
Pieces(delta, event) ==
  LET piece(type, call, worded) ==
        [type |-> type, event |-> event, call |-> call, worded |-> worded]
      said(type, here) == IF here THEN <<piece(type, NoIndex, TRUE)>> ELSE <<>>
  IN  said("thinking", delta.thinking) \o said("text", delta.text)
        \o [n \in 1..Len(delta.tools) |->
              piece("tool", CallOf(delta.tools, n), delta.tools[n].args)]

ReadDelta ==
  /\ input = "open" /\ events < MaxEvents
  /\ events' = events + 1
  /\ \E delta \in Deltas :
       /\ Apply(Translate(Current, delta, events'))
       /\ given' = (IF delta.role THEN given ELSE given \o Pieces(delta, events'))
  /\ UNCHANGED input

\* An event without data, without choices or with data that does not parse.
ReadNothing ==
  /\ input = "open" /\ events < MaxEvents
  /\ events' = events + 1
  /\ UNCHANGED <<stream_state, out, given, input>>

\* The end of the stream as OpenAI marks it, "data: [DONE]".  The test for the mark
\* is made on the event with its field name, and the line is then skipped.
ReadDoneLine ==
  /\ input = "open"
  /\ input' = "done"
  /\ UNCHANGED <<stream_state, out, given, events>>

\* The mark without a field name, which the test is for.
ReadDone ==
  /\ input = "open" /\ events < MaxEvents
  /\ events' = events + 1
  /\ Apply(EndMessage(Current))
  /\ UNCHANGED <<given, input>>

\* A value of an unexpected type throws: what the event had emitted is lost, and
\* the upstream thread gives the stream up.  An end of the body is no event.
StreamOver ==
  /\ input # "over"
  /\ input' = "over"
  /\ UNCHANGED <<stream_state, out, given, events>>

Next == ReadDelta \/ ReadNothing \/ ReadDoneLine \/ ReadDone \/ StreamOver

Spec == Init /\ [][Next]_vars

--------------------------------------------------------------------------------
(* Properties, of a sequence o of events and, for two of them, of a sequence *)
(* g of the pieces they are to relay: those emitted and given so far.        *)

Types == {"", "thinking", "text", "tool"}
Kinds == {"message_start", "start", "delta", "signature", "stop", "message_delta",
          "message_stop"}
\* What a message may be said to stop for: what the provider said, or nothing.
Reasons == {""} \cup {StopReason(delta.finish) : delta \in Deltas}

TypeOK ==
  /\ DOMAIN stream_state = DOMAIN FreshState
  /\ stream_state.message_started \in BOOLEAN /\ stream_state.stop_reason \in Reasons
  /\ stream_state.type \in Types /\ stream_state.next \in Nat
  /\ stream_state.index \in Int /\ stream_state.tool \in Int
  /\ \A i \in DOMAIN stream_state.calls :
       i \in Nat /\ stream_state.calls[i] \in [index : Nat, closed : BOOLEAN]
  /\ out \in Seq([kind : Kinds, index : Int, type : Types \cup Reasons, event : Nat,
                  call : Int])
  /\ given \in Seq([type : Types, event : Nat, call : Int, worded : BOOLEAN])
  /\ events \in 0..MaxEvents /\ input \in {"open", "done", "over"}

\* Two events are of one message when no message was ended between them.
SameMessage(o, m, n) ==
  \A k \in (m..(n - 1)) \cup (n..(m - 1)) : o[k].kind # "message_stop"

\* How many events of a kind there are in the message of the n-th one, up to it.
Count(o, kind, n) ==
  Cardinality({m \in 1..n : o[m].kind = kind /\ SameMessage(o, m, n)})

\* Blocks do not overlap and are numbered in the order in which they start: a block
\* starts when as many were stopped as were started, and a stop is that of the
\* block started last.
InSequence(o, n) ==
  /\ o[n].kind = "start" => /\ Count(o, "start", n) = Count(o, "stop", n) + 1
                            /\ o[n].index = Count(o, "stop", n)
  /\ o[n].kind = "stop" => /\ Count(o, "start", n) = Count(o, "stop", n)
                           /\ o[n].index = Count(o, "stop", n) - 1
BlocksInSequence == \A n \in 1..Len(out) : InSequence(out, n)

\* The block of the n-th event is the one started last, and not stopped.
InOpenBlock(o, n) ==
  Count(o, "start", n) = Count(o, "stop", n) + 1 /\ o[n].index = Count(o, "stop", n)

\* The provider came back to a call after something else.
TakenUpAgain(g, call) ==
  \E i, j, k \in 1..Len(g) :
    /\ i < j /\ j < k
    /\ g[i].call = call /\ g[j].call # call /\ g[k].call = call

\* A text or a thought is sent within a block of its kind that is open; a fragment
\* of a tool call is sent in the block of its call, which is open unless the
\* provider sent something else between two fragments of the call.  The fragments
\* of one call go to one block, those of two calls to two.
InItsBlock(o, g, n) ==
  o[n].kind \in {"delta", "signature"} =>
    /\ \E m \in 1..n : /\ SameMessage(o, m, n) /\ o[m].kind = "start"
                       /\ o[m].index = o[n].index /\ o[m].type = o[n].type
    /\ InOpenBlock(o, n) \/ (o[n].type = "tool" /\ TakenUpAgain(g, o[n].call))
CallsKeepBlocks(o, m, n) ==
  /\ o[m].kind = "delta" /\ o[n].kind = "delta" /\ SameMessage(o, m, n)
  /\ o[m].type = "tool" /\ o[n].type = "tool"
  => (o[m].call = o[n].call <=> o[m].index = o[n].index)
ContentInItsBlock ==
  /\ \A n \in 1..Len(out) : InItsBlock(out, given, n)
  /\ \A m, n \in 1..Len(out) : CallsKeepBlocks(out, m, n)

\* Everything the provider said reaches the client once and in order, except what
\* came in an event that names the role: the k-th text sent is the k-th one given.
Sent(o) == {n \in 1..Len(o) : o[n].kind = "delta"}
Worded(g) == {n \in 1..Len(g) : g[n].worded}
Rank(S, n) == Cardinality({m \in S : m <= n})
Relayed(o, g) ==
  /\ Cardinality(Sent(o)) = Cardinality(Worded(g))
  /\ \A n \in Sent(o), k \in Worded(g) :
       Rank(Sent(o), n) = Rank(Worded(g), k) =>
         o[n].type = g[k].type /\ o[n].event = g[k].event /\ o[n].call = g[k].call
ContentRelayed == Relayed(out, given)

\* A message that is ended has all its blocks stopped, and nothing of it follows.
Complete(o, n) ==
  o[n].kind = "message_stop" =>
    /\ Count(o, "start", n) = Count(o, "stop", n)
    /\ n > 1 /\ o[n - 1].kind = "message_delta"
EndedIsComplete == \A n \in 1..Len(out) : Complete(out, n)

\* "Handle [DONE] sentinel": after the provider's end mark the client has been sent
\* the end of the message.
DoneEndsMessage ==
  input = "done" /\ stream_state.message_started => Last(out).kind = "message_stop"
================================================================================
