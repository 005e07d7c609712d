--------------------------- MODULE MessageTranslation ---------------------------
(* The translation of requests and of whole answers between the Anthropic    *)
(* and the OpenAI API: OpenAIProvider::transformRequest and                  *)
(* transformResponse (src/src/providers.cpp).                                *)
(*                                                                           *)
(* A block of an Anthropic message is [type, n, input]: n is the number of a *)
(* text, a thought or an image, and the id of the call for tool_use and      *)
(* tool_result; input matters for tool_use. A text that a translation writes *)
(* is the sequence of the pieces it is made of: [as, n] with as "text",      *)
(* "result" or, for what has no text and is written as JSON, "dump". Tools,  *)
(* tool_choice and sampling parameters are copied and left out here.         *)
EXTENDS Naturals, Sequences, SequencesExt

Block(type, n) == [type |-> type, n |-> n, input |-> "value"]
CallBlock(n, input) == [type |-> "tool_use", n |-> n, input |-> input]

\* The arguments of a call, as an OpenAI provider gives them: the text of a JSON value,
\* any other text (the empty one), or no text at all. A call's input is a value, or a
\* text that could not be parsed, kept as a JSON string; dump() quotes such a string.
ArgumentForms == {"json", "text", "value"}
InputOf(arguments) == IF arguments = "text" THEN "text" ELSE "value"
ArgumentsOf(input) == IF input = "text" THEN "quoted" ELSE "json"

\* The loops over blocks push back those that pass a test: SelectSeq by the places that
\* pass, as a recursive function.
Chosen(seq, places) ==
  LET chosen[n \in 0..Len(seq)] ==
        IF n = 0 THEN <<>>
        ELSE IF n \in places THEN Append(chosen[n - 1], seq[n]) ELSE chosen[n - 1]
  IN  chosen[Len(seq)]
OfType(type, blocks) == Chosen(blocks, {n \in DOMAIN blocks : blocks[n].type = type})
OfOtherType(type, blocks) == Chosen(blocks, {n \in DOMAIN blocks : blocks[n].type # type})
Numbers(blocks) == [i \in DOMAIN blocks |-> blocks[i].n]
Dumped(blocks) == [i \in DOMAIN blocks |-> ArgumentsOf(blocks[i].input)]

\* flatten_plain_text_content, flatten_anthropic_blocks_for_openai.
Piece(b) == [as |-> IF b.type = "text" THEN "text" ELSE "dump", n |-> b.n]
Flattened(blocks) == [i \in DOMAIN blocks |-> Piece(blocks[i])]

NoCall == <<>>
OpenAIMessage(role, content) ==
  [role |-> role, content |-> content, reasoning |-> <<>>, calls |-> <<>>,
   arguments |-> <<>>, tool_call_id |-> NoCall]

\* Mutant: thoughts stay behind.
MutFromAssistant(blocks) ==
  [OpenAIMessage("assistant", Flattened(OfType("text", blocks))) EXCEPT
     !.calls = Numbers(OfType("tool_use", blocks)),
     !.arguments = Dumped(OfType("tool_use", blocks))]
\* An assistant's message stays one message; blocks of any other type are dropped.
FromAssistant(blocks) ==
  [OpenAIMessage("assistant", Flattened(OfType("text", blocks))) EXCEPT
     !.reasoning = Numbers(OfType("thinking", blocks)),
     !.calls = Numbers(OfType("tool_use", blocks)),
     !.arguments = Dumped(OfType("tool_use", blocks))]

ToolMessage(result) ==
  [OpenAIMessage("tool", <<[as |-> "result", n |-> result.n]>>) EXCEPT
     !.tool_call_id = result.n]

\* Mutant: beside results, everything else is forgotten.
MutFromUser(blocks) ==
  LET results == OfType("tool_result", blocks)
  IN  IF results = <<>> THEN <<OpenAIMessage("user", Flattened(blocks))>>
      ELSE [i \in DOMAIN results |-> ToolMessage(results[i])]
\* Mutant: the loop over the results ends with the first one.
MutResults(blocks) ==
  LET results == OfType("tool_result", blocks)
      rest    == OfOtherType("tool_result", blocks)
  IN  (IF results # <<>> /\ rest = <<>> THEN <<>>
       ELSE <<OpenAIMessage("user", Flattened(rest))>>)
      \o [i \in DOMAIN results \cap {1} |-> ToolMessage(results[i])]
\* A user's message with results becomes a message for all the rest, if there is
\* any, and then one for each result.
FromUser(blocks) ==
  LET results == OfType("tool_result", blocks)
      rest    == OfOtherType("tool_result", blocks)
  IN  (IF results # <<>> /\ rest = <<>> THEN <<>>
       ELSE <<OpenAIMessage("user", Flattened(rest))>>)
      \o [i \in DOMAIN results |-> ToolMessage(results[i])]

\* transformRequest; no system message for an empty system prompt.
TransformRequest(system, messages) ==
  (IF system = <<>> THEN <<>> ELSE <<OpenAIMessage("system", Flattened(system))>>)
  \o FlattenSeq([i \in DOMAIN messages |->
                   IF messages[i].role = "assistant"
                   THEN <<FromAssistant(messages[i].content)>>
                   ELSE FromUser(messages[i].content)])

--------------------------------------------------------------------------------
(* A provider's answer: the reasoning under its two names, the text, and the *)
(* calls, by their arguments. Its parts are numbered <<answer, part>>.       *)

\* maybe_add_thinking_block: "reasoning" counts only without "reasoning_content".
ThoughtOf(answer) ==
  IF answer.reasoning_content # "absent" THEN answer.reasoning_content = "text"
  ELSE answer.reasoning = "text"

Calls(answer, k) == [c \in DOMAIN answer.calls |-> <<k, 2 + c>>]

\* transformResponse: a thought, then a text, then the calls.
TransformResponse(answer, k) ==
  (IF ThoughtOf(answer) THEN <<Block("thinking", <<k, 1>>)>> ELSE <<>>)
  \o (IF answer.content = "text" THEN <<Block("text", <<k, 2>>)>> ELSE <<>>)
  \o [c \in DOMAIN answer.calls |->
        CallBlock(Calls(answer, k)[c], InputOf(answer.calls[c]))]

\* The message that a provider said, as it expects to see it again.
SaidMessage(answer, k) ==
  [OpenAIMessage("assistant",
     IF answer.content = "text" THEN <<[as |-> "text", n |-> <<k, 2>>]>> ELSE <<>>)
     EXCEPT !.reasoning = IF "text" \in {answer.reasoning_content, answer.reasoning}
                          THEN <<<<k, 1>>>> ELSE <<>>,
            !.calls = Calls(answer, k), !.arguments = answer.calls]
================================================================================
