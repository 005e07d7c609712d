------------------------------ MODULE MCOpenAIStream ------------------------------
(* A finite instance of OpenAIStream.                                        *)
EXTENDS OpenAIStream

Silent == [role |-> FALSE, thinking |-> FALSE, text |-> FALSE, tools |-> <<>>, finish |-> ""]
Call(i, args) == [index |-> i, args |-> args]

\* One delta of each kind, and those that mix kinds: content beside the role, thought
\* beside text, text beside a call, two calls at once with and without an index,
\* the end beside a fragment.
MCDeltas == {
  [Silent EXCEPT !.role = TRUE],
  [Silent EXCEPT !.role = TRUE, !.text = TRUE],
  [Silent EXCEPT !.thinking = TRUE],
  [Silent EXCEPT !.text = TRUE],
  [Silent EXCEPT !.thinking = TRUE, !.text = TRUE],
  [Silent EXCEPT !.text = TRUE, !.tools = <<Call(0, TRUE)>>],
  [Silent EXCEPT !.tools = <<Call(0, FALSE)>>],
  [Silent EXCEPT !.tools = <<Call(0, TRUE)>>],
  [Silent EXCEPT !.tools = <<Call(1, TRUE)>>],
  [Silent EXCEPT !.tools = <<Call(NoIndex, FALSE), Call(NoIndex, TRUE)>>],
  [Silent EXCEPT !.tools = <<Call(1, TRUE), Call(0, TRUE)>>, !.finish = "tool_calls"],
  [Silent EXCEPT !.finish = "stop"]}
================================================================================
