----------------------------- MODULE MCConversation -----------------------------
(* A finite instance of Conversation.                                        *)
EXTENDS Conversation

MCRouteOf ==
  [m \in {"gpt", "claude", "ghost", "orphan", "keyless", "odd"} |->
     CASE m = "gpt" -> "openai" [] m = "claude" -> "anthropic"
       [] m = "ghost" -> "unknown model" [] m = "orphan" -> "unknown provider"
       [] m = "keyless" -> "no api key" [] OTHER -> "unsupported type"]

MCSystem == <<Block("text", <<0, 1>>)>>

\* Reasoning under neither name, one of them, or both with the first one empty.
MCOpenAIAnswers ==
  {a \in [reasoning_content : {"absent", "empty", "text"},
          reasoning : {"absent", "text"},
          content : {"absent", "text"},
          calls : {<<>>, <<"text">>, <<"json", "value">>}] :
     a.reasoning_content = "empty" <=> a.reasoning = "text" /\ a.reasoning_content # "absent"}

MCAnthropicAnswers ==
  {<<"thinking", "text">>, <<"redacted_thinking", "text", "tool_use">>,
   <<"text", "tool_use", "tool_use">>}
================================================================================
