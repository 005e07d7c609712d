------------------------------- MODULE Conversation -------------------------------
(* A client that talks to models through the gateway without streaming:      *)
(* handle_messages, handle_count_tokens (src/darwin/main.cpp) and            *)
(* ProviderRouter::chat and countTokens (src/src/providers.cpp). The client  *)
(* keeps the conversation, sends all of it with every request, may change    *)
(* the model between two requests, and answers each call of a tool.          *)
EXTENDS MessageTranslation, FiniteSets

CONSTANTS
  RouteOf,          \* model name -> type of its provider, or why there is none
  System,           \* the system prompt, a sequence of text blocks
  OpenAIAnswers,    \* what an OpenAI provider may answer
  AnthropicAnswers, \* sequences of types of blocks an Anthropic provider may answer
  FailureStatuses,  \* of a provider, also a redirect, and 503 for none that answers
  MaxMessages, MaxRequests, MaxCounts \* bounds

Models == DOMAIN RouteOf
ASSUME RouteAssumption ==
  \A model \in Models :
    RouteOf[model] \in {"openai", "anthropic", "unknown model", "unknown provider",
                        "no api key", "unsupported type"}
\* The system prompt's texts are numbered apart from those of the messages.
ASSUME SystemAssumption ==
  /\ System \in Seq([type : {"text"}, n : {0} \X Nat, input : {"value"}])
  /\ \A i, j \in DOMAIN System : i # j => System[i].n # System[j].n
ASSUME AnswersAssumption ==
  /\ \A answer \in OpenAIAnswers : answer.calls \in Seq(ArgumentForms)
  /\ \A types \in AnthropicAnswers : types \in Seq(ToSet(types))

VARIABLES
  messages, \* the client's conversation
  said,     \* for each message of an OpenAI provider, by place, what it said, and
            \* whether under both names of reasoning
  request,  \* the request in progress
  total_nonstream_requests, total_count_token_requests, total_request_errors

counters == <<total_nonstream_requests, total_count_token_requests,
              total_request_errors>>
vars == <<messages, said, request, counters>>

Idle == [pc |-> "idle"]
NothingSaid == [k \in {} |-> <<>>]

Init ==
  /\ messages = <<>> /\ said = NothingSaid /\ request = Idle
  /\ total_nonstream_requests = 0 /\ total_count_token_requests = 0
  /\ total_request_errors = 0

--------------------------------------------------------------------------------
(* The client. Its message k holds a result for each call of message k-1, in *)
(* any order, and then what the user has to say.                             *)

OpenCalls == IF messages = <<>> THEN <<>>
             ELSE Numbers(OfType("tool_use", Last(messages).content))
Results(calls) == [i \in DOMAIN calls |-> Block("tool_result", calls[i])]
UserBlocks == {<<>>, <<"text">>, <<"image", "text">>}

UserSays ==
  /\ request = Idle
  /\ Len(messages) < MaxMessages
  /\ messages # <<>> => Last(messages).role = "assistant"
  /\ \E types \in UserBlocks, calls \in {OpenCalls, Reverse(OpenCalls)} :
       /\ types # <<>> \/ calls # <<>>
       /\ messages' = Append(messages,
            [role |-> "user",
             content |-> Results(calls)
               \o [i \in DOMAIN types |->
                     Block(types[i], <<Len(messages) + 1, i>>)]])
  /\ UNCHANGED <<said, request, counters>>

\* handle_messages or handle_count_tokens, up to chat or countTokens.
Ask(kind, model) ==
  /\ request = Idle
  /\ messages # <<>> /\ Last(messages).role = "user"
  /\ request' = [pc |-> "asked", kind |-> kind, model |-> model]
  /\ \/ /\ kind = "messages"
        /\ total_nonstream_requests < MaxRequests
        /\ total_nonstream_requests' = total_nonstream_requests + 1
        /\ UNCHANGED total_count_token_requests
     \/ /\ kind = "count_tokens"
        /\ total_count_token_requests < MaxCounts
        /\ total_count_token_requests' = total_count_token_requests + 1
        /\ UNCHANGED total_nonstream_requests
  /\ UNCHANGED <<messages, said, total_request_errors>>

\* The rest of the handlers: the monitor counts an answer by its status, whatever its
\* body says; an error body has no content for the conversation.
Respond(status, content) ==
  /\ request' = [pc |-> "answered", content |-> content]
  /\ total_request_errors' = total_request_errors + (IF status >= 400 THEN 1 ELSE 0)
  /\ UNCHANGED <<messages, total_nonstream_requests, total_count_token_requests>>
NoContent == <<>>

Route == RouteOf[request.model]

\* chat and countTokens: the model is not found, or cannot be asked.
Refuse ==
  /\ request.pc = "asked"
  /\ \/ Route \in {"unknown model", "unknown provider"} /\ Respond(400, NoContent)
     \/ Route = "no api key" /\ Respond(401, NoContent)
     \/ /\ Route = "unsupported type" /\ request.kind = "messages"
        /\ Respond(400, NoContent)
  /\ UNCHANGED said

\* countTokens for any other type than Anthropic: an estimate, made here.
Estimate ==
  /\ request.pc = "asked" /\ request.kind = "count_tokens"
  /\ Route \in {"openai", "unsupported type"}
  /\ Respond(200, NoContent)
  /\ UNCHANGED said

\* The request goes to the provider. For Anthropic it stays what it is.
Forward ==
  /\ request.pc = "asked"
  /\ Route = "anthropic" \/ (Route = "openai" /\ request.kind = "messages")
  /\ request' = [pc |-> "forwarded", kind |-> request.kind, model |-> request.model,
                 sent |-> IF Route = "openai" THEN TransformRequest(System, messages)
                          ELSE messages]
  /\ UNCHANGED <<messages, said, counters>>

Turn == Len(messages) + 1

\* A message of a provider; transformResponse. Of an answer without "choices" an
\* empty message is made.
OpenAIAnswer ==
  /\ request.pc = "forwarded" /\ Route = "openai"
  /\ \E answer \in OpenAIAnswers :
       /\ Respond(200, TransformResponse(answer, Turn))
       /\ said' = [k \in DOMAIN said \cup {Turn} |->
                     IF k = Turn
                     THEN [message |-> SaidMessage(answer, Turn),
                           twice |-> answer.reasoning_content # "absent"
                                     /\ answer.reasoning # "absent"]
                     ELSE said[k]]
AnthropicAnswer ==
  /\ request.pc = "forwarded" /\ Route = "anthropic" /\ request.kind = "messages"
  /\ \E types \in AnthropicAnswers :
       Respond(200, [i \in DOMAIN types |-> Block(types[i], <<Turn, i>>)])
  /\ UNCHANGED said

\* The provider counts, or the gateway estimates because it did not, could not be
\* reached, or answered with something else, any other status included.
Counted ==
  /\ request.pc = "forwarded" /\ request.kind = "count_tokens"
  /\ Respond(200, NoContent)
  /\ UNCHANGED said

\* A status that is not a success reaches the client with an error; of countTokens'
\* only these.
ProviderFails ==
  /\ request.pc = "forwarded"
  /\ \E status \in FailureStatuses :
       /\ request.kind = "count_tokens" => status \in {401, 403, 429}
       /\ Respond(status, NoContent)
  /\ UNCHANGED said

\* The port in the provider's URL is no number: parse_url throws.
UrlThrows ==
  /\ request.pc = "forwarded"
  /\ Respond(500, NoContent)
  /\ UNCHANGED said

\* A body that cannot be translated becomes an error body, with the provider's status
\* 200. What an Anthropic provider sends passes as it is.
Untranslatable ==
  /\ request.pc = "forwarded" /\ request.kind = "messages"
  /\ Respond(200, NoContent)
  /\ UNCHANGED said

\* An answer with content joins the conversation; after any other one the client
\* may ask again.
Read ==
  /\ request.pc = "answered"
  /\ LET joins == request.content # NoContent
     IN  /\ messages' = IF joins THEN Append(messages, [role |-> "assistant",
                                                      content |-> request.content])
                        ELSE messages
         /\ said' = IF joins THEN said
                    ELSE [k \in DOMAIN said \ {Turn} |-> said[k]]
  /\ request' = Idle
  /\ UNCHANGED counters

Next ==
  \/ UserSays \/ Refuse \/ Estimate \/ Forward \/ OpenAIAnswer \/ AnthropicAnswer
  \/ Counted \/ ProviderFails \/ UrlThrows \/ Untranslatable \/ Read
  \/ \E model \in Models : Ask("messages", model) \/ Ask("count_tokens", model)

Spec == Init /\ [][Next]_vars

--------------------------------------------------------------------------------
(* Properties.                                                               *)

\* The translated request of an OpenAI provider.
Translated == request.pc = "forwarded" /\ Route = "openai"
Sent == request.sent

\* Whatever models took part in the conversation, each call in a translated request
\* is answered before anything but the user's own words, which come first when
\* they came beside the results, and each result follows its call
\* (transformRequest).
CallsAnswered ==
  Translated =>
    LET At(i) == {j \in DOMAIN Sent : Sent[j].tool_call_id \in ToSet(Sent[i].calls)}
        After(i) == IF i < Len(Sent) /\ Sent[i + 1].role = "user" THEN i + 2 ELSE i + 1
    IN  /\ \A i \in DOMAIN Sent :
             At(i) = IF Sent[i].calls = <<>> THEN {}
                     ELSE After(i)..(After(i) + Len(Sent[i].calls) - 1)
        /\ \A j \in DOMAIN Sent : Sent[j].role = "tool" =>
             \E i \in 1..(j - 1) : j \in At(i)

\* What an OpenAI provider said it sees again, word for word and with the same
\* calls, in every later request and as the same message of an assistant, counted
\* from the first one (transformResponse, then transformRequest), unless it put
\* reasoning under both of its names. Arguments come back as JSON, whatever form they
\* had; a text that was not JSON comes back as a JSON string of it.
Returned(arguments) ==
  [c \in DOMAIN arguments |-> IF arguments[c] = "text" THEN "quoted" ELSE "json"]
Assistants(m, n) == Cardinality({i \in 1..n : m[i].role = "assistant"})
RoundTrip ==
  Translated =>
    \A k \in DOMAIN messages : messages[k].role = "assistant" /\ k \in DOMAIN said =>
      \E j \in DOMAIN Sent :
        /\ Sent[j].role = "assistant" /\ Assistants(Sent, j) = Assistants(messages, k)
        /\ said[k].twice
             \/ Sent[j] = [said[k].message EXCEPT !.arguments = Returned(@)]

\* Everything in a conversation, results apart, reaches the provider once and in the
\* order of its messages, except an assistant's blocks of types that are unknown
\* to the translation.
Words(m) == m.reasoning \o (IF m.role = "tool" THEN <<>> ELSE Numbers(m.content)) \o m.calls
Kept(m) == {b.n : b \in {b \in ToSet(m.content) :
                           IF m.role = "assistant"
                           THEN b.type \in {"text", "thinking", "tool_use"}
                           ELSE b.type # "tool_result"}}
NothingLost ==
  Translated =>
    /\ UNION {ToSet(Words(Sent[j])) : j \in DOMAIN Sent}
         = (UNION {Kept(messages[k]) : k \in DOMAIN messages}) \cup ToSet(Numbers(System))
    /\ \A i, j \in DOMAIN Sent :
         \A x \in DOMAIN Words(Sent[i]), y \in DOMAIN Words(Sent[j]) :
           /\ <<i, x>> # <<j, y>> => Words(Sent[i])[x] # Words(Sent[j])[y]
           /\ i <= j => Words(Sent[i])[x][1] <= Words(Sent[j])[y][1]
================================================================================
