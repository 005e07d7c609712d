------------------------------- MODULE StreamRelay -------------------------------
(***************************************************************************)
(* One streaming POST /v1/messages, from the handler thread that serves    *)
(* the client (downstream) to the detached thread that reads the provider  *)
(* (upstream).  They share a StreamBuffer (bounded by max_buffered_bytes), *)
(* the StreamControl by which one cancels the other's HTTP request, and    *)
(* the StreamStartState in which upstream publishes the response status.   *)
(*                                                                         *)
(* Every critical section of the code is one action.  A condition-variable *)
(* wait is a guard: each assignment that can make a waited-for predicate   *)
(* true is followed by a notify_all on the same condition variable.        *)
(***************************************************************************)
EXTENDS Naturals, Sequences, SequencesExt

CONSTANTS
  MaxBuffered,        \* max_buffered_bytes
  MaxChunk,           \* bound: the largest translated event, in bytes
  MaxEvents,          \* bound: how many SSE events the upstream body holds
  UpstreamStatuses,   \* status codes the provider answers with
  ErrorBodyHasEvents  \* may the body of a failed answer hold complete SSE events

ASSUME RelayAssumption ==
  /\ MaxBuffered \in Nat \ {0}
  /\ MaxChunk \in Nat \ {0}
  /\ MaxEvents \in Nat
  /\ UpstreamStatuses \subseteq 200..599
  /\ ErrorBodyHasEvents \in BOOLEAN

VARIABLES
  \* struct StreamBuffer
  chunks,              \* queue of [id, size]; the n-th chunk accepted has id n
  buffered_bytes,
  completed, error,
  cancelled, client_disconnected,
  monitor_stream_id,   \* 0, or 1 once the stream is registered with the monitor
  monitor_finalized,
  cancel_upstream,     \* is the callback set
  \* struct StreamControl
  ctl_cancelled,
  cancel_handler,      \* is the handler that stops the HTTP client set
  \* struct StreamStartState
  ready, start_status,
  \* the handler thread
  hpc,                 \* where it is
  ret,                 \* where it goes on after a cancellation
  out_status_code,
  in_hand,             \* the popped chunk being written, as a sequence of <= 1
  written,             \* ids of the chunks written to the client, in order
  error_event,         \* has the terminal SSE error event been written
  response,            \* "open", "done" (closing mark written), "cut"
  peer_alive,          \* is the client still connected
  \* the monitor, as far as this stream touches it
  active,              \* is the stream listed in g_active_streams
  verdict,             \* how finalize_stream_monitor classified the stream
  counters,            \* MonitorCounters, restricted to the outcomes of a stream
  \* the upstream thread
  upc,
  status_code,         \* resp.status_code, 0 before the response headers
  batch,               \* complete events of the current read not yet translated
  tail,                \* is there an incomplete event in pending_sse_data
  u_chunk,             \* size of the translated chunk being pushed
  taken,               \* events taken from the upstream body so far
  accepted,            \* chunks push_stream_chunk accepted so far
  sock_shut            \* was the upstream socket shut down by stop()

queue == <<chunks, buffered_bytes>>
flags == <<completed, error, cancelled, cancel_upstream>>
marks == <<client_disconnected, monitor_stream_id, monitor_finalized>>
bufferVars == <<queue, flags, marks>>
controlVars == <<ctl_cancelled, cancel_handler>>
startVars == <<ready, start_status>>
monitorVars == <<active, verdict, counters>>
books == <<controlVars, startVars, monitorVars>>
shared == <<bufferVars, books>>

delivery == <<in_hand, written, error_event, response>>
handlerVars == <<hpc, ret, out_status_code, delivery>>
reading == <<status_code, batch, tail, taken, sock_shut>>
pushing == <<u_chunk, accepted>>
upstreamVars == <<upc, reading, pushing>>

notHandler == <<shared, upstreamVars, peer_alive>>
notUpstream == <<shared, handlerVars, peer_alive>>
vars == <<shared, handlerVars, upstreamVars, peer_alive>>

Chunk == [id : 0..MaxEvents, size : 1..MaxChunk]
Outcomes == {"errors", "cancellations", "disconnects", "completions"}
HandlerPC == {"precheck", "spawn", "waitStart", "ctlCancel", "stop", "finish499",
              "waitError", "answer", "register", "headers", "provider", "poll",
              "wait", "drain", "write", "cancel", "errorEvent", "sinkDone",
              "release", "finalize", "account", "done"}
UpstreamPC == {"none", "open", "dial", "connect", "await", "admit", "recv",
               "checkControl", "checkBuffer", "translate", "push", "return",
               "settle", "flush", "flushPush", "finish", "fault", "faulted", "ended"}

Failed(status) == status >= 400
\* Mutant: the limit may be reached and then exceeded by a whole chunk.
MutFull == buffered_bytes > MaxBuffered
Full == buffered_bytes >= MaxBuffered

\* The socket belongs to a request in flight: stop() shuts it down.
InFlight == upc \in {"await", "admit", "recv", "checkControl", "checkBuffer",
                     "translate", "push"}

MarkCompleted == completed' = TRUE /\ cancel_upstream' = FALSE

Init ==
  /\ chunks = <<>> /\ buffered_bytes = 0
  /\ completed = FALSE /\ error = FALSE
  /\ cancelled = FALSE /\ client_disconnected = FALSE
  /\ monitor_stream_id = 0 /\ monitor_finalized = FALSE /\ cancel_upstream = FALSE
  /\ ctl_cancelled = FALSE /\ cancel_handler = FALSE
  /\ ready = FALSE /\ start_status = 503
  /\ hpc = "precheck" /\ ret = "provider" /\ out_status_code = 503
  /\ in_hand = <<>> /\ written = <<>> /\ error_event = FALSE
  /\ response = "open" /\ peer_alive = TRUE
  /\ active = FALSE /\ verdict = "none" /\ counters = [o \in Outcomes |-> 0]
  /\ upc = "none" /\ status_code = 0 /\ batch = 0 /\ tail = FALSE
  /\ u_chunk = 0 /\ taken = 0 /\ accepted = 0 /\ sock_shut = FALSE

--------------------------------------------------------------------------------
(* chatStream on the handler thread: checks, start of the upstream thread,   *)
(* wait for its status.                                                      *)

\* A request that fails before or at the start of the upstream thread gets its
\* error pushed past the byte accounting and is marked completed.
RefuseWith(status) ==
  /\ \E size \in 1..MaxChunk : chunks' = Append(chunks, [id |-> 0, size |-> size])
  /\ completed' = TRUE /\ error' = TRUE
  /\ out_status_code' = status
  /\ hpc' = "answer"
  /\ UNCHANGED <<upstreamVars, books, delivery, marks, buffered_bytes,
                 cancelled, ret, peer_alive>>

\* Unknown model, provider or provider type (400), no API key (401), a request the
\* translation throws on (500).
PrecheckFails ==
  /\ hpc = "precheck"
  /\ \E status \in {400, 401, 500} : RefuseWith(status)
  /\ UNCHANGED cancel_upstream

InstallCancelUpstream ==
  /\ hpc = "precheck"
  /\ cancel_upstream' = TRUE
  /\ hpc' = "spawn"
  /\ UNCHANGED <<upstreamVars, books, delivery, marks, queue, completed, error,
                 cancelled, ret, out_status_code, peer_alive>>

SpawnFails ==
  /\ hpc = "spawn"
  /\ RefuseWith(500)
  /\ UNCHANGED cancel_upstream

Spawn ==
  /\ hpc = "spawn"
  /\ hpc' = "waitStart" /\ upc' = "open"
  /\ UNCHANGED <<shared, reading, delivery, pushing, ret, out_status_code,
                 peer_alive>>

\* Moves of the handler thread that change nothing but its own position.
HandlerGoes(from, to) ==
  /\ hpc = from /\ hpc' = to
  /\ UNCHANGED <<notHandler, delivery, ret, out_status_code>>

\* Upstream has published its status: a failed start waits for the error body.
Started ==
  /\ hpc = "waitStart" /\ ready
  /\ out_status_code' = start_status
  /\ hpc' = IF Failed(start_status) THEN "waitError" ELSE "register"
  /\ UNCHANGED <<notHandler, delivery, ret>>

\* A 100 ms wait for the status ran out and the client is gone.
DownstreamGone ==
  /\ hpc = "waitStart" /\ ~ready /\ ~peer_alive
  /\ hpc' = "ctlCancel" /\ ret' = "finish499"
  /\ UNCHANGED <<notHandler, delivery, out_status_code>>

\* finish_stream(out_buf, false) by the handler; out_buf->cancelled stays false.
Finish499 ==
  /\ hpc = "finish499"
  /\ MarkCompleted
  /\ out_status_code' = 499
  /\ hpc' = "answer"
  /\ UNCHANGED <<upstreamVars, books, delivery, marks, queue, error, cancelled,
                 ret, peer_alive>>

ErrorBodyComplete == completed /\ HandlerGoes("waitError", "answer")

\* handle_messages counts the failed start and answers with a JSON error.
Answer ==
  /\ hpc = "answer"
  /\ counters' = [counters EXCEPT !["errors"] = @ + 1]
  /\ hpc' = "done"
  /\ UNCHANGED <<bufferVars, upstreamVars, delivery, controlVars, startVars,
                 active, verdict, ret, out_status_code, peer_alive>>

--------------------------------------------------------------------------------
(* Cancelling: cancel_stream_buffer, StreamControl::cancel, the handler it   *)
(* calls outside the lock.                                                   *)

\* Mutant: only the HTTP request is cancelled, a blocked push is not.
MutMarkCancelled == cancelled' = cancelled /\ client_disconnected' = TRUE
MarkCancelled == cancelled' = TRUE /\ client_disconnected' = TRUE

CancelStreamBuffer ==
  /\ hpc = "cancel"
  /\ MarkCancelled
  /\ hpc' = IF ~cancelled /\ cancel_upstream THEN "ctlCancel" ELSE ret
  /\ UNCHANGED <<upstreamVars, books, delivery, queue, completed, error,
                 monitor_stream_id, monitor_finalized, cancel_upstream, ret,
                 out_status_code, peer_alive>>

\* Mutant: the flag is set, the handler that stops the client is not called.
MutAfterControlCancel == ret
AfterControlCancel == IF cancel_handler THEN "stop" ELSE ret

StreamControlCancel ==
  /\ hpc = "ctlCancel"
  /\ ctl_cancelled' = TRUE
  /\ hpc' = AfterControlCancel
  /\ UNCHANGED <<bufferVars, upstreamVars, delivery, monitorVars, startVars,
                 cancel_handler, ret, out_status_code, peer_alive>>

\* ClientImpl::stop takes the socket mutex, which connecting holds; it has an
\* effect only on a request in flight.
StopClient ==
  /\ hpc = "stop" /\ upc # "connect"
  /\ sock_shut' = (sock_shut \/ InFlight)
  /\ hpc' = ret
  /\ UNCHANGED <<shared, delivery, pushing, ret, out_status_code, upc,
                 status_code, batch, tail, taken, peer_alive>>

--------------------------------------------------------------------------------
(* The streamed response: registration, headers, httplib's chunked writer    *)
(* around sse_provider, the releaser.                                        *)

RegisterStreamMonitor ==
  /\ hpc = "register"
  /\ monitor_stream_id' = 1 /\ monitor_finalized' = FALSE
  /\ client_disconnected' = FALSE
  /\ active' = TRUE
  /\ hpc' = "headers"
  /\ UNCHANGED <<upstreamVars, flags, delivery, controlVars, startVars, queue,
                 verdict, counters, ret, out_status_code, peer_alive>>

WriteHeaders == HandlerGoes("headers", "provider")

\* The response is given up: headers not written, socket not writable in time,
\* peer gone, an earlier write failed, server shutting down.
CutResponse ==
  /\ hpc \in {"headers", "provider"}
  /\ response' = "cut"
  /\ hpc' = "release"
  /\ UNCHANGED <<notHandler, ret, out_status_code, in_hand, written,
                 error_event>>

CallProvider ==
  /\ peer_alive /\ response = "open"
  /\ HandlerGoes("provider", "poll")

\* Mutant: only a chunk to write makes the loop look at the client.
MutPollWritable == HandlerGoes("poll", "wait")
PollWritable ==
  /\ peer_alive
  /\ HandlerGoes("poll", "wait")

\* is_writable says no, before the wait or before the next chunk is popped.
NotWritable ==
  /\ \/ hpc = "poll"
     \/ hpc \in {"wait", "drain"} /\ chunks # <<>> /\ ~(hpc = "wait" /\ cancelled)
  /\ ~peer_alive
  /\ hpc' = "cancel" /\ ret' = "provider"
  /\ UNCHANGED <<notHandler, delivery, out_status_code>>

BytesAfterPop(size) == IF buffered_bytes >= size THEN buffered_bytes - size ELSE 0

PopChunk ==
  /\ hpc \in {"wait", "drain"} /\ chunks # <<>> /\ ~(hpc = "wait" /\ cancelled)
  /\ peer_alive
  /\ in_hand' = <<Head(chunks)>>
  /\ chunks' = Tail(chunks)
  /\ buffered_bytes' = BytesAfterPop(Head(chunks).size)
  /\ hpc' = "write"
  /\ UNCHANGED <<upstreamVars, books, flags, marks, ret, out_status_code,
                 written, error_event, response, peer_alive>>

\* Mutant: a completed stream counts as drained.
MutDrained == chunks = <<>> \/ completed
Drained == chunks = <<>>

\* Mutant: the end of the stream is noticed before its error.
MutAfterDrained == IF completed THEN "sinkDone" ELSE "poll"
AfterDrained == CASE error               -> "errorEvent"
                  [] completed /\ ~error -> "sinkDone"
                  [] OTHER               -> "poll"

\* Nothing to write: the stream is over, or the loop starts again (200 ms wait
\* over, or all chunks written).
NothingBuffered ==
  /\ \/ hpc = "drain" /\ Drained
     \/ hpc = "wait" /\ (Drained \/ cancelled)
  /\ hpc' = IF hpc = "wait" /\ cancelled THEN "provider" ELSE AfterDrained
  /\ UNCHANGED <<notHandler, delivery, ret, out_status_code>>

WriteChunk ==
  /\ hpc = "write"
  /\ written' = Append(written, in_hand[1].id)
  /\ in_hand' = <<>>
  /\ hpc' = "drain"
  /\ UNCHANGED <<notHandler, ret, out_status_code, error_event, response>>

\* Mutant: a failed write is not noticed.
MutWriteFails ==
  /\ hpc = "write"
  /\ in_hand' = <<>>
  /\ hpc' = "drain"
  /\ UNCHANGED <<notHandler, ret, out_status_code, written, error_event,
                 response>>
\* The peer is gone or does not read within the write timeout.
WriteFails ==
  /\ hpc = "write"
  /\ in_hand' = <<>>
  /\ response' = "cut"
  /\ hpc' = "cancel" /\ ret' = "provider"
  /\ UNCHANGED <<notHandler, out_status_code, written, error_event>>

WriteErrorEvent ==
  /\ hpc = "errorEvent"
  /\ error_event' = TRUE
  /\ hpc' = "sinkDone"
  /\ UNCHANGED <<notHandler, ret, out_status_code, in_hand, written, response>>

ErrorEventFails ==
  /\ hpc = "errorEvent"
  /\ response' = "cut"
  /\ hpc' = "sinkDone"
  /\ UNCHANGED <<notHandler, ret, out_status_code, in_hand, written, error_event>>

\* sink.done() writes the closing mark unless an earlier write failed.
SinkDone ==
  /\ hpc = "sinkDone"
  /\ response' \in (IF response = "open" THEN {"done", "cut"} ELSE {response})
  /\ hpc' = "release"
  /\ UNCHANGED <<notHandler, ret, out_status_code, in_hand, written,
                 error_event>>

\* Mutant: a response that failed is finalized without being cancelled.
MutRelease ==
  /\ hpc = "release"
  /\ hpc' = "finalize" /\ ret' = "finalize"
  /\ UNCHANGED <<notHandler, delivery, out_status_code>>
\* The content provider's releaser, run when the response is destroyed.
Release ==
  /\ hpc = "release"
  /\ hpc' = IF response = "done" THEN "finalize" ELSE "cancel"
  /\ ret' = "finalize"
  /\ UNCHANGED <<notHandler, delivery, out_status_code>>

\* finalize_stream_monitor, the part under the buffer's lock ...
FinalizeStreamMonitor ==
  /\ hpc = "finalize"
  /\ monitor_finalized' = TRUE
  /\ verdict' = IF monitor_stream_id = 0 \/ monitor_finalized THEN "none"
                ELSE IF error THEN "error"
                ELSE IF cancelled
                     THEN IF client_disconnected THEN "disconnect" ELSE "cancelled"
                ELSE "completed"
  /\ hpc' = "account"
  /\ UNCHANGED <<upstreamVars, flags, delivery, controlVars, startVars, queue,
                 client_disconnected, monitor_stream_id, active, counters, ret,
                 out_status_code, peer_alive>>

\* ... and the part after it: leave g_active_streams, count the outcome.
AccountStream ==
  /\ hpc = "account"
  /\ active' = (active /\ verdict = "none")
  /\ counters' =
       [o \in Outcomes |-> counters[o] +
          IF \/ o = "errors" /\ verdict = "error"
             \/ o = "cancellations" /\ verdict \in {"cancelled", "disconnect"}
             \/ o = "disconnects" /\ verdict = "disconnect"
             \/ o = "completions" /\ verdict = "completed"
          THEN 1 ELSE 0]
  /\ hpc' = "done"
  /\ UNCHANGED <<bufferVars, upstreamVars, delivery, controlVars, startVars,
                 verdict, ret, out_status_code, peer_alive>>

\* The client closes its connection.
PeerLeaves ==
  /\ peer_alive /\ hpc # "done"
  /\ peer_alive' = FALSE
  /\ UNCHANGED <<shared, upstreamVars, handlerVars>>

--------------------------------------------------------------------------------
(* The upstream thread: postStream, then the end of the stream.              *)

UpstreamGoes(from, to) ==
  /\ upc = from /\ upc' = to
  /\ UNCHANGED <<notUpstream, reading, pushing>>

\* The port in the provider's URL is no number: the exception reaches the thread.
UrlThrows == UpstreamGoes("open", "fault")

\* No HTTP client for the URL: HTTPS without SSL support.
OpenFails ==
  /\ upc = "open"
  /\ status_code' = 503
  /\ upc' = "settle"
  /\ UNCHANGED <<notUpstream, pushing, batch, tail, taken, sock_shut>>

\* set_cancel_handler: if the control is cancelled already the handler runs now,
\* and stop() finds no request in flight.
SetCancelHandler ==
  /\ upc = "open"
  /\ cancel_handler' = TRUE
  /\ upc' = "dial"
  /\ UNCHANGED <<bufferVars, handlerVars, reading, monitorVars, startVars,
                 pushing, ctl_cancelled, peer_alive>>

Dial == UpstreamGoes("dial", "connect")
ConnectEnds == UpstreamGoes("connect", "await") \/ UpstreamGoes("connect", "return")

\* notify_started: the first status published stays.
NotifyStarted(status) ==
  /\ ready' = TRUE
  /\ start_status' = IF ready THEN start_status ELSE status

\* The response headers: the response handler publishes the status ...
HeadersArrive ==
  /\ upc = "await"
  /\ \E status \in UpstreamStatuses :
       status_code' = status /\ NotifyStarted(status)
  /\ upc' = "admit"
  /\ UNCHANGED <<bufferVars, handlerVars, monitorVars, controlVars, pushing,
                 batch, tail, taken, sock_shut, peer_alive>>

\* ... and goes on with the body unless the request was cancelled.
AdmitBody == \/ ~ctl_cancelled /\ UpstreamGoes("admit", "recv")
             \/ ctl_cancelled /\ UpstreamGoes("admit", "return")

\* The provider closed the connection, ended the body or timed out.
ExchangeEnds == UpstreamGoes("await", "return") \/ UpstreamGoes("recv", "return")

\* The same, at once, on a socket that stop() shut down.
SocketShut == sock_shut /\ ExchangeEnds

\* One read of the body: some events completed, maybe the start of another one.
ReadBody ==
  /\ upc = "recv"
  /\ \E events \in 0..MaxEvents :
       /\ taken + events <= MaxEvents
       /\ events > 0 => ~Failed(status_code) \/ ErrorBodyHasEvents
       /\ batch' = events
       /\ \/ tail' = FALSE
          \/ tail' = TRUE /\ taken + events < MaxEvents
  /\ upc' = "checkControl"
  /\ UNCHANGED <<notUpstream, pushing, status_code, taken, sock_shut>>

\* The two cancellation checks of a read, each under its own lock.
CheckControl == \/ ~ctl_cancelled /\ UpstreamGoes("checkControl", "checkBuffer")
                \/ ctl_cancelled /\ UpstreamGoes("checkControl", "return")
CheckBuffer == \/ ~cancelled /\ UpstreamGoes("checkBuffer", "translate")
               \/ cancelled /\ UpstreamGoes("checkBuffer", "return")

ReadDone == batch = 0 /\ UpstreamGoes("translate", "recv")

\* take_next_sse_event and transformStreamChunk: size 0 is an event that
\* translates to nothing, which push_stream_chunk accepts without effect.
TranslateEvent ==
  /\ upc = "translate" /\ batch > 0
  /\ batch' = batch - 1
  /\ taken' = taken + 1
  /\ u_chunk' \in 0..MaxChunk
  /\ upc' = IF u_chunk' = 0 THEN "translate" ELSE "push"
  /\ UNCHANGED <<notUpstream, status_code, tail, accepted, sock_shut>>

\* An event of an unexpected shape makes the translation throw; postStream
\* reports 503 and leaves the cancel handler set.
TranslationThrows ==
  /\ upc = "translate" /\ batch > 0
  /\ status_code' = 503
  /\ upc' = "settle"
  /\ UNCHANGED <<notUpstream, pushing, batch, tail, taken, sock_shut>>

\* Mutant: push_stream_chunk looks at the room only.
MutMayPush == ~Full
MayPush == ~cancelled /\ ~Full

\* push_stream_chunk waits for room or for a cancellation.
PushChunk(from, to) ==
  /\ upc = from
  /\ MayPush
  /\ chunks' = Append(chunks, [id |-> accepted + 1, size |-> u_chunk])
  /\ buffered_bytes' = buffered_bytes + u_chunk
  /\ accepted' = accepted + 1
  /\ u_chunk' = 0
  /\ upc' = to
  /\ UNCHANGED <<handlerVars, books, reading, flags, marks, peer_alive>>

PushRefused == \/ cancelled /\ UpstreamGoes("push", "return")
               \/ cancelled /\ UpstreamGoes("flushPush", "finish")

\* Mutant: an exchange that never got a response keeps status 0.
MutFinalStatus == status_code
FinalStatus == IF status_code = 0 THEN 503 ELSE status_code

\* send() is over: the cancel handler is cleared; without any response the
\* status is 503.
PostStreamReturns ==
  /\ upc = "return"
  /\ cancel_handler' = FALSE
  /\ status_code' = FinalStatus
  /\ upc' = "settle"
  /\ UNCHANGED <<bufferVars, handlerVars, monitorVars, startVars, pushing,
                 ctl_cancelled, batch, tail, taken, sock_shut, peer_alive>>

\* notify_started(resp.status_code); what is left of pending_sse_data is flushed.
Settle ==
  /\ upc = "settle"
  /\ NotifyStarted(status_code)
  /\ upc' = IF ~Failed(status_code) /\ (tail \/ batch > 0) THEN "flush" ELSE "finish"
  /\ UNCHANGED <<bufferVars, handlerVars, reading, monitorVars, controlVars,
                 pushing, peer_alive>>

FlushPending ==
  /\ upc = "flush"
  /\ taken' = taken + 1
  /\ u_chunk' \in 0..MaxChunk
  /\ upc' = IF u_chunk' = 0 THEN "finish" ELSE "flushPush"
  /\ UNCHANGED <<notUpstream, status_code, batch, tail, accepted, sock_shut>>

FlushThrows == UpstreamGoes("flush", "fault")

\* The thread's catch: the status is 500 unless another one was published.
PublishFault ==
  /\ upc = "fault"
  /\ NotifyStarted(500)
  /\ upc' = "faulted"
  /\ UNCHANGED <<bufferVars, handlerVars, reading, monitorVars, controlVars,
                 pushing, peer_alive>>

\* finish_stream, with an error for a failed status or after an exception.
FinishStream ==
  /\ upc \in {"finish", "faulted"}
  /\ error' = (error \/ upc = "faulted" \/ Failed(status_code))
  /\ MarkCompleted
  /\ upc' = "ended"
  /\ UNCHANGED <<handlerVars, books, reading, marks, queue, pushing, cancelled,
                 peer_alive>>

--------------------------------------------------------------------------------
HandlerStep ==
  \/ PrecheckFails \/ InstallCancelUpstream \/ SpawnFails \/ Spawn \/ Started
  \/ DownstreamGone \/ Finish499 \/ ErrorBodyComplete \/ Answer
  \/ CancelStreamBuffer \/ StreamControlCancel \/ StopClient
  \/ RegisterStreamMonitor \/ WriteHeaders \/ CutResponse \/ CallProvider
  \/ PollWritable \/ NotWritable \/ PopChunk \/ NothingBuffered \/ WriteChunk
  \/ WriteFails \/ WriteErrorEvent \/ ErrorEventFails \/ SinkDone \/ Release
  \/ FinalizeStreamMonitor \/ AccountStream

\* What the upstream thread does without waiting for the network.
UpstreamStep ==
  \/ UrlThrows \/ OpenFails \/ SetCancelHandler \/ Dial \/ AdmitBody \/ SocketShut
  \/ CheckControl \/ CheckBuffer \/ ReadDone \/ TranslateEvent \/ TranslationThrows
  \/ PushChunk("push", "translate") \/ PushChunk("flushPush", "finish")
  \/ PushRefused \/ PostStreamReturns \/ Settle \/ FlushPending \/ FlushThrows
  \/ PublishFault \/ FinishStream

\* What the network does to it; a connect or a read ends by timeout at last.
ExchangeEnding == ConnectEnds \/ ExchangeEnds
Network == ExchangeEnding \/ HeadersArrive \/ ReadBody

Next == HandlerStep \/ UpstreamStep \/ Network \/ PeerLeaves

Spec == Init /\ [][Next]_vars

\* Both threads are scheduled; the provider may stay silent for ever.
SilentSpec == Spec /\ WF_vars(HandlerStep) /\ WF_vars(UpstreamStep)

\* Moreover no connect, no wait for headers and no body lasts for ever: the
\* connect and read timeouts fire, and a provider's answer is finite.
TimedSpec == SilentSpec /\ SF_vars(ExchangeEnding)

--------------------------------------------------------------------------------
(* Properties.                                                               *)

BufferOK ==
  /\ chunks \in Seq(Chunk) /\ buffered_bytes \in Nat
  /\ completed \in BOOLEAN /\ error \in BOOLEAN
  /\ cancelled \in BOOLEAN /\ client_disconnected \in BOOLEAN
  /\ monitor_stream_id \in {0, 1} /\ monitor_finalized \in BOOLEAN
  /\ cancel_upstream \in BOOLEAN
ControlOK ==
  /\ ctl_cancelled \in BOOLEAN /\ cancel_handler \in BOOLEAN
  /\ ready \in BOOLEAN /\ start_status \in UpstreamStatuses \cup {500, 503}
HandlerOK ==
  /\ hpc \in HandlerPC /\ ret \in {"provider", "finalize", "finish499"}
  /\ out_status_code \in UpstreamStatuses \cup {400, 401, 499, 500, 503}
  /\ in_hand \in Seq(Chunk) /\ written \in Seq(0..MaxEvents)
  /\ error_event \in BOOLEAN /\ response \in {"open", "done", "cut"}
  /\ peer_alive \in BOOLEAN
MonitorOK ==
  /\ active \in BOOLEAN
  /\ verdict \in {"none", "error", "disconnect", "cancelled", "completed"}
  /\ counters \in [Outcomes -> Nat]
UpstreamOK ==
  /\ upc \in UpstreamPC /\ status_code \in UpstreamStatuses \cup {0, 503}
  /\ batch \in 0..MaxEvents /\ tail \in BOOLEAN /\ u_chunk \in 0..MaxChunk
  /\ taken \in 0..MaxEvents /\ accepted \in 0..MaxEvents /\ sock_shut \in BOOLEAN

\* Every variable has its type; the status the upstream thread publishes is one the
\* provider answered with, the gateway's own 503 for an exchange without an answer or
\* its 500 for an exception, never the initial 0.
TypeOK == BufferOK /\ ControlOK /\ HandlerOK /\ MonitorOK /\ UpstreamOK

\* Backpressure: push_stream_chunk lets the buffer exceed its limit by less than
\* one chunk, however the two threads interleave.
BoundedBuffer == buffered_bytes < MaxBuffered + MaxChunk

\* The bytes in a queue of chunks.
Bytes(q) == FoldLeft(LAMBDA sum, chunk : sum + chunk.size, 0, q)

\* The chunks written are the first ones accepted, in order, none twice; until a
\* write fails, those not written are in the writer's hand or queued, in order.
\* The byte count that push_stream_chunk waits on is the size of what is queued
\* once an upstream thread runs: the clamp in sse_provider never hides a drift.
RelayOrder ==
  /\ \A i \in 1..Len(written) : written[i] = i
  /\ upc # "none" /\ response # "cut" =>
       /\ \A i \in 1..Len(in_hand) : in_hand[i].id = Len(written) + i
       /\ \A i \in 1..Len(chunks) : chunks[i].id = Len(written) + Len(in_hand) + i
       /\ accepted = Len(written) + Len(in_hand) + Len(chunks)
  /\ upc # "none" => buffered_bytes = Bytes(chunks)

\* The closing mark of the chunked response is written only after the upstream
\* thread ended, every chunk it handed over was written, and its error, if any,
\* was reported in an error event: nothing trails, nothing is swallowed.
DoneMeansWhole ==
  response = "done" => /\ upc = "ended"
                       /\ Len(written) = accepted
                       /\ error => error_event

\* The monitor's books: a finished request counts as exactly one of error,
\* cancellation and completion, it has left the active streams, a disconnect is
\* also a cancellation, and a completion is a response the client got whole.
CountedOnce ==
  hpc = "done" =>
    /\ counters["errors"] + counters["cancellations"] + counters["completions"] = 1
    /\ counters["disconnects"] <= counters["cancellations"]
    /\ ~active
    /\ counters["completions"] = 1 => response = "done" /\ ~error

\* Nothing enters the buffer of a cancelled stream, although the check for
\* cancellation and the push are separated by a wait.
NoPushAfterCancel == [][cancelled => accepted' = accepted]_vars

\* The upstream thread can be left waiting for room that nobody will make only
\* when the handler gave up before the status came (499).
OnlyAbandonedStartStrands ==
  hpc = "done" /\ upc \in {"push", "flushPush"} /\ Full
     => cancelled \/ out_status_code = 499

\* The handler waits for the end of an error body whose upstream thread waits for
\* room in the buffer, which only the handler could make.
StuckOnErrorBody == hpc = "waitError" /\ upc \in {"push", "flushPush"} /\ Full

\* "Downstream disconnect handling": once its client left, the handler thread of a
\* streamed response is released even if the provider stays silent for ever, and
\* the handler thread of any request if exchanges with the provider end at last,
\* save one that waits for an error body larger than the buffer.
ClientGoneFreesWorker ==
  /\ (monitor_stream_id = 1 /\ ~peer_alive) ~> (hpc = "done")
  /\ SF_vars(ExchangeEnding) => (~peer_alive ~> (hpc = "done" \/ StuckOnErrorBody))

\* "Upstream cancellation": once a streamed response is over, its upstream
\* thread ends, without waiting for the provider or for a timeout.
StreamingUpstreamReleased ==
  (monitor_stream_id = 1 /\ hpc = "done") ~> (upc = "ended")

\* The handler thread of every request is released after its client left, if
\* exchanges with the provider end at last.
WorkerReleased == ~peer_alive ~> (hpc = "done")

\* The request keeps the promise of StreamChannel.  A request answered with an
\* error status is a response cut before its first chunk.
Refused == \/ hpc \in {"waitError", "answer"}
           \/ ret = "finish499"
           \/ hpc = "done" /\ monitor_stream_id = 0
Channel == INSTANCE StreamChannel WITH
  sent <- Len(written),
  closed <- upc = "ended",
  ending <- IF Refused THEN "cut" ELSE response
KeepsChannel == Channel!Spec
================================================================================
