# Formal model of the model gateway

The gateway is a local HTTP server that accepts Anthropic-style requests
(`POST /v1/messages`), resolves the model name to a provider, translates the
request when the provider speaks the OpenAI protocol, relays the answer (as a
stream when asked to) and is configured and watched in a control panel.  This
directory holds TLA+ models of it, the TLC configurations that check them, and
proofs.

Every definition is translated from the code; `PROJECT.json` maps each one to its
lines.  Paths below are relative to the repository.

Contents: [system](#the-system) · [plan](#plan) · [modules](#the-modules-and-the-code) ·
[runs](#the-runs) · [fairness](#fairness) · [deviations](#where-code-and-promise-differ) ·
[proofs](#what-is-proved) · [only model-checked](#what-is-only-model-checked) ·
[not modelled](#what-is-not-modelled)

## The system

Two programs share `src/`: `darwin/main.cpp` (macOS) and `win32/main.cpp`.  The
models follow the macOS one, whose handlers the Windows one repeats; the Windows
HTTP client, which is another program, has a model of its own.

| Component | State it keeps | Operations | What makes it correct |
|---|---|---|---|
| **Streaming relay** `src/providers.cpp` (`chatStream`, `push_stream_chunk`, `finish_stream`), `darwin/main.cpp` (`handle_messages`, `sse_provider`, releaser, `finalize_stream_monitor`), `darwin/http_client.cpp` (`postStream`, `StreamControl`) | per request: `StreamBuffer` (chunks, byte count, completed, error, cancelled, monitor marks, callback), `StreamControl` (cancelled, handler), `StreamStartState` (ready, status) | start an upstream thread, wait for its status, push and pop chunks, write, cancel, finish, finalize | bytes bounded and accounted for; order kept; closing mark only on a whole stream; both threads released; counted once |
| **Server thread pool** `src/server_thread_pool.cpp` | job queue, idle count, three lists of threads, shutdown flag, condition variable | `enqueue`, worker loop, idle timeout, cleanup, `shutdown` | no job lost, no wake-up lost, limit kept, no thread handle lost, shutdown joins all |
| **OpenAI stream translation** `src/providers.cpp` (`transformStreamChunk` and emitters) | `StreamState` per stream: message started, active block, tool blocks, stop reason | one call for each SSE event | blocks numbered, opened and stopped one after the other; content in its own block; nothing lost; the message ended |
| **Instance lock, process life cycle** `darwin/main.cpp` | lock file, pid file, signal mask and waiter thread, `httplib::Server` | acquire, start, listen, stop on a signal, release | one gateway at a time; no stale pid; a signal ends it |
| **Configuration store, control plane** `src/config.h`, `darwin/main.cpp` | `g_config` behind `g_config_mutex`, `config.json`, the admin token in it | load, save, snapshot, `GET` and `POST /api/config`, `--port` | a restart serves what was served; a secret survives being shown masked and sent back |
| **Control panel** `src/webui.h` | the page's copy of the configuration, the inputs, the token | load, edit providers, models and aliases, save the whole copy | a save changes what the user changed, and what is shown is what is saved |
| **Model resolution** `src/config.h` | none (a snapshot) | a model id, then an alias; otherwise refused | names keep their meaning across load, save and edits |
| **Request and response translation, token estimation** `src/providers.cpp` | none (the client keeps the conversation) | `chat`, `countTokens`, `transformRequest`, `transformResponse` | results stay with their calls; what a model said comes back to it; nothing is dropped |
| **Monitor, sessions** `darwin/main.cpp` | counters, active streams, sessions (which only add up) | register, finalize, count, `GET /api/monitor` | every request counted once; active streams are those in progress |
| **HTTP client (macOS)** `darwin/http_client.cpp` | `StreamControl` | `post`, `postStream`, `get`, cancel | a cancelled request ends |
| **HTTP client (Windows)** `win32/http_client.cpp` | WinHTTP handles; `StreamControl` with the handle of the exchange | `sendRequest`, attach, detach, cancel | each handle closed once, by its owner; a cancelled request ends |
| **Windows lock and life cycle** `win32/main.cpp`; **scripts** `proxy.py`, `build.sh`, service files | file opened without sharing | - | - |
| **Vendored** `third_party/httplib.h`, `third_party/json.hpp` | - | listener, chunked writer, client | assumed |

How they interact.  httplib's listener thread accepts a connection and enqueues it
in the pool; a worker parses the request and calls `handle_messages`.  For a stream
`chatStream` starts a *detached* upstream thread that runs `postStream`; it calls
back for the response status (which releases the handler) and for every read of the
body, which the upstream thread splits into events, translates
(`transformStreamChunk`) and pushes into the buffer.  The worker runs httplib's
chunked writer, which calls `sse_provider` until it is done and the releaser when
the response is destroyed.  Each side can cancel the other: the worker sets
`cancelled` and calls `cancel_upstream`, which calls the handler registered in the
`StreamControl`, which stops the HTTP client: on macOS by shutting its socket, on
Windows by closing the request's handle.  The configuration is copied once per
request; a control panel loads a masked copy of it, edits the copy, and posts all of
it back, which a worker merges into `g_config` and writes to the file.  The monitor
is called by the worker under its own mutex.

What is hard:

* two threads and three locks per stream, with flags set under one and read under
  another; a push that waits between the check for cancellation and its effect;
  cancellation before the handler is installed, or before the request is in flight;
* a client that leaves at any moment, a provider that stays silent, fails early with
  a body, fails late, or sends something unparsable;
* wake-ups given after the mutex is released, an idle timeout that races a job,
  thread handles that move between lists;
* processes that are killed, or that start while another one leaves; a signal that
  arrives while the server is being set up;
* a configuration kept in four places - memory, file, page, inputs of the page - of
  which each is overwritten as a whole by another one, while others change it, the
  process dies between truncating and writing, or a write fails unnoticed;
* secrets that are shown masked and come back, to be told from new ones;
* a conversation that grows through both translations and changes provider, with
  calls of tools whose results come in any order;
* a handle that is closed under the thread that uses it, and whose value the system
  gives to somebody else.

`PROJECT.json` ("hazards") lists each at its line with the properties that cover it.

## Plan

In the order of importance; what is done has its run, and proofs where they are named.

1. **StreamRelay** over the abstract **StreamChannel**: the main function of the
   gateway.  *Done; its safety invariants and its refinement proved.*
2. **ServerThreadPool** over the abstract **TaskQueue**.  *Done; all its safety
   invariants and the refinement proved.*
3. **OpenAIStream**.  *Done; all its properties proved.*
4. **GatewayProcess**.  *Done; its safety invariants proved.*
5. **ModelRouting**: the pure part of the configuration, names to routes.  *Done, checked
   through step 6.*
6. **ConfigStore**, extending ModelRouting, and **ControlPanel**, which composes it with
   the page.  *Done; that the file holds what is served, and that a fresh save keeps the
   secrets, is proved.*
7. **MessageTranslation**, the pure translations, and **Conversation**, which composes
   them over several requests.  *Done; all its properties proved.*
8. **WinHttpExchange**.  *Done; its safety invariants proved.*

What is left, in order: the routes after a save (`FreshSaveKeepsRoutes`,
`SaveRoutesAsShown`) proved; several concurrent requests over one monitor with its
sessions; the test of a provider (`POST /api/config/test`).

## The modules and the code

### StreamRelay (abstract: StreamChannel)

One request.  `hpc` is the handler thread's place, `upc` the upstream thread's; the
other variables carry the names of the code's fields.  A chunk is an id (the n-th
accepted) and a size; its text is not told apart.

| Code | Actions |
|---|---|
| `chatStream`: checks, start of the thread, wait for the status | `PrecheckFails`, `InstallCancelUpstream`, `Spawn`, `SpawnFails`, `Started`, `DownstreamGone`, `Finish499`, `ErrorBodyComplete`, `Answer` |
| cancellation | `CancelStreamBuffer`, `StreamControlCancel`, `StopClient` |
| `sse_provider` inside httplib's chunked writer | `CallProvider`, `PollWritable`, `NotWritable`, `PopChunk`, `NothingBuffered`, `WriteChunk`, `WriteFails`, `WriteErrorEvent`, `SinkDone`, `CutResponse` |
| releaser, monitor | `Release`, `FinalizeStreamMonitor`, `AccountStream`, `RegisterStreamMonitor` |
| `postStream`, `parse_url` before it | `UrlThrows`, `OpenFails`, `SetCancelHandler`, `Dial`, `ConnectEnds`, `HeadersArrive`, `AdmitBody`, `ReadBody`, `ExchangeEnds`, `SocketShut`, `PostStreamReturns` |
| upstream thread's body callback and end | `CheckControl`, `CheckBuffer`, `TranslateEvent`, `TranslationThrows`, `PushChunk`, `PushRefused`, `Settle`, `FlushPending`, `FlushThrows`, `PublishFault` (the `catch`: status 500), `FinishStream` |
| client | `PeerLeaves` |

A critical section is one action.  Waiting on a condition variable is a guard: every
assignment in the code that can make a waited-for predicate true is followed by
`notify_all` on that variable, and the timed waits re-test, so no wake-up can be
lost; where `notify_one` is used - the pool - the wait set is explicit.
A request without an answer has the status that `postStream` gives it, 503; a URL whose
port is no number throws before `postStream`'s `try`, and the status is 500.
`StreamChannel` promises: chunks come out in order, once each, and the closing mark
comes only when upstream is finished and nothing is left.  `Channel` is the
refinement mapping and `KeepsChannel` the property.

### ServerThreadPool (abstract: TaskQueue)

`wpc[w]` is a worker's place, `lpc` the listener's (the only caller of the pool).
`enqueue` is `EnqueueAndGrow` / `EnqueueAndStart` / `EnqueueOnly`, then (growing,
mutex held) `StartDynamic`, then (mutex released) `NotifyOne`.  The worker loop is
`TakeJob`, `Wait`, `IdleTimeout`, `Retire`, `LeaveOnShutdown`, `JobEnds`, `Exit`, with
`SpuriousWakeup`.  `shutdown` is `SetShutdown`, `NotifyAll`, `JoinThreads`, `Collect`,
`JoinRemaining`.  The mutex is explicit only where it is held across steps
(`lpc = "cleanup"`); a worker that left the wait set is "woken" or "timedOut" until it
gets the mutex.  `TaskQueue` is what httplib expects of a task queue; `Tasks` is the
mapping, `ServesTasks` the property.

### OpenAIStream

`stream_state` is `StreamState`; `Translate` is `transformStreamChunk` on one delta,
made of the code's emitters (`Say`, `ToolFragment`, `closeActiveBlock`, `CloseAll`).
`Deltas` is any set of deltas of the provider's shape (`DeltasAssumption`), `Reasons`
the reasons it may give for the end.
A text, thought or fragment is known by the number of the event that brought it.
`ReadDoneLine` is the end mark as providers send it, which the code skips;
`ReadDone` is the bare mark the code tests for.  In StreamRelay's terms each event
read here is one `TranslateEvent`, and what it emits is one chunk (empty: size 0).

### GatewayProcess

`pc[p]` is a process's main thread, from `acquire_instance_lock` through
`run_gateway_server` to `release_instance_lock`; `waiter[p]` its signal waiter.  A file
system is an inode at `lock_path` and the inode each descriptor refers to; a lock
belongs to the inode.  Each system call another process can observe is a step.
`Killed` is possible everywhere; a restart is another process.  A pid is a process
name: reuse of pids by the operating system is left out.

### ModelRouting, ConfigStore, ControlPanel

`ModelRouting` is pure: `LoadRoutes` is the part of `Config::load` that reads models,
aliases and the older `model_aliases`; `ModelAliasesOf` what `save` and
`config_to_json` write of them; `ResolveModel` the lookup.  A text is the sequence of
its parts between colons, because code splits targets at colons in three ways: the
gateway at the first one, the page at every one.

`ConfigStore` adds the state: `g_config`, `file` (missing, truncated, or whole),
`lock` (the holder of `g_config_mutex` during a save), the running process and the
request of each client.

| Code | Actions |
|---|---|
| `run_gateway_server`, `Config::load` | `Launch`, `DefaultsWritten` (the file made for a first launch) |
| `ensure_control_plane_access` | `Admit`, `Refuse` |
| `handle_get_config` | `GetConfig` |
| `handle_post_config`, `Config::save` | `PostRefused`, `SaveThrows`, `BeginSave` (merge the body, truncate), `EndSave` (write, replace `g_config`, answer) |
| the process is killed | `Crash`, also between `BeginSave` and `EndSave` |

The token is checked on a snapshot taken before the save takes the mutex; the
two are separate steps, as the two snapshots of a `GET` are.  The bodies of `load`,
`save`, `config_to_json`, `resolve_secret_update` and the merge are operators
(`Load`, `FileOf`, `Masked`, `ResolveSecretUpdate`, `UpdatedConfig`).

`ControlPanel` composes it with the page: `view` is the page's `config`, `inputs` what
the inputs outside the lists hold, `token` the `controlPlaneToken`.  Each edit of
`webui.h` is an action of the same name over an operator on the copy, followed by
`ensureConfigShape` (`Shaped`) and `render` (`InputsOf`).  `SaveConfig` is the part of
`saveConfig` before its `await` - `syncCurrentFormStateFromDom` (`FormState`) and
`buildCanonicalPayload` - and `AnswerShown` the part after it; edits happen in
between.  `ScriptPosts` is any other client: it makes the panel's copy stale.

### MessageTranslation, Conversation

`MessageTranslation` is pure: `TransformRequest`, `FromUser`, `FromAssistant` and
`TransformResponse` say which block becomes which message, in which order.  A loop that
pushes back the blocks that pass a test is `Chosen`, by place.  `SystemAssumption` says
that the system prompt is made of texts numbered apart, `AnswersAssumption` that an
answer has calls with arguments of three forms and a list of blocks.  The forms
(`ArgumentForms`) are what two conversions tell apart: the parse of `transformResponse`
makes a value of a JSON text, keeps any other text as a JSON string and takes a value as
it is (`InputOf`); the `dump()` of `transformRequest` writes a value as its JSON text and
a string with quotes (`ArgumentsOf`).
`Conversation` is a client with its history: `UserSays`, `Ask`, then in the gateway
`Refuse`, `Estimate`, `Forward`, and the provider's `OpenAIAnswer`, `AnthropicAnswer`,
`Counted`, `ProviderFails` (any other status, a redirect's included), `UrlThrows`,
`Untranslatable`; `Read` is the client again.  The next request may name another model.
`Respond` is the end of `handle_messages` and `handle_count_tokens`: the monitor counts
by the status, whatever the body says.

### WinHttpExchange

`pc[e]` is the place of exchange `e` in `sendRequest`, `request[e]` its local handle,
`request_handle[e]` and `cancelled[e]` its `StreamControl`, `owner[h]` what the system
has open under a handle value.  Under the control's mutex a handle is only taken; it
is closed after that, so `closing` holds what each side is about to close and
`CloseHandle` is a step of its own.

## The runs

`MC<module>` gives the constants their values; a `.cfg` names the specification.

| Run | Question | Bounds, and why they are enough |
|---|---|---|
| `stream_relay` | bytes, order, end and books of a streamed request; release of both threads with a silent provider; release of the worker wherever it was when its client left | buffer 2, chunks of 1-2, 3 events, statuses 200 and 429: three chunks fill the buffer, overshoot it, and leave a push waiting while another is popped; error bodies may hold events |
| `stream_relay_error_body` | the last of these, without the exception of finding 1 | *violated*: finding 1 |
| `pool_limited` | a pool of 2 grows, saturates, queues, drains | 4 jobs: two run, one is begun late, one is queued when shutdown comes; a third identity would show the limit exceeded |
| `pool_unbounded` | no job queues behind one that never ends; dynamic threads come and go | 1 base and up to 3 dynamic workers, 3 jobs: one thread retires while another is needed and a third is being joined |
| `openai_stream` | blocks, content and end of message, for every stream of events | 4 events from 12 deltas covering each kind and each mix: two calls started, one interrupted and taken up again, then an end; `[DONE]` after which a new message begins |
| `openai_stream_done` | the end mark ends the message | *violated*: finding 2 |
| `gateway_process` | exclusion under kills, honesty of the pid file, a signal ends a serving gateway | 2 processes, 3 inodes: each starts, is refused, fails, serves, is stopped or killed at every point of the other |
| `gateway_process_exclusion` | no two gateways serve | *violated* with 3 processes: finding 3 |
| `control_panel` | the file holds what is served; a save of a fresh panel keeps secrets and routes, a save of any panel routes as it showed | one panel with a `GET` and a `POST` under way at once, one other client, 2 edits, 2 requests of the panel, 1 disturbance (a kill, a failed write, or a post by the other client); launched from no file, with a port on the command line, or from an old file whose `model_aliases` overlap its aliases; upstream names with a colon and without a name. Two edits are enough to make a model, alias or id collide with what was there and to edit during a save |
| `control_panel_masked` | a masked key left alone is preserved | *violated*, by one edit: finding 4 |
| `conversation` | calls and results, round trip, nothing lost | 5 messages, 3 requests, 1 count; up to 2 calls with arguments of each form, answered in either order, images beside results, every shape of reasoning, six kinds of models. Three answers of different providers reach the second and third translation |
| `winhttp_exchange` | who closes which handle; a cancelled exchange ends | 2 streamed exchanges and a plain one over 2 handle values: a value that was closed is taken by the next exchange while a thread still holds it |

Bound constants: `MaxEvents`, `MaxChunk` (relay), `MaxJobs` (pool), `MaxEvents`
(translation), `MaxEdits`, `MaxRequests`, `MaxDisturbances` (control panel),
`MaxMessages`, `MaxRequests`, `MaxCounts` (conversation), the number of processes and
of exchanges.  No counter of the code is truncated by another bound.

Deadlock is checked in the pool, where only a stopped listener may stop
(`Stopped`).  It is off elsewhere because the system does end: a request is over
(and may leave an upstream thread behind, see below), a stream is over, every process
has ended, every exchange is over, the panel's edits and the client's questions are
used up.  Lost progress shows there as a violated liveness property instead.

Each property of a passing run has a mutant: an operator beside the definition it
changes (`Mut...`), under which TLC finds the property violated.

## Fairness

* `StreamRelay!SilentSpec`: weak fairness of the handler thread and of what the
  upstream thread does without the network.  Both are threads of the operating
  system and all their waits are re-tested.  Nothing is assumed of the provider
  or of the client.
* Strong fairness of `ExchangeEnding`: a connect, a wait for headers or a body ends at
  last.  `http_client.cpp` sets connect and read timeouts; that a body which keeps
  arriving is finite is an assumption on providers.  Strong, because reads that make
  progress disable and enable it again.  It is the condition of the second half of
  `ClientGoneFreesWorker` - the first half, about streamed responses, does without -
  and part of `TimedSpec`, under which `stream_relay_error_body` is violated.
* `ServerThreadPool!ScheduledSpec`: each worker is scheduled and gets the mutex, and
  the listener completes a call it began.  Jobs need not end (a stream may
  last).  `FairSpec` adds that they do, which `EveryJobRun` and
  `ShutdownReturns` need: shutdown really waits for running jobs.
* `GatewayProcess!FairSpec`: the two threads of each process are scheduled, and
  requests in progress end (`ServerReturns`).  Signals, kills and failures of
  `accept` are not fair.
* `WinHttpExchange!Spec`: each thread is scheduled (`Runs`, and a canceller closes what
  it took), and a call on a handle that is not its thread's own any more fails
  (`Fails`).  Nothing is assumed of a call on an open handle: the provider may stay
  silent for ever.  Where the value was given to another exchange meanwhile, that the
  call ends rests on its timeouts (`WinHttpSetTimeouts`), and that the read loop does on
  the test of `is_cancelled` after each read.
* `OpenAIStream`, `ControlPanel` and `Conversation` have no liveness property: what they
  model is called and does not wait, but for a mutex that is held for one write.

## Where code and promise differ

Shown by a run:

1. **Error body against backpressure** (`providers.cpp:1605`).  For a failed status
   the handler waits, without timeout and without looking at the client, until the
   body is complete, while the upstream thread pushes events of that body into a
   buffer nobody drains.  If they fill it, both wait for ever and the worker
   is lost.  A body that is one JSON document is no event and does no harm.
2. **`[DONE]`** (`providers.cpp:1044`).  The test compares the whole event with
   `[DONE]`, but providers send `data: [DONE]`: `message_delta` with the stop reason
   and `message_stop` are never sent.
3. **Lock file removed after unlock** (`main.cpp:290`).  Another process may lock the
   inode before its path is unlinked; a third then locks a new file.
   `OnlyReleaseBreaksExclusion` shows nothing else - no kill, no failure - does.
4. **Masked key of a renamed provider** (`main.cpp:1629`).  The stored key is looked up
   by the id in the body.  After a rename there is none, so the mask is stored as
   the key, although README.md:241 promises that a masked value left unchanged
   preserves it.

Met while modelling.  A property that is named excepts the case, so that it is the
only one of its kind; it does not catch the case itself:

* A client that leaves before the status is known makes the handler cancel the HTTP
  request, but `cancelled` stays false (`providers.cpp:1597`): an upstream thread
  already past its checks can wait for room for ever (`OnlyAbandonedStartStrands`).
* A signal between the start of the waiter and the start of the accept loop is used
  up by a `stop()` that does nothing (`main.cpp:359`; `SignalEndsServing`).
* A delta that names the role loses whatever else it holds (`providers.cpp:1080`;
  `ContentRelayed`).
* Two models with one target, or a colon in an upstream's name: the page finds
  another model than the alias named, or makes a new one, and an unedited save changes
  routes (`webui.h:455`, `609`, `611`).  A model of an unknown provider is rerouted by
  the `<select>` that has no option for it (`webui.h:521`).  `PanelSafe` excludes these.
* An empty `reasoning_content` hides `reasoning` (`providers.cpp:460`; `RoundTrip`).
* The arguments of a call that are no JSON text - empty, for a tool without parameters,
  or cut short - are kept as a JSON string (`providers.cpp:874`), which `dump()` sends back
  to the provider in quotes (`687`).  `RoundTrip` says so, and that nothing else changes.
* What a user says beside results is sent between the calls and their results, which the
  OpenAI API wants together (`providers.cpp:715`; `CallsAnswered` allows it there).
* `save` truncates the file before it writes: a crash in between, or a write that fails
  unnoticed, loses the configuration, and `load` takes what is left for an empty one
  (`config.h:312`; `FileHoldsConfig`).
* A stream whose client stays and whose provider is silent keeps a shutdown waiting:
  `sse_provider` does not ask whether the server stops (`httplib.h:11615`;
  `ShutdownReturns` and `SignalEndsServing` are under the assumption that jobs end).

And without a property:

* A port or token typed into the page is dropped by any edit of the lists, which
  renders (`webui.h:751`); what is typed during a save by its answer (`webui.h:1293`).
* A page that could not load holds an empty configuration and can save it
  (`webui.h:305`); the bound `MayEdit` leaves edits of it out, not the save.
* The port of the command line becomes part of `g_config` and is persisted by the next
  save (`main.cpp:888`); `FileHoldsConfig` follows it.
* The monitor counts by the status (`main.cpp:1396`).  An answer with status 200 that cannot
  be translated is an error body with status 200 (`providers.cpp:888`), and the error body
  for a redirect keeps its status (`1284`): neither is counted, against README.md:272.
* A panel saves the whole copy it loaded, and with it undoes what others saved since.
* `countTokens` answers every failure of a provider but 401, 403 and 429 with an estimate.
* When `WinHttpQueryHeaders` fails the status stays 0 (`win32/http_client.cpp:268`).

## What is proved

`*Proofs` modules; each theorem holds for every value of the constants allowed by the
module's assumption, for any interleaving of any length.

**StreamRelayProofs**, from `RelayAssumption` (limit and chunk size positive, statuses
between 200 and 599): `TypeCorrect` (a published status is a provider's, 503 or 500), `BufferBounded` (`BoundedBuffer`),
`CancelStopsPushes` (`NoPushAfterCancel`).  `TypeOK` is not inductive: that
`in_hand[1]` exists, that a push has a chunk of positive size, that counts stay below
`MaxEvents` and that the status published is not the initial 0 depend on where the
threads are.  `IInv` adds `Fresh`, `WriterHolds`, `PusherHolds`, `EventsLeft` and
`StatusKnown`, one for each.  The bound follows from it because the one push that adds
bytes is guarded by `~Full` in the same critical section.

How a stream ends:
* `DoneMeansWholeAlways` (`DoneMeansWhole`) and `OrderKept` from `EndInv`: until the
  response is cut, the ids written, in hand and queued are consecutive up to the last
  one accepted (`ChunksInOrder`); a buffer is completed only by the upstream thread's
  end or before a response (`CompletedIsEnd`); between the handler's decision to end
  the response and its end nothing can be added (`Ending`);
* `RelayOrderAlways` (`RelayOrder`) adds the byte count: `BytesCounted` says that
  `stream_buffered_bytes` is the sum of the sizes queued, for which `PartialSums`,
  `BytesPushed` and `BytesPopped` show what the fold over the queue does when a chunk
  joins at its end or leaves at its front;
* `CountedOnceAlways` (`CountedOnce`) from `BooksInv`: registered means active and not
  finalized (`InBooks`), the verdict is the one of what happened (`Classified`);
* `OnlyAbandonedStartStrandsAlways` from `LeavesNoneWaiting`: a handler that is past its
  waits has seen the upstream thread end, or cancelled the stream, or given up its start.

`RelayKeepsChannel` (`KeepsChannel`) is the refinement, over these invariants and
`StaysRefused`, without which a refused request could seem to become a stream.  Each
action is a step of the channel (`HandlerStepMaps`) or leaves its variables alone
(`OtherStepMaps`).

**SequenceLemmas** is what these proofs share.  The library's induction theorems take an
operator, so induction is done with sets: a non-empty set of numbers has a least element
(`LeastElement`, from `WFMin`), hence a set closed under successor has every number
(`SuccessorInduction`), hence a recursion by one is a function (`RecursionExists`).
With that the recursive functions behind a fold, `FlattenSeq` and a maximum can be
followed element by element; `PrefixedPlaces` says where each element of the parts is
found in the flattened sequence, and that there is no other.

**OpenAIStreamProofs**, from `DeltasAssumption`: `TypeAlways` (`TypeOK`),
`BlocksInSequenceAlways`, `ContentInItsBlockAlways`, `ContentRelayedAlways`,
`EndedIsCompleteAlways`, for any deltas, any number of calls in one of them and any
number of events.  The properties are about all events that were emitted; the
invariant `IInv` ties them to `StreamState`: the next index is the number of blocks
started, all of them are stopped but the active one, each known call has a block of its
own, closed unless it is the active one, and every fragment went to its call's block
(`Good`: what is right of each event, `Right`; what was relayed, `Relayed`; and how the
state fits the events, `Blocks`).  It is kept by each event on its own (`EmittedGood`,
`StopGood`, `OpenedGood`, `ContentGood`), by each emitter (`SayFine`, `ToolFragmentFine`,
`CloseGood`), by induction over the calls of a delta (`CallToolsFine`), by the end of a
message, where `closeAllToolBlocks` finds no open call (`NoOpenCalls`,
`EndMessageFine`), and so by each step.

**ServerThreadPoolProofs**, from `PoolAssumption` (finitely many identities):
* `HandlesKept`, `ShutdownJoinsAll` from `Threaded`: the four lists partition the started
  threads, a worker that timed out is dynamic until shutdown has collected it, and what was joined
  so far has exited;
* `IdleCountExact`, then `TypeCorrect`: `idle_thread_count_` equals the number of
  workers inside the wait.  The argument counts workers in sets of places;
  `NoneMoves`, `OneEnters`, `OneLeaves` say how a step changes such a number;
* `QueuedJobsServed`, `NoLostWakeup`: the inequality between queued jobs and free
  (awake) workers, from the exact idle count at the moment `enqueue` decides and
  from the notification that is still to be given;
* `PoolServesTasks` (`ServesTasks`), the refinement, from `JobsInOrder` - the jobs begun
  are the first ones, the queue holds the rest by number, a job is run by one
  worker - and `LimitedPool`, that workers of a limited pool leave only when shutdown
  has left no job.  `RoomForAnother` shows the limit, `StoppedIsDone` that
  nothing is left when `shutdown` returns; it rests on `QueuedJobsServed`.

**ControlPanelProofs**, from `SecretsAssumption`, `ClientsAssumption`,
`DefaultConfigAssumption`, `PanelsAssumption` and `KeysAssumption` (keys and tokens are
texts wherever they come from; a body may leave them out):
* `FileHoldsConfigHolds` (`FileHoldsConfig`) for any configuration, any body, any number
  of panels and clients.  `LoadOfSaved`, from `NoLegacyAliasesSaved`, `RoutesLoaded` and
  `SameRoutes`, says that loading what was saved serves alike: `model_aliases` is written
  for older versions and adds nothing when it is read back, and a model that is read
  twice keeps its effort.  `StoreInv` adds that only a running process holds the lock,
  that the text written at a first launch is the default configuration, and that no size
  is one `load` would replace.
* `FreshSaveKeepsSecretsHolds` (`FreshSaveKeepsSecrets`), an action property that holds
  because of four copies of the configuration, in the panel, in its inputs, in a body on
  its way and in an answer.  The inductive invariant `SecretsInv` says of each of them
  that its version is at most the one served, and that while it is the one served it
  holds the mask of every key but those the user typed (`Mirrors`); and of a save in
  progress that what it will install is made of what is served now, since nothing
  replaces that under the lock.  A step may change the keys that are served only
  together with the version (`KeysMove`), which makes every copy stale at once; that is
  why an old panel, a crash or another client's save between two steps needs no case of
  its own.  `MirroredKeysKept` is the last step: the mask of the key of the provider
  with that id resolves to the key, for any way of masking.  With two providers of one id it does not, which is the
  condition `DistinctIds` of the property.

**ConversationProofs**, from `RouteAssumption`, `SystemAssumption` and
`AnswersAssumption`, for any models, answers, system prompt and length:
* `CallsAnsweredAlways`, `RoundTripAlways`, `NothingLostAlways` (`CallsAnswered`,
  `RoundTrip`, `NothingLost`) from `HistoryInv`: user and assistant take turns, every block
  carries the number of its message, a user's message has a result for each call of the
  one before (`Convo`); a request is for a message of the user, and what was translated is
  all of the conversation; what was said is in the conversation or about to be read
  (`SaidInv`).  That a message comes back with its calls' arguments as JSON is
  `SaidAgain`, the composition of the two translations.

That these follow from the invariant is a fact about `TransformRequest` on any
conversation.  `Shaped` says where the translation of each message begins, by the lemmas
on flattening; `Places`, that each translated message is the system prompt, an
assistant's message, a user's words or a result, and where.  For the answers, a message
has the id of one of an assistant's calls exactly at the places of the results of the
next one (`ResultPlaces`): the results are those calls in some order, and a call's number
is its message's.  `AssistantsCounted` is a bijection between the assistant's messages
on both sides.  For the words, a sequence `Lists` a set when it has each of its elements
once: each message's words list what the message has (`AssistantWords`, `UserWords`,
`SystemWords`), each translated message is at `Home` in one of them, and the sets of
different messages differ in their first number, which grows.

**WinHttpExchangeProofs**, from `ExchangesAssumption` and `HandlesAssumption`:
`HandlesOwnedAlways`, `EndsCleanAlways`, from `Inv`: a handle value is in one place -
the thread's hand, the control, or about to be closed by one side - and there it
is the exchange's own (`Places`); a control that is cancelled holds nothing
(`ControlKnows`); every open handle is in one of these places (`Kept`); a status
was told once (`Told`).  `Frame` says that a step of one exchange leaves the others
alone, so each action has one lemma about its own exchange.

**GatewayProcessProofs**, from `GatewayAssumption`: `TypeCorrect`;
`KillsKeepExclusion` from `Exclusive` - files are open where they should be, an inode is
locked by one process, and, until somebody removes the path, all open descriptors
lead to the inode at the path; `PidFileHonest`.

## What is only model-checked

* Liveness (`ClientGoneFreesWorker`, `StreamingUpstreamReleased`, `EveryJobBegins`,
  `EveryJobRun`, `ShutdownReturns`, `SignalEndsServing`, `CancelEnds`): beyond the
  prover, which has no rules for fairness here.
* `FreshSaveKeepsRoutes` and `SaveRoutesAsShown`: what the page sends is a fold over its
  aliases, in an order left open, after edits that keep two tables of routes in step.

## What is not modelled

* Of requests and answers: tools, `tool_choice`, sampling parameters, usage, wording
  and ids, all of which are copied; of arguments, anything but their form; bodies that are not of the API's shape.
* Of configurations: fields that are copied only (names, base URLs, bind address,
  thinking, capabilities, protocol, role); bodies with fields of the wrong type.
* Of the page: layout, monitor tab, the test of a provider; providers with an empty
  id, which `syncCurrentFormStateFromDom` drops from the copy but, until the next
  `render`, not from the rows; and the runs give no upstream model the name
  `new-model`, the placeholder of `addModelRoute` for a provider without models: it
  would replace a model of that name, so `SaveRoutesAsShown` is not claimed for it.
* The monitor beyond counters and the active stream: sessions, which are looked up and
  added to under one mutex, and `GET /api/monitor`, which reads.  Several requests
  at once share only atomic counters and that mutex.
* `POST /api/config/test` and `get` of the HTTP clients, which change no state.
* The Windows handlers, stream buffer and SSE writer: they repeat the macOS ones.
* The Windows lock and console handler: the lock file is opened without sharing, and
  closed before `DeleteFileW`, which fails while another process has it open; the
  console handler calls `stop()` for each event.  Exclusion rests on Windows alone.
* Failure to create a thread in the pool: the exception ends the process.
* Undefined behaviour when the signal waiter calls `stop()` on a server that was
  destroyed: the process may die at any point anyway.
* The pool's worker gauge and logs: no property is about them.
* `enqueue` after `shutdown`: the listener is the only caller of both.
* Vendored libraries beyond what the gateway relies on: chunked writer and
  releaser, `ClientImpl::stop`, the accept loop.
* Development proxy, scripts: no state of their own.
