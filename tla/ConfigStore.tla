------------------------------- MODULE ConfigStore -------------------------------
(* The gateway's configuration: g_config in memory, config.json on disk, and *)
(* the handlers of GET and POST /api/config that run on the pool's workers   *)
(* (src/src/config.h, src/darwin/main.cpp). The process can be killed at any *)
(* step, also between the two steps of a save: truncating the file and       *)
(* writing it.                                                               *)
(*                                                                           *)
(* A client of the control plane has one request at a time, as a control     *)
(* panel does, whose save button is disabled until the answer. A secret is   *)
(* an element of Secrets, MaskOf gives the text the panel gets to see.       *)
EXTENDS ModelRouting

CONSTANTS
  Clients,        \* who sends requests to the control plane
  NoClient,
  Secrets,        \* API keys and tokens, and their masks
  NoSecret,       \* the empty text
  MaskOf,         \* mask_secret_value
  DefaultConfig,  \* what load makes up without a file
  NoOverride      \* no port on the command line

ASSUME SecretsAssumption ==
  /\ NoSecret \in Secrets
  /\ MaskOf \in [Secrets -> Secrets]
  /\ \A s \in Secrets : /\ MaskOf[s] = NoSecret <=> s = NoSecret
                        /\ MaskOf[MaskOf[s]] = MaskOf[s]
ASSUME ClientsAssumption == NoClient \notin Clients

\* What is left of a configuration when the file cannot be parsed.
EmptyConfig ==
  [port |-> 8080, thread_pool_size |-> 8, admin_token |-> NoSecret,
   providers |-> <<>>, models |-> EmptyMap, aliases |-> EmptyMap]

ASSUME DefaultConfigAssumption ==
  /\ DOMAIN DefaultConfig = DOMAIN EmptyConfig
  /\ DefaultConfig.thread_pool_size \in Nat

\* config.json: none, one that is empty or cut off, or one with a text in it.
Missing == [kind |-> "missing"]
Truncated == [kind |-> "truncated"]
Whole(json) == [kind |-> "whole", json |-> json]

VARIABLES
  proc,          \* "down", "creating" (the default file) or "up"
  port_override, \* options.port_override of the running process
  g_config,      \* the configuration in memory
  file,          \* config.json
  lock,          \* the holder of g_config_mutex between the steps of a save
  updated,       \* the configuration that is being saved
  req,           \* the request of each client
  version,       \* how often g_config was replaced, by a launch or a save
  write_failed   \* the last write of the file failed, unnoticed

storeVars == <<proc, port_override, g_config, file, lock, updated, req, version,
               write_failed>>

\* Config::save, what is written.
FileOf(config) ==
  [port |-> config.port, thread_pool_size |-> config.thread_pool_size,
   admin_token |-> config.admin_token, providers |-> config.providers,
   models |-> config.models, aliases |-> config.aliases,
   model_aliases |-> ModelAliasesOf(config.models, config.aliases)]

\* Config::load of a file that is there.
Load(f) ==
  IF f.kind = "truncated" THEN EmptyConfig
  ELSE LET routes == LoadRoutes(f.json)
       IN  [port |-> f.json.port,
            thread_pool_size |-> IF f.json.thread_pool_size < 0 THEN 8
                                 ELSE f.json.thread_pool_size,
            admin_token |-> f.json.admin_token, providers |-> f.json.providers,
            models |-> routes.models, aliases |-> routes.aliases]

\* run_gateway_server: the port of the command line, for this launch.
WithPort(config, override) ==
  IF override = NoOverride THEN config ELSE [config EXCEPT !.port = override]

--------------------------------------------------------------------------------
(* Secrets, what a client gets to see, and what it can change.               *)

\* findProvider: the first provider with an id; no key for an unknown one.
KeyOf(providers, id) ==
  LET at == SelectInSeq(providers, LAMBDA p : p.id = id)
  IN  IF at = 0 THEN NoSecret ELSE providers[at].api_key

IsMaskedReference(candidate, existing) ==
  /\ candidate # NoSecret /\ existing # NoSecret
  /\ candidate = MaskOf[existing]

\* Mutant: the text of the form is taken as it is.
MutResolveSecretUpdate(candidate, existing) == candidate
ResolveSecretUpdate(candidate, existing) ==
  IF IsMaskedReference(candidate, existing) THEN existing ELSE candidate

\* config_to_json.
Masked(config) ==
  [FileOf(config) EXCEPT
     !.admin_token = MaskOf[@],
     !.providers = [i \in DOMAIN @ |-> [id |-> @[i].id,
                                        api_key |-> MaskOf[@[i].api_key]]]]

\* A provider of the body; without an api_key it keeps the one it has.
ProviderFromBody(config, p) ==
  LET existing == KeyOf(config.providers, p.id)
  IN  [id |-> p.id,
       api_key |-> IF "api_key" \in DOMAIN p
                   THEN ResolveSecretUpdate(p.api_key, existing) ELSE existing]

\* A body with model_aliases only: one model per alias, and nothing else.
OnlyModelAliases(body) ==
  /\ "model_aliases" \in DOMAIN body
  /\ {"models", "aliases"} \cap DOMAIN body = {}
SplitAliases(targets) ==
  [a \in {a \in DOMAIN targets : Len(targets[a]) > 1} |->
     NewModel(Head(targets[a]), Tail(targets[a]))]

BodyRefused(body) ==
  "thread_pool_size" \in DOMAIN body /\ body.thread_pool_size < 0

\* handle_post_config: what the fields that are in the body make of g_config.
UpdatedConfig(config, body) ==
  LET Field(name, old) == IF name \in DOMAIN body THEN body[name] ELSE old
      legacy == IF OnlyModelAliases(body) THEN SplitAliases(body.model_aliases)
                ELSE EmptyMap
  IN  [port |-> Field("port", config.port),
       thread_pool_size |-> Field("thread_pool_size", config.thread_pool_size),
       admin_token |->
         IF "admin_token" \in DOMAIN body
         THEN ResolveSecretUpdate(body.admin_token, config.admin_token)
         ELSE config.admin_token,
       providers |->
         IF "providers" \in DOMAIN body
         THEN [i \in DOMAIN body.providers |->
                 ProviderFromBody(config, body.providers[i])]
         ELSE config.providers,
       models |->
         IF OnlyModelAliases(body) THEN legacy
         ELSE IF "models" \in DOMAIN body THEN ModelsFromJson(body.models)
         ELSE config.models,
       aliases |->
         IF OnlyModelAliases(body) THEN [a \in DOMAIN legacy |-> a]
         ELSE Field("aliases", config.aliases)]

--------------------------------------------------------------------------------
(* Requests.                                                                 *)

Idle == [pc |-> "idle"]
Request(method, token, body, note) ==
  [pc |-> "sent", method |-> method, token |-> token, body |-> body, note |-> note]
Answered(r, status, content) ==
  [pc |-> "answered", method |-> r.method, status |-> status, content |-> content,
   note |-> r.note]
NoContent == EmptyMap

StoreInit(files) ==
  /\ proc = "down" /\ port_override = NoOverride
  /\ g_config = EmptyConfig /\ updated = EmptyConfig
  /\ file \in files
  /\ lock = NoClient
  /\ req = [c \in Clients |-> Idle]
  /\ version = 0 /\ write_failed = FALSE

\* run_gateway_server up to the handlers. Without a file load makes up a
\* configuration and saves it, if the file can be made.
Launch(override) ==
  /\ proc = "down"
  /\ port_override' = override
  /\ IF file = Missing
     THEN /\ g_config' = DefaultConfig
          /\ file' \in {Missing, Truncated}
          /\ proc' = "creating"
     ELSE /\ g_config' = WithPort(Load(file), override)
          /\ file' = file
          /\ proc' = "up"
  /\ write_failed' = FALSE
  /\ version' = version + 1
  /\ UNCHANGED <<lock, updated, req>>

\* The end of that first save. An error of the stream is not looked at.
DefaultsWritten(ok) ==
  /\ proc = "creating"
  /\ ok => file = Truncated
  /\ file' = IF ok THEN Whole(FileOf(g_config)) ELSE file
  /\ write_failed' = ~ok
  /\ g_config' = WithPort(g_config, port_override)
  /\ proc' = "up"
  /\ UNCHANGED <<port_override, lock, updated, req, version>>

\* The client sends a request; without a gateway there is no connection.
Send(c, r) ==
  /\ proc = "up" /\ req[c] = Idle
  /\ req' = [req EXCEPT ![c] = r]
  /\ UNCHANGED <<proc, port_override, g_config, file, lock, updated, version,
                 write_failed>>

Answer(c, status, content) ==
  /\ req' = [req EXCEPT ![c] = Answered(req[c], status, content)]
  /\ UNCHANGED <<proc, port_override, g_config, file, lock, updated, version,
                 write_failed>>

Allowed(token) == g_config.admin_token = NoSecret \/ token = g_config.admin_token

\* ensure_control_plane_access, on a snapshot of g_config.
Admit(c) ==
  /\ proc = "up" /\ lock = NoClient
  /\ req[c].pc = "sent" /\ Allowed(req[c].token)
  /\ req' = [req EXCEPT ![c].pc = "admitted"]
  /\ UNCHANGED <<proc, port_override, g_config, file, lock, updated, version,
                 write_failed>>

Refuse(c) ==
  /\ proc = "up" /\ lock = NoClient
  /\ req[c].pc = "sent" /\ ~Allowed(req[c].token)
  /\ Answer(c, 401, NoContent)

\* handle_get_config: a second snapshot, masked. The note tells its version.
GetConfig(c) ==
  /\ proc = "up" /\ lock = NoClient
  /\ req[c].pc = "admitted" /\ req[c].method = "GET"
  /\ req' = [req EXCEPT ![c] =
               [Answered(@, 200, Masked(g_config)) EXCEPT !.note = version]]
  /\ UNCHANGED <<proc, port_override, g_config, file, lock, updated, version,
                 write_failed>>

Posts(c) ==
  /\ proc = "up" /\ lock = NoClient
  /\ req[c].pc = "admitted" /\ req[c].method = "POST"

PostRefused(c) == Posts(c) /\ BodyRefused(req[c].body) /\ Answer(c, 400, NoContent)

\* create_directories throws before the file is touched.
SaveThrows(c) == Posts(c) /\ ~BodyRefused(req[c].body) /\ Answer(c, 500, NoContent)

\* handle_post_config takes g_config_mutex, merges the body into g_config and
\* opens the file, which truncates it. A file that cannot be opened is left as it
\* is, and nobody looks.
BeginSave(c, ok) ==
  /\ Posts(c) /\ ~BodyRefused(req[c].body)
  /\ lock' = c
  /\ updated' = UpdatedConfig(g_config, req[c].body)
  /\ file' = IF ok THEN Truncated ELSE file
  /\ write_failed' = ~ok
  /\ req' = [req EXCEPT ![c].pc = "saving"]
  /\ UNCHANGED <<proc, port_override, g_config, version>>

\* Mutant: g_config is replaced, the file is left to the next save.
MutEndSave(c, ok) ==
  /\ proc = "up" /\ lock = c
  /\ file' = file
  /\ g_config' = updated
  /\ version' = version + 1
  /\ req' = [req EXCEPT ![c] = Answered(@, 200, Masked(updated))]
  /\ lock' = NoClient /\ updated' = EmptyConfig
  /\ UNCHANGED <<proc, port_override, write_failed>>

\* The text is written, g_config replaced, and the client shown what was saved.
EndSave(c, ok) ==
  /\ proc = "up" /\ lock = c
  /\ file' = IF ok /\ ~write_failed THEN Whole(FileOf(updated)) ELSE file
  /\ write_failed' = (write_failed \/ ~ok)
  /\ g_config' = updated
  /\ version' = version + 1
  /\ req' = [req EXCEPT ![c] =
               [Answered(@, 200, Masked(updated)) EXCEPT !.note = version + 1]]
  /\ lock' = NoClient /\ updated' = EmptyConfig
  /\ UNCHANGED <<proc, port_override>>

\* The process dies; requests in progress fail at the client.
Crash ==
  /\ proc # "down"
  /\ proc' = "down" /\ port_override' = NoOverride
  /\ g_config' = EmptyConfig /\ updated' = EmptyConfig
  /\ lock' = NoClient
  /\ req' = [c \in Clients |-> IF req[c].pc \in {"idle", "answered"} THEN req[c]
                               ELSE Answered(req[c], 0, NoContent)]
  /\ UNCHANGED <<file, version, write_failed>>

\* The client has read the answer.
Receive(c) ==
  /\ req[c].pc = "answered"
  /\ req' = [req EXCEPT ![c] = Idle]
  /\ UNCHANGED <<proc, port_override, g_config, file, lock, updated, version,
                 write_failed>>

--------------------------------------------------------------------------------
(* Properties.                                                               *)

\* Two configurations that serve alike: everything is equal but the aliases load
\* adds where there are none, and those resolve as before.
SameService(a, b) ==
  /\ a.thread_pool_size = b.thread_pool_size
  /\ a.admin_token = b.admin_token
  /\ a.providers = b.providers
  /\ Routes(a) = Routes(b)

\* A restart brings the last save back: unless a save is in progress or a write
\* failed, the file is one that load turns into the configuration that is served,
\* whatever was saved by whom and whenever the process died before (Config::save,
\* Config::load). The port may be the one of the command line.
FileHoldsConfig ==
  proc = "up" /\ lock = NoClient /\ ~write_failed =>
    /\ SameService(Load(file), g_config)
    /\ g_config.port \in {Load(file).port, port_override}
================================================================================
