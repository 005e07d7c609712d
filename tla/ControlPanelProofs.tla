---------------------------- MODULE ControlPanelProofs ----------------------------
(* Proofs about ControlPanel: in every instance, with any number of panels   *)
(* and of other clients that post any body, the file on disk is one that a   *)
(* restart turns into the configuration the gateway serves, and a save from  *)
(* an up-to-date panel keeps the secrets the user left alone.                *)
EXTENDS ControlPanel, SequenceLemmas, TLAPS

\* A size that the pool can have.
PoolSizeOK(config) == ~(config.thread_pool_size < 0)

\* The inductive invariant: a process that is not up holds no lock; while the
\* first file is written its text is the default configuration; and neither the
\* configuration served nor the one being saved has a size load would replace.
NoLockUnlessUp == proc # "up" => lock = NoClient
CreatesDefault == proc = "creating" => g_config = DefaultConfig
SizesOK == PoolSizeOK(g_config) /\ PoolSizeOK(updated)
StoreInv == NoLockUnlessUp /\ CreatesDefault /\ SizesOK /\ FileHoldsConfig

--------------------------------------------------------------------------------
(* Save and load.                                                            *)

\* load reads aliases where save wrote them: model_aliases, which repeats them for
\* older versions, adds nothing.
LEMMA NoLegacyAliasesSaved ==
  ASSUME NEW config
  PROVE  LegacyAliases(FileOf(config)) = {}
<1> DEFINE json == FileOf(config)
<1>1. /\ json.aliases = config.aliases
      /\ json.model_aliases = ModelAliasesOf(config.models, config.aliases)
  BY DEF FileOf
<1>2. DOMAIN json.model_aliases \subseteq DOMAIN json.aliases
  BY <1>1 DEF ModelAliasesOf
<1> QED BY <1>2 DEF LegacyAliases

\* What load makes of the routes that save wrote.
LEMMA RoutesLoaded ==
  ASSUME NEW config
  PROVE  LoadRoutes(FileOf(config)) =
           [models  |-> ModelsFromJson(config.models),
            aliases |-> IF DOMAIN config.aliases # {} THEN config.aliases
                        ELSE [id \in DOMAIN config.models |-> id]]
<1> DEFINE json == FileOf(config)
           base == [models |-> ModelsFromJson(config.models), aliases |-> config.aliases]
<1>1. base = [models |-> ModelsFromJson(json.models), aliases |-> json.aliases]
  BY DEF FileOf
<1>2. LoadRoutes(json) =
        IF DOMAIN base.aliases # {} THEN base
        ELSE [base EXCEPT !.aliases = [id \in DOMAIN base.models |-> id]]
  BY <1>1, NoLegacyAliasesSaved DEF LoadRoutes
<1>3. DOMAIN base.models = DOMAIN config.models
  BY DEF ModelsFromJson
<1> QED BY <1>2, <1>3

\* Reading a model twice changes nothing that a request sees.
LEMMA EffortOfLoaded ==
  ASSUME NEW model
  PROVE  /\ ModelEffort(ModelFromJson(model)) = ModelEffort(model)
         /\ ModelFromJson(model).provider = model.provider
         /\ ModelFromJson(model).upstream_model = model.upstream_model
BY DEF ModelEffort, ModelFromJson

\* Two configurations with the same models, up to a second reading, and the same
\* aliases, up to those that load adds, resolve every name alike.
LEMMA SameRoutes ==
  ASSUME NEW a, NEW b,
         a.models = ModelsFromJson(b.models),
         a.aliases = IF DOMAIN b.aliases # {} THEN b.aliases
                     ELSE [id \in DOMAIN b.models |-> id]
  PROVE  Routes(a) = Routes(b)
<1>1. DOMAIN a.models = DOMAIN b.models
  BY DEF ModelsFromJson
<1>2. \A id \in DOMAIN b.models : a.models[id] = ModelFromJson(b.models[id])
  BY DEF ModelsFromJson
<1>3. Resolvable(a) = Resolvable(b)
  <2>1. CASE DOMAIN b.aliases # {}
    BY <1>1, <2>1 DEF Resolvable
  <2>2. CASE DOMAIN b.aliases = {}
    BY <1>1, <2>2 DEF Resolvable
  <2> QED BY <2>1, <2>2
<1>4. ASSUME NEW name \in Resolvable(b)
      PROVE  ResolveModel(a, name) = ModelFromJson(ResolveModel(b, name))
  <2>1. CASE name \in DOMAIN b.models
    BY <1>1, <1>2, <2>1 DEF ResolveModel
  <2>2. CASE name \notin DOMAIN b.models
    <3>1. /\ name \in DOMAIN b.aliases
          /\ b.aliases[name] \in DOMAIN b.models
      BY <2>2 DEF Resolvable
    <3>2. a.aliases = b.aliases
      BY <3>1
    <3> QED BY <1>1, <1>2, <2>2, <3>1, <3>2 DEF ResolveModel
  <2> QED BY <2>1, <2>2
<1> DEFINE R(c, name) == [provider |-> ResolveModel(c, name).provider,
                          upstream_model |-> ResolveModel(c, name).upstream_model,
                          effort |-> ModelEffort(ResolveModel(c, name))]
<1>5. \A name \in Resolvable(b) : R(a, name) = R(b, name)
  BY <1>4, EffortOfLoaded
<1>6. /\ Routes(a) = [name \in Resolvable(a) |-> R(a, name)]
      /\ Routes(b) = [name \in Resolvable(b) |-> R(b, name)]
  BY DEF Routes
<1> HIDE DEF R
<1> QED BY <1>3, <1>5, <1>6

\* Config::load of what Config::save wrote serves as what was saved.
LEMMA LoadOfSaved ==
  ASSUME NEW config, PoolSizeOK(config)
  PROVE  /\ SameService(Load(Whole(FileOf(config))), config)
         /\ Load(Whole(FileOf(config))).port = config.port
<1> DEFINE loaded == Load(Whole(FileOf(config)))
<1>1. loaded = [port |-> config.port, thread_pool_size |-> config.thread_pool_size,
                admin_token |-> config.admin_token, providers |-> config.providers,
                models |-> LoadRoutes(FileOf(config)).models,
                aliases |-> LoadRoutes(FileOf(config)).aliases]
  <2>1. /\ Whole(FileOf(config)).kind = "whole"
        /\ Whole(FileOf(config)).json = FileOf(config)
    BY DEF Whole
  <2>2. /\ FileOf(config).port = config.port
        /\ FileOf(config).thread_pool_size = config.thread_pool_size
        /\ FileOf(config).admin_token = config.admin_token
        /\ FileOf(config).providers = config.providers
    BY DEF FileOf
  <2> QED BY <2>1, <2>2 DEF Load, PoolSizeOK
<1> HIDE DEF loaded
<1>2. /\ loaded.models = ModelsFromJson(config.models)
      /\ loaded.aliases = IF DOMAIN config.aliases # {} THEN config.aliases
                          ELSE [id \in DOMAIN config.models |-> id]
  <2> DEFINE routes == LoadRoutes(FileOf(config))
  <2>1. loaded.models = routes.models /\ loaded.aliases = routes.aliases
    BY <1>1
  <2>2. /\ routes.models = ModelsFromJson(config.models)
        /\ routes.aliases = IF DOMAIN config.aliases # {} THEN config.aliases
                            ELSE [id \in DOMAIN config.models |-> id]
    <3>1. routes = [models  |-> ModelsFromJson(config.models),
                    aliases |-> IF DOMAIN config.aliases # {} THEN config.aliases
                                ELSE [id \in DOMAIN config.models |-> id]]
      BY RoutesLoaded, Zenon
    <3> HIDE DEF routes
    <3> QED BY <3>1
  <2> QED BY <2>1, <2>2
<1>3. /\ loaded.port = config.port
      /\ loaded.thread_pool_size = config.thread_pool_size
      /\ loaded.admin_token = config.admin_token
      /\ loaded.providers = config.providers
  BY <1>1
<1>4. Routes(loaded) = Routes(config)
  BY <1>2, SameRoutes
<1> QED BY <1>3, <1>4 DEF SameService, loaded

--------------------------------------------------------------------------------
(* The steps of the gateway.                                                 *)

\* The size of the pool is never negative: an update with such a size is refused.
LEMMA UpdatedSizeOK ==
  ASSUME NEW config, NEW body, PoolSizeOK(config), ~BodyRefused(body)
  PROVE  PoolSizeOK(UpdatedConfig(config, body))
BY DEF PoolSizeOK, BodyRefused, UpdatedConfig

\* Nor does load let one in.
LEMMA LoadedSizeOK ==
  ASSUME NEW f
  PROVE  PoolSizeOK(Load(f))
<1>1. CASE f.kind = "truncated"
  BY <1>1 DEF Load, EmptyConfig, PoolSizeOK
<1>2. CASE f.kind # "truncated"
  <2>1. Load(f).thread_pool_size =
          IF f.json.thread_pool_size < 0 THEN 8 ELSE f.json.thread_pool_size
    BY <1>2 DEF Load
  <2> QED BY <2>1 DEF PoolSizeOK
<1> QED BY <1>1, <1>2

\* The port of the command line changes nothing but the port.
LEMMA OverriddenPort ==
  ASSUME NEW config, DOMAIN config = DOMAIN EmptyConfig, NEW override
  PROVE  LET c == WithPort(config, override)
         IN  /\ c.thread_pool_size = config.thread_pool_size
             /\ c.admin_token = config.admin_token
             /\ c.providers = config.providers
             /\ c.models = config.models
             /\ c.aliases = config.aliases
             /\ c.port \in {config.port, override}
BY DEF WithPort, EmptyConfig

\* The configuration serves alike with the port of the command line.
LEMMA OverriddenService ==
  ASSUME NEW config, DOMAIN config = DOMAIN EmptyConfig, NEW override,
         NEW c, SameService(c, config), c.port = config.port
  PROVE  /\ SameService(c, WithPort(config, override))
         /\ WithPort(config, override).port \in {c.port, override}
         /\ PoolSizeOK(config) => PoolSizeOK(WithPort(config, override))
<1> DEFINE d == WithPort(config, override)
<1>1. /\ d.thread_pool_size = config.thread_pool_size
      /\ d.admin_token = config.admin_token
      /\ d.providers = config.providers
      /\ d.models = config.models
      /\ d.aliases = config.aliases
      /\ d.port \in {config.port, override}
  BY OverriddenPort
<1> HIDE DEF d
<1>2. /\ Resolvable(d) = Resolvable(config)
      /\ \A name : ResolveModel(d, name) = ResolveModel(config, name)
  BY <1>1 DEF Resolvable, ResolveModel
<1>3. Routes(d) = Routes(config)
  BY <1>2 DEF Routes
<1> QED BY <1>1, <1>3 DEF SameService, PoolSizeOK, d

\* load makes a configuration of all fields.
LEMMA LoadedFields == ASSUME NEW f PROVE DOMAIN Load(f) = DOMAIN EmptyConfig
BY DEF Load, EmptyConfig

\* No process runs at first.
LEMMA InitStoreInv == Init => StoreInv
BY DEF Init, StoreInit, StoreInv, NoLockUnlessUp, CreatesDefault, SizesOK,
       PoolSizeOK, EmptyConfig, FileHoldsConfig

\* A launch serves what the file holds, or is about to write the default.
LEMMA LaunchStoreInv ==
  ASSUME StoreInv, NEW override, Launch(override)
  PROVE  StoreInv'
<1>1. PoolSizeOK(updated)' /\ NoLockUnlessUp'
  BY DEF Launch, StoreInv, SizesOK, NoLockUnlessUp, PoolSizeOK
<1>2. CASE file = Missing
  BY <1>1, <1>2, DefaultConfigAssumption
     DEF Launch, StoreInv, CreatesDefault, SizesOK, PoolSizeOK, FileHoldsConfig
<1>3. CASE file # Missing
  <2>1. /\ g_config' = WithPort(Load(file), override) /\ file' = file
        /\ proc' = "up" /\ port_override' = override
    BY <1>3 DEF Launch
  <2>2. SameService(Load(file), Load(file))
    BY DEF SameService
  <2>3. /\ SameService(Load(file), g_config')
        /\ g_config'.port \in {Load(file).port, override}
        /\ PoolSizeOK(g_config')
    BY <2>1, <2>2, LoadedFields, LoadedSizeOK, OverriddenService
  <2> QED
    BY <1>1, <2>1, <2>3
       DEF StoreInv, CreatesDefault, SizesOK, PoolSizeOK, FileHoldsConfig
<1> QED BY <1>2, <1>3

\* The first file is written, or cannot be.
LEMMA DefaultsWrittenStoreInv ==
  ASSUME StoreInv, NEW ok \in BOOLEAN, DefaultsWritten(ok)
  PROVE  StoreInv'
<1>1. /\ g_config = DefaultConfig
      /\ DOMAIN g_config = DOMAIN EmptyConfig
      /\ PoolSizeOK(g_config) /\ PoolSizeOK(updated)
      /\ proc' = "up" /\ lock' = NoClient /\ updated' = updated
      /\ port_override' = port_override
      /\ g_config' = WithPort(g_config, port_override)
  BY DefaultConfigAssumption
     DEF DefaultsWritten, StoreInv, CreatesDefault, SizesOK, NoLockUnlessUp
<1> DEFINE c == Load(Whole(FileOf(g_config)))
<1>2. SameService(c, g_config) /\ c.port = g_config.port
  BY <1>1, LoadOfSaved
<1> HIDE DEF c
<1>3. /\ SameService(c, g_config') /\ g_config'.port \in {c.port, port_override}
      /\ PoolSizeOK(g_config')
  BY <1>1, <1>2, OverriddenService
<1>4. /\ ok => file' = Whole(FileOf(g_config))
      /\ write_failed' = ~ok
  BY DEF DefaultsWritten
<1>5. FileHoldsConfig'
  BY <1>1, <1>3, <1>4 DEF FileHoldsConfig, c
<1> QED
  BY <1>1, <1>3, <1>5
     DEF StoreInv, NoLockUnlessUp, CreatesDefault, SizesOK, PoolSizeOK

\* A save takes the lock.
LEMMA BeginSaveStoreInv ==
  ASSUME StoreInv, NEW c \in Clients, NEW ok \in BOOLEAN, BeginSave(c, ok)
  PROVE  StoreInv'
<1>1. /\ proc = "up" /\ proc' = "up" /\ lock' = c /\ g_config' = g_config
      /\ updated' = UpdatedConfig(g_config, req[c].body)
      /\ ~BodyRefused(req[c].body)
  BY DEF BeginSave, Posts
<1>2. c # NoClient
  BY ClientsAssumption
<1>3. PoolSizeOK(updated')
  BY <1>1, UpdatedSizeOK DEF StoreInv, SizesOK
<1> QED
  BY <1>1, <1>2, <1>3
     DEF StoreInv, NoLockUnlessUp, CreatesDefault, SizesOK, PoolSizeOK,
         FileHoldsConfig

\* A save writes what is served from now on, or marks the failure.
LEMMA EndSaveStoreInv ==
  ASSUME StoreInv, NEW c \in Clients, NEW ok \in BOOLEAN, EndSave(c, ok)
  PROVE  StoreInv'
<1>1. /\ proc' = "up" /\ lock' = NoClient
      /\ g_config' = updated /\ updated' = EmptyConfig
      /\ PoolSizeOK(updated) /\ PoolSizeOK(EmptyConfig)
  BY DEF EndSave, StoreInv, SizesOK, PoolSizeOK, EmptyConfig
<1>2. /\ SameService(Load(Whole(FileOf(updated))), updated)
      /\ Load(Whole(FileOf(updated))).port = updated.port
  BY <1>1, LoadOfSaved
<1>3. ~write_failed' => file' = Whole(FileOf(updated))
  BY DEF EndSave
<1>4. FileHoldsConfig'
  BY <1>1, <1>2, <1>3 DEF FileHoldsConfig
<1> QED
  BY <1>1, <1>4
     DEF StoreInv, NoLockUnlessUp, CreatesDefault, SizesOK, PoolSizeOK

\* The process dies.
LEMMA CrashStoreInv == StoreInv /\ Crash => StoreInv'
BY DEF StoreInv, Crash, NoLockUnlessUp, CreatesDefault, SizesOK, PoolSizeOK,
       EmptyConfig, FileHoldsConfig

\* Steps that change nothing of the store but requests.
held == <<proc, port_override, g_config, file, lock, updated, write_failed>>
LEMMA UnchangedStoreInv == StoreInv /\ UNCHANGED held => StoreInv'
BY DEF held, StoreInv, NoLockUnlessUp, CreatesDefault, SizesOK, PoolSizeOK,
       FileHoldsConfig

\* No step of a panel changes more of the store than requests.
LEMMA PanelsKeepStore ==
  ASSUME NEW p \in Panels, PanelStep(p)
  PROVE  UNCHANGED held
<1> USE DEF held
<1>1. CASE UpdateProviderId(p) \/ UpdateProviderKey(p) \/ AddProvider(p)
           \/ RemoveProvider(p) \/ AddModelRoute(p) \/ RenameModelRoute(p)
           \/ UpdateModelField(p) \/ RemoveModelRoute(p) \/ AddAlias(p)
           \/ RemoveAlias(p)
  <2>1. \A c, what : Edit(p, c, what) => UNCHANGED storeVars
    BY DEF Edit
  <2> QED
    BY <1>1, <2>1
       DEF UpdateProviderId, UpdateProviderKey, AddProvider, RemoveProvider,
           AddModelRoute, RenameModelRoute, UpdateModelField, RemoveModelRoute,
           AddAlias, RemoveAlias, storeVars
<1>2. CASE UpdateModelEffort(p) \/ TypeInput(p)
  BY <1>2 DEF UpdateModelEffort, TypeInput, storeVars
<1>3. CASE LoadConfig(p)
  BY <1>3 DEF LoadConfig, Sends, Send
<1>4. CASE SaveConfig(p)
  BY <1>4 DEF SaveConfig, Sends, Send
<1>5. CASE AnswerShown(p, Loader(p)) \/ AnswerShown(p, Saver(p))
  BY <1>5 DEF AnswerShown, Receive
<1> QED BY <1>1, <1>2, <1>3, <1>4, <1>5 DEF PanelStep

\* Every step keeps the invariant.
LEMMA NextStoreInv == StoreInv /\ [Next]_vars => StoreInv'
<1> SUFFICES ASSUME StoreInv, [Next]_vars PROVE StoreInv'
  OBVIOUS
<1>1. CASE UNCHANGED vars
  BY <1>1, UnchangedStoreInv DEF vars, storeVars, held
<1>2. CASE \E p \in Panels : PanelStep(p)
  BY <1>2, PanelsKeepStore, UnchangedStoreInv
<1>3. CASE \E c \in Scripts : ScriptPosts(c) \/ ScriptReads(c)
  BY <1>3, UnchangedStoreInv DEF ScriptPosts, ScriptReads, Send, Receive, held
<1>4. CASE GatewayStep
  <2>1. CASE \E override \in Overrides : Launch(override)
    BY <2>1, LaunchStoreInv
  <2>2. CASE DefaultsWritten(TRUE)
    BY <2>2, DefaultsWrittenStoreInv
  <2>3. ASSUME NEW c \in Clients,
               Admit(c) \/ Refuse(c) \/ GetConfig(c) \/ PostRefused(c)
        PROVE  StoreInv'
    BY <2>3, UnchangedStoreInv
       DEF Admit, Refuse, GetConfig, PostRefused, Answer, held
  <2>4. ASSUME NEW c \in Clients, BeginSave(c, TRUE) \/ EndSave(c, TRUE)
        PROVE  StoreInv'
    BY <2>4, BeginSaveStoreInv, EndSaveStoreInv
  <2> QED BY <1>4, <2>1, <2>2, <2>3, <2>4 DEF GatewayStep
<1>5. CASE FaultStep
  <2>1. CASE DefaultsWritten(FALSE) \/ Crash
    BY <2>1, DefaultsWrittenStoreInv, CrashStoreInv
  <2>2. ASSUME NEW c \in Clients, SaveThrows(c)
        PROVE  StoreInv'
    BY <2>2, UnchangedStoreInv DEF SaveThrows, Answer, held
  <2>3. ASSUME NEW c \in Clients, BeginSave(c, FALSE) \/ EndSave(c, FALSE)
        PROVE  StoreInv'
    BY <2>3, BeginSaveStoreInv, EndSaveStoreInv
  <2> QED BY <1>5, <2>1, <2>2, <2>3 DEF FaultStep
<1> QED BY <1>1, <1>2, <1>3, <1>4, <1>5 DEF Next

\* A restart brings back what the gateway serves: with no save in progress and no
\* failed write, load turns the file on disk into the configuration in memory, up
\* to the port of the command line (Config::save, Config::load,
\* handle_post_config).
THEOREM FileHoldsConfigHolds == Spec => []FileHoldsConfig
<1>1. StoreInv => FileHoldsConfig
  BY DEF StoreInv
<1> QED BY InitStoreInv, NextStoreInv, <1>1, PTL DEF Spec

--------------------------------------------------------------------------------
(* Secrets that come back masked.                                            *)

\* The mask of a stored secret that comes back stands for the secret
\* (resolve_secret_update).
LEMMA MaskResolved ==
  ASSUME NEW s \in Secrets
  PROVE  ResolveSecretUpdate(MaskOf[s], s) = s
  BY SecretsAssumption DEF ResolveSecretUpdate, IsMaskedReference

\* A list of providers is as g_config has it, masked: each key that the user did not
\* type is the mask of the key that the provider's id has in the configuration.
Mirrors(providers, config, own) ==
  DistinctIds(config) =>
    \A i \in DOMAIN providers :
      providers[i].id \in Ids(config) \ own =>
        providers[i].api_key = MaskOf[KeyOf(config.providers, providers[i].id)]
MirrorsToken(mask, config, own) ==
  "token" \notin own => mask = MaskOf[config.admin_token]

\* What was made from a version of g_config is of the configuration that is served.
Fresh(of) == proc # "down" /\ of = version

\* The inductive invariant: every copy of the configuration, in a panel, in a body on
\* its way and in an answer, knows its version; and while that is the version served
\* it holds the masks of what is served, but for what the user typed.
CopyFields == DOMAIN EmptyConfig \cup {"model_aliases"}
PanelMirrors(p) ==
  /\ DOMAIN view[p] = CopyFields /\ HasKeys(view[p])
  /\ DOMAIN inputs[p] = {"port", "thread_pool_size", "admin_token"}
  /\ inputs[p].admin_token \in Secrets
  /\ seen[p] \in 0..version
  /\ Fresh(seen[p]) => /\ Mirrors(view[p].providers, g_config, typed[p])
                       /\ MirrorsToken(view[p].admin_token, g_config, {})
                       /\ MirrorsToken(inputs[p].admin_token, g_config, typed[p])

Pending(r) == r.pc \in {"sent", "admitted", "saving"}
BodyTyped(r) ==
  Pending(r) => /\ DOMAIN r = {"pc", "method", "token", "body", "note"}
                /\ BodyHasKeys(r.body)
BodyMirrors(r) ==
  Pending(r) =>
    /\ {"providers", "admin_token"} \subseteq DOMAIN r.body /\ HasKeys(r.body)
    /\ r.note.seen \in 0..version
    /\ Fresh(r.note.seen) => /\ Mirrors(r.body.providers, g_config, r.note.typed)
                             /\ MirrorsToken(r.body.admin_token, g_config, r.note.typed)
AnswerMirrors(r) ==
  r.pc = "answered" /\ r.status = 200 =>
    /\ DOMAIN r.content = CopyFields /\ HasKeys(r.content)
    /\ r.note \in 0..version
    /\ Fresh(r.note) => /\ Mirrors(r.content.providers, g_config, {})
                        /\ MirrorsToken(r.content.admin_token, g_config, {})

FileHasKeys == file \notin {Missing, Truncated} => HasKeys(file.json)
LockedSave ==
  lock # NoClient => /\ lock \in Clients /\ req[lock].pc = "saving"
                     /\ updated = UpdatedConfig(g_config, req[lock].body)
Domains ==
  /\ DOMAIN view = Panels /\ DOMAIN inputs = Panels /\ DOMAIN seen = Panels
  /\ DOMAIN typed = Panels /\ DOMAIN req = Clients
RequestsMirror ==
  /\ \A c \in Clients : BodyTyped(req[c]) /\ AnswerMirrors(req[c])
  /\ \A p \in Panels : BodyMirrors(req[Saver(p)])
PanelsMirror == \A p \in Panels : PanelMirrors(p)
SecretsInv ==
  /\ version \in Nat /\ Domains
  /\ HasKeys(g_config) /\ HasKeys(updated) /\ FileHasKeys
  /\ LockedSave /\ RequestsMirror /\ PanelsMirror

\* A sequence consists of its elements.
LEMMA OfItsElements ==
  ASSUME NEW S, NEW s \in Seq(S)
  PROVE  s \in Seq(ToSet(s)) /\ DOMAIN s = 1..Len(s) /\ Len(s) \in Nat
<1>1. DOMAIN s = 1..Len(s) /\ Len(s) \in Nat
  OBVIOUS
<1>2. \A i \in 1..Len(s) : s[i] \in ToSet(s)
  BY <1>1 DEF ToSet
<1>3. s \in Seq(ToSet(s))
  BY <1>2
<1> QED
  BY <1>1, <1>3

\* findProvider finds a provider with the id, or there is none.
LEMMA KeyFound ==
  ASSUME NEW list, list \in Seq(ToSet(list)), NEW id
  PROVE  \/ /\ KeyOf(list, id) = NoSecret
            /\ \A i \in DOMAIN list : list[i].id # id
         \/ \E i \in DOMAIN list : list[i].id = id /\ KeyOf(list, id) = list[i].api_key
<1>1. DOMAIN list = 1..Len(list) /\ Len(list) \in Nat
  BY OfItsElements
<1> DEFINE I == {i \in 1..Len(list) : list[i].id = id}
           at == SelectInSeq(list, LAMBDA p : p.id = id)
<1>2. at = IF I # {} THEN Min(I) ELSE 0
  BY DEF SelectInSeq
<1>3. KeyOf(list, id) = IF at = 0 THEN NoSecret ELSE list[at].api_key
  BY DEF KeyOf
<1> HIDE DEF at
<1>4. CASE I = {}
  BY <1>1, <1>2, <1>3, <1>4
<1>5. CASE I # {}
  <2>1. I \in SUBSET Nat
    BY <1>1
  <2>2. PICK n \in I : \A m \in I : n <= m
    BY <1>5, <2>1, LeastElement
  <2>3. Min(I) \in I
    BY <2>2 DEF Min
  <2>4. at \in 1..Len(list) /\ at # 0 /\ list[at].id = id
    BY <1>1, <1>2, <1>5, <2>3
  <2> QED
    BY <1>1, <1>3, <2>4
<1> QED
  BY <1>4, <1>5

\* The key of an id is a text.
LEMMA KeyIsSecret ==
  ASSUME NEW list, ProviderList(list), NEW id
  PROVE  KeyOf(list, id) \in Secrets
BY KeyFound, SecretsAssumption DEF ProviderList

\* Without two providers of one id the key is that of the provider with the id.
LEMMA KeyOfDistinct ==
  ASSUME NEW config, ProviderList(config.providers), DistinctIds(config),
         NEW i \in DOMAIN config.providers
  PROVE  KeyOf(config.providers, config.providers[i].id) = config.providers[i].api_key
BY KeyFound DEF ProviderList, DistinctIds

\* What an update makes of a key is a text.
LEMMA ResolvedIsSecret ==
  ASSUME NEW new \in Secrets, NEW old \in Secrets
  PROVE  ResolveSecretUpdate(new, old) \in Secrets
BY DEF ResolveSecretUpdate

\* A list of given length.
LEMMA ProvidersListed ==
  ASSUME NEW n \in Nat, NEW f, f = [i \in 1..n |-> f[i]],
         \A i \in 1..n : DOMAIN f[i] = {"id", "api_key"} /\ f[i].api_key \in Secrets
  PROVE  ProviderList(f)
<1> DEFINE S == {f[i] : i \in 1..n}
<1>1. \A i \in 1..n : f[i] \in S
  OBVIOUS
<1> HIDE DEF S
<1>2. f \in [1..n -> S]
  BY <1>1
<1>3. f \in Seq(S)
  BY <1>2
<1> QED
  BY <1>3, OfItsElements DEF ProviderList

\* handle_post_config: the providers of the update.
LEMMA UpdatedProviders ==
  ASSUME NEW config, HasKeys(config), NEW body, BodyHasKeys(body),
         "providers" \in DOMAIN body
  PROVE  LET list == UpdatedConfig(config, body).providers
         IN  /\ ProviderList(list) /\ DOMAIN list = DOMAIN body.providers
             /\ \A i \in DOMAIN list :
                  list[i] = ProviderFromBody(config, body.providers[i])
<1> DEFINE list == UpdatedConfig(config, body).providers
           n == Len(body.providers)
<1>1. DOMAIN body.providers = 1..n /\ n \in Nat
  BY OfItsElements DEF BodyHasKeys
<1>2. list = [i \in DOMAIN body.providers |-> ProviderFromBody(config, body.providers[i])]
  BY DEF UpdatedConfig
<1> HIDE DEF list, n
<1>3. ASSUME NEW i \in 1..n
      PROVE  DOMAIN list[i] = {"id", "api_key"} /\ list[i].api_key \in Secrets
  <2> DEFINE q == body.providers[i]
             old == KeyOf(config.providers, q.id)
  <2>1. list[i] = ProviderFromBody(config, q)
    BY <1>1, <1>2
  <2>2. old \in Secrets
    BY KeyIsSecret DEF HasKeys
  <2>3. "api_key" \in DOMAIN q => q.api_key \in Secrets
    BY <1>1 DEF BodyHasKeys
  <2> HIDE DEF q
  <2>4. list[i] = [id |-> q.id,
                   api_key |-> IF "api_key" \in DOMAIN q
                               THEN ResolveSecretUpdate(q.api_key, old) ELSE old]
    BY <2>1 DEF ProviderFromBody
  <2> HIDE DEF old
  <2> QED
    BY <2>2, <2>3, <2>4, ResolvedIsSecret
<1>4. ProviderList(list)
  <2>1. list = [i \in 1..n |-> list[i]]
    BY <1>1, <1>2
  <2> QED
    BY <1>1, <1>3, <2>1, ProvidersListed
<1> QED
  BY <1>2, <1>4 DEF list

\* An update's keys are texts.
LEMMA UpdatedHasKeys ==
  ASSUME NEW config, HasKeys(config), NEW body, BodyHasKeys(body)
  PROVE  HasKeys(UpdatedConfig(config, body))
<1> DEFINE c == UpdatedConfig(config, body)
<1>1. ProviderList(c.providers)
  <2>1. CASE "providers" \in DOMAIN body
    BY <2>1, UpdatedProviders
  <2>2. CASE "providers" \notin DOMAIN body
    BY <2>2 DEF UpdatedConfig, HasKeys
  <2> QED
    BY <2>1, <2>2
<1>2. c.admin_token = IF "admin_token" \in DOMAIN body
                      THEN ResolveSecretUpdate(body.admin_token, config.admin_token)
                      ELSE config.admin_token
  BY DEF UpdatedConfig
<1> HIDE DEF c
<1>3. c.admin_token \in Secrets
  BY <1>2, ResolvedIsSecret DEF HasKeys, BodyHasKeys
<1> QED
  BY <1>1, <1>3 DEF HasKeys, c

\* What the copies look like after config_to_json: the masks of the configuration.
LEMMA MaskedMirrors ==
  ASSUME NEW config, HasKeys(config)
  PROVE  LET copy == Masked(config)
         IN  /\ DOMAIN copy = CopyFields /\ HasKeys(copy)
             /\ Mirrors(copy.providers, config, {})
             /\ MirrorsToken(copy.admin_token, config, {})
<1> DEFINE copy == Masked(config)
           list == config.providers
           n == Len(list)
<1>1. DOMAIN list = 1..n /\ n \in Nat
  BY OfItsElements DEF HasKeys, ProviderList
<1>2. /\ DOMAIN copy = CopyFields
      /\ copy.admin_token = MaskOf[config.admin_token]
      /\ copy.providers = [i \in DOMAIN list |-> [id |-> list[i].id,
                                                 api_key |-> MaskOf[list[i].api_key]]]
  <2> DEFINE f == FileOf(config)
             masked == [i \in DOMAIN list |-> [id |-> list[i].id,
                                               api_key |-> MaskOf[list[i].api_key]]]
  <2>1. /\ DOMAIN f = CopyFields /\ f.admin_token = config.admin_token
        /\ f.providers = list
    BY DEF FileOf, CopyFields, EmptyConfig
  <2>2. "admin_token" \in CopyFields /\ "providers" \in CopyFields
    BY DEF CopyFields, EmptyConfig
  <2>3. copy = [f EXCEPT !.admin_token = MaskOf[f.admin_token],
                         !.providers = [i \in DOMAIN f.providers |->
                                          [id |-> f.providers[i].id,
                                           api_key |-> MaskOf[f.providers[i].api_key]]]]
    BY DEF Masked
  <2>4. copy = [f EXCEPT !.admin_token = MaskOf[config.admin_token], !.providers = masked]
    BY <2>1, <2>3
  <2> HIDE DEF f, copy, masked
  <2>5. /\ DOMAIN copy = CopyFields /\ copy.admin_token = MaskOf[config.admin_token]
        /\ copy.providers = masked
    BY <2>1, <2>2, <2>4
  <2> QED
    BY <2>5 DEF masked
<1> HIDE DEF copy, n
<1>3. copy.admin_token \in Secrets
  BY <1>2, SecretsAssumption DEF HasKeys
<1>4. ASSUME NEW i \in 1..n
      PROVE  /\ DOMAIN copy.providers[i] = {"id", "api_key"}
             /\ copy.providers[i].api_key = MaskOf[list[i].api_key]
             /\ copy.providers[i].id = list[i].id
             /\ copy.providers[i].api_key \in Secrets
  <2>1. DOMAIN list[i] = {"id", "api_key"} /\ list[i].api_key \in Secrets
    BY <1>1 DEF HasKeys, ProviderList
  <2>2. copy.providers[i] = [id |-> list[i].id, api_key |-> MaskOf[list[i].api_key]]
    BY <1>1, <1>2
  <2> QED
    BY <2>1, <2>2, SecretsAssumption
<1>5. DOMAIN copy.providers = 1..n
  BY <1>1, <1>2
<1>6. ProviderList(copy.providers)
  <2>1. copy.providers = [i \in 1..n |-> copy.providers[i]]
    BY <1>1, <1>2
  <2> QED
    BY <1>1, <1>4, <2>1, ProvidersListed
<1>7. Mirrors(copy.providers, config, {})
  <2>1. ASSUME DistinctIds(config), NEW i \in 1..n
        PROVE  KeyOf(list, list[i].id) = list[i].api_key
    BY <1>1, <2>1, KeyOfDistinct DEF HasKeys
  <2> QED
    BY <1>4, <1>5, <2>1 DEF Mirrors
<1> QED
  BY <1>2, <1>3, <1>6, <1>7 DEF HasKeys, MirrorsToken, copy

\* Configurations with the same keys have the same mirrors.
LEMMA SameMirrors ==
  ASSUME NEW c, NEW d, d.providers = c.providers, d.admin_token = c.admin_token
  PROVE  /\ \A list, own : Mirrors(list, c, own) => Mirrors(list, d, own)
         /\ \A mask, own : MirrorsToken(mask, c, own) => MirrorsToken(mask, d, own)
BY DEF Mirrors, MirrorsToken, DistinctIds, Ids

\* A body that mirrors the configuration leaves every key that was not typed as it is.
LEMMA MirroredKeysKept ==
  ASSUME NEW config, HasKeys(config), NEW body, BodyHasKeys(body), HasKeys(body),
         {"providers", "admin_token"} \subseteq DOMAIN body, NEW own,
         Mirrors(body.providers, config, own), MirrorsToken(body.admin_token, config, own),
         NEW new, new = UpdatedConfig(config, body)
  PROVE  /\ DistinctIds(config) =>
              \A id \in (Ids(config) \cap Ids(new)) \ own :
                KeyOf(new.providers, id) = KeyOf(config.providers, id)
         /\ "token" \notin own => new.admin_token = config.admin_token
<1>1. ASSUME DistinctIds(config), NEW id \in (Ids(config) \cap Ids(new)) \ own
      PROVE  KeyOf(new.providers, id) = KeyOf(config.providers, id)
  <2> DEFINE list == new.providers
             old == KeyOf(config.providers, id)
  <2>1. /\ ProviderList(list) /\ DOMAIN list = DOMAIN body.providers
        /\ \A i \in DOMAIN list : list[i] = ProviderFromBody(config, body.providers[i])
    BY UpdatedProviders
  <2>2. \E i \in DOMAIN list : list[i].id = id
    BY <1>1 DEF Ids
  <2>3. PICK i \in DOMAIN list : list[i].id = id /\ KeyOf(list, id) = list[i].api_key
    BY <2>1, <2>2, KeyFound DEF ProviderList
  <2> DEFINE q == body.providers[i]
  <2>4. "api_key" \in DOMAIN q /\ i \in DOMAIN body.providers
    BY <2>1 DEF HasKeys, ProviderList
  <2>5. list[i] = ProviderFromBody(config, q)
    BY <2>1
  <2> HIDE DEF list, q
  <2>6. q.id = id /\ list[i].api_key = ResolveSecretUpdate(q.api_key, old)
    BY <2>3, <2>4, <2>5 DEF ProviderFromBody
  <2>7. q.api_key = MaskOf[old]
    BY <1>1, <2>4, <2>6 DEF Mirrors, q
  <2>8. old \in Secrets
    BY KeyIsSecret DEF HasKeys
  <2> HIDE DEF old
  <2>9. ResolveSecretUpdate(MaskOf[old], old) = old
    BY <2>8, MaskResolved
  <2> QED
    BY <2>3, <2>6, <2>7, <2>9 DEF list, old
<1>2. ASSUME "token" \notin own PROVE new.admin_token = config.admin_token
  <2>1. new.admin_token = ResolveSecretUpdate(body.admin_token, config.admin_token)
    BY DEF UpdatedConfig
  <2>2. body.admin_token = MaskOf[config.admin_token] /\ config.admin_token \in Secrets
    BY <1>2 DEF MirrorsToken, HasKeys
  <2> QED
    BY <2>1, <2>2, MaskResolved
<1> QED
  BY <1>1, <1>2

\* What a step may do to the configuration that is served: its keys change with its
\* version only.
KeysMove ==
  /\ version' \in Nat /\ version <= version'
  /\ version' = version /\ proc' # "down" =>
       /\ proc # "down"
       /\ g_config'.providers = g_config.providers
       /\ g_config'.admin_token = g_config.admin_token

\* A panel that does nothing.
LEMMA PanelKept ==
  ASSUME NEW p, version \in Nat, KeysMove, PanelMirrors(p),
         view'[p] = view[p], inputs'[p] = inputs[p], seen'[p] = seen[p],
         typed'[p] = typed[p]
  PROVE  PanelMirrors(p)'
<1>1. seen[p] \in 0..version' /\ (Fresh(seen[p])' => Fresh(seen[p]))
  BY DEF KeysMove, PanelMirrors, Fresh
<1>2. ASSUME Fresh(seen[p])'
      PROVE  /\ Mirrors(view[p].providers, g_config', typed[p])
             /\ MirrorsToken(view[p].admin_token, g_config', {})
             /\ MirrorsToken(inputs[p].admin_token, g_config', typed[p])
  <2>1. Fresh(seen[p]) /\ version' = version /\ proc' # "down"
    BY <1>1, <1>2 DEF Fresh, PanelMirrors, KeysMove
  <2>2. /\ g_config'.providers = g_config.providers
        /\ g_config'.admin_token = g_config.admin_token
    BY <2>1 DEF KeysMove
  <2> QED
    BY <2>1, <2>2, SameMirrors DEF PanelMirrors
<1> QED
  BY <1>1, <1>2 DEF PanelMirrors

\* A request that nobody touches.
LEMMA AnswerKept ==
  ASSUME NEW c, version \in Nat, KeysMove, AnswerMirrors(req[c]), req'[c] = req[c]
  PROVE  AnswerMirrors(req[c])'
<1> DEFINE r == req[c]
<1>1. SUFFICES ASSUME r.pc = "answered", r.status = 200 PROVE AnswerMirrors(r)'
  BY DEF AnswerMirrors
<1>2. /\ DOMAIN r.content = CopyFields /\ HasKeys(r.content) /\ r.note \in 0..version'
      /\ r' = r
  BY <1>1 DEF AnswerMirrors, KeysMove
<1>3. ASSUME Fresh(r.note)'
      PROVE  /\ Mirrors(r.content.providers, g_config', {})
             /\ MirrorsToken(r.content.admin_token, g_config', {})
  <2>1. Fresh(r.note) /\ version' = version /\ proc' # "down"
    BY <1>1, <1>2, <1>3 DEF Fresh, AnswerMirrors, KeysMove
  <2>2. /\ g_config'.providers = g_config.providers
        /\ g_config'.admin_token = g_config.admin_token
    BY <2>1 DEF KeysMove
  <2> QED
    BY <1>1, <2>1, <2>2, SameMirrors DEF AnswerMirrors
<1> QED
  BY <1>2, <1>3 DEF AnswerMirrors

\* A body that nobody touches, on its way or answered.
LEMMA BodyKept ==
  ASSUME NEW c, version \in Nat, KeysMove, BodyMirrors(req[c]),
         Pending(req[c])' => /\ Pending(req[c]) /\ req'[c].body = req[c].body
                             /\ req'[c].note = req[c].note
  PROVE  BodyMirrors(req[c])'
<1> DEFINE r == req[c]
<1>1. SUFFICES ASSUME Pending(r)' PROVE BodyMirrors(r)'
  BY DEF BodyMirrors
<1>2. /\ {"providers", "admin_token"} \subseteq DOMAIN r.body /\ HasKeys(r.body)
      /\ r.note.seen \in 0..version' /\ r'.body = r.body /\ r'.note = r.note
      /\ r.note.seen \in 0..version
  BY <1>1 DEF BodyMirrors, KeysMove
<1>3. ASSUME Fresh(r.note.seen)'
      PROVE  /\ Mirrors(r.body.providers, g_config', r.note.typed)
             /\ MirrorsToken(r.body.admin_token, g_config', r.note.typed)
  <2>1. Fresh(r.note.seen) /\ version' = version /\ proc' # "down"
    BY <1>2, <1>3 DEF Fresh, KeysMove
  <2>2. /\ g_config'.providers = g_config.providers
        /\ g_config'.admin_token = g_config.admin_token
    BY <2>1 DEF KeysMove
  <2> QED
    BY <1>1, <2>1, <2>2, SameMirrors DEF BodyMirrors
<1> QED
  BY <1>2, <1>3 DEF BodyMirrors

\* The clients of a panel.
LEMMA SaversOfPanels ==
  /\ \A p \in Panels : Saver(p) \in Clients /\ Loader(p) \in Clients
  /\ \A p, q \in Panels : Saver(p) = Saver(q) => p = q
  /\ \A p, q \in Panels : Saver(p) # Loader(q)
BY PanelsAssumption DEF Saver, Loader

\* A step of one request that is of nobody, answered, or goes on.
LEMMA OneRequest ==
  ASSUME SecretsInv, KeysMove, NEW c \in Clients, DOMAIN req' = Clients,
         \A d \in Clients \ {c} : req'[d] = req[d],
         BodyTyped(req[c])', AnswerMirrors(req[c])',
         \A p \in Panels : c = Saver(p) => BodyMirrors(req[Saver(p)])'
  PROVE  RequestsMirror'
<1>1. version \in Nat /\ RequestsMirror
  BY DEF SecretsInv
<1>2. ASSUME NEW d \in Clients, d # c
      PROVE  BodyTyped(req[d])' /\ AnswerMirrors(req[d])'
  <2>1. req'[d] = req[d] /\ BodyTyped(req[d]) /\ AnswerMirrors(req[d])
    BY <1>1, <1>2 DEF RequestsMirror
  <2>2. BodyTyped(req[d])'
    BY <2>1 DEF BodyTyped, Pending
  <2> QED
    BY <1>1, <2>1, <2>2, AnswerKept
<1>3. ASSUME NEW p \in Panels, c # Saver(p)
      PROVE  BodyMirrors(req[Saver(p)])'
  <2> DEFINE d == Saver(p)
  <2>1. req'[d] = req[d] /\ BodyMirrors(req[d])
    BY <1>1, <1>3, SaversOfPanels DEF RequestsMirror
  <2>2. Pending(req[d])' => Pending(req[d])
    BY <2>1 DEF Pending
  <2> HIDE DEF d
  <2>3. BodyMirrors(req[d])'
    BY <1>1, <2>1, <2>2, BodyKept
  <2> QED
    BY <2>3 DEF d
<1> QED
  BY <1>2, <1>3 DEF RequestsMirror

\* All panels keep their copies.
copies == <<view, inputs, seen, typed>>
LEMMA PanelsKept ==
  ASSUME SecretsInv, KeysMove, UNCHANGED copies
  PROVE  PanelsMirror' /\ (DOMAIN view = Panels /\ DOMAIN inputs = Panels
                           /\ DOMAIN seen = Panels /\ DOMAIN typed = Panels)'
<1>1. version \in Nat /\ Domains /\ PanelsMirror
  BY DEF SecretsInv
<1>2. view' = view /\ inputs' = inputs /\ seen' = seen /\ typed' = typed
  BY DEF copies
<1>3. ASSUME NEW p \in Panels PROVE PanelMirrors(p)'
  BY <1>1, <1>2, PanelKept DEF PanelsMirror
<1> QED
  BY <1>1, <1>2, <1>3 DEF Domains, PanelsMirror

--------------------------------------------------------------------------------
(* The steps of the gateway keep the mirrors.                                *)

\* What is served stays.
LEMMA QuietKeysMove ==
  ASSUME version \in Nat, UNCHANGED <<proc, g_config, version>> PROVE KeysMove
BY DEF KeysMove

\* A step that moves one request that holds no lock, and changes nothing else of
\* the store.
quiet == <<proc, g_config, file, lock, updated, version>>
LEMMA RequestStep ==
  ASSUME SecretsInv, UNCHANGED quiet, UNCHANGED copies, NEW c \in Clients,
         DOMAIN req' = Clients, \A d \in Clients \ {c} : req'[d] = req[d],
         lock # c \/ lock = NoClient, BodyTyped(req[c])', AnswerMirrors(req[c])',
         \A p \in Panels : c = Saver(p) => BodyMirrors(req[Saver(p)])'
  PROVE  SecretsInv'
<1>1. KeysMove /\ version' \in Nat
  BY QuietKeysMove DEF SecretsInv, quiet
<1>2. RequestsMirror'
  BY <1>1, OneRequest
<1>3. PanelsMirror' /\ Domains'
  BY <1>1, PanelsKept DEF Domains
<1>4. LockedSave'
  <2>1. ASSUME lock # NoClient
        PROVE  lock' = lock /\ lock \in Clients \ {c} /\ req'[lock] = req[lock]
    BY <2>1 DEF SecretsInv, LockedSave, quiet
  <2> QED
    BY <2>1 DEF SecretsInv, LockedSave, quiet
<1>5. HasKeys(g_config)' /\ HasKeys(updated)' /\ FileHasKeys'
  BY DEF SecretsInv, FileHasKeys, quiet
<1> QED
  BY <1>1, <1>2, <1>3, <1>4, <1>5 DEF SecretsInv

\* What does not show anything of the configuration.
LEMMA AnswerSecrets ==
  ASSUME SecretsInv, NEW c \in Clients, NEW status, status # 200, NEW content,
         lock # c \/ lock = NoClient, Answer(c, status, content), UNCHANGED copies
  PROVE  SecretsInv'
<1>1. UNCHANGED quiet
  BY DEF Answer, quiet
<1>2. /\ DOMAIN req' = Clients /\ \A d \in Clients \ {c} : req'[d] = req[d]
      /\ req'[c] = Answered(req[c], status, content)
  BY DEF Answer, SecretsInv, Domains
<1>3. req'[c].pc = "answered" /\ req'[c].status = status
  BY <1>2 DEF Answered
<1>4. BodyTyped(req[c])' /\ AnswerMirrors(req[c])'
  BY <1>3 DEF BodyTyped, AnswerMirrors, Pending
<1>5. \A p \in Panels : c = Saver(p) => BodyMirrors(req[Saver(p)])'
  BY <1>3 DEF BodyMirrors, Pending
<1> QED
  BY <1>1, <1>2, <1>4, <1>5, RequestStep

\* A request is let in.
LEMMA AdmitSecrets ==
  ASSUME SecretsInv, NEW c \in Clients, Admit(c), UNCHANGED copies
  PROVE  SecretsInv'
<1>1. UNCHANGED quiet /\ lock = NoClient
  BY DEF Admit, quiet
<1>2. Pending(req[c]) /\ BodyTyped(req[c]) /\ version \in Nat
  BY DEF Admit, Pending, SecretsInv, RequestsMirror
<1>3. /\ DOMAIN req' = Clients /\ \A d \in Clients \ {c} : req'[d] = req[d]
      /\ req'[c] = [req[c] EXCEPT !.pc = "admitted"]
  BY DEF Admit, SecretsInv, Domains
<1>4. /\ req'[c].pc = "admitted" /\ DOMAIN req'[c] = DOMAIN req[c]
      /\ req'[c].body = req[c].body /\ req'[c].note = req[c].note
  BY <1>2, <1>3 DEF BodyTyped
<1>5. BodyTyped(req[c])' /\ AnswerMirrors(req[c])'
  BY <1>2, <1>4 DEF BodyTyped, AnswerMirrors, Pending
<1>6. ASSUME NEW p \in Panels, c = Saver(p) PROVE BodyMirrors(req[c])'
  <2>1. BodyMirrors(req[c])
    BY <1>6 DEF SecretsInv, RequestsMirror
  <2>2. KeysMove
    BY <1>1, <1>2, QuietKeysMove DEF quiet
  <2> QED
    BY <1>2, <1>4, <2>1, <2>2, BodyKept
<1> QED
  BY <1>1, <1>3, <1>5, <1>6, RequestStep

\* An answer with the configuration served.
LEMMA GetConfigSecrets ==
  ASSUME SecretsInv, NEW c \in Clients, GetConfig(c), UNCHANGED copies
  PROVE  SecretsInv'
<1>1. UNCHANGED quiet /\ lock = NoClient /\ proc' = proc /\ version' = version
      /\ g_config' = g_config
  BY DEF GetConfig, quiet
<1>2. /\ DOMAIN req' = Clients /\ \A d \in Clients \ {c} : req'[d] = req[d]
      /\ req'[c] = [Answered(req[c], 200, Masked(g_config)) EXCEPT !.note = version]
  BY DEF GetConfig, SecretsInv, Domains
<1>3. /\ req'[c].pc = "answered" /\ req'[c].content = Masked(g_config)
      /\ req'[c].note = version
  BY <1>2 DEF Answered
<1>4. version \in 0..version /\ HasKeys(g_config)
  BY DEF SecretsInv
<1>5. BodyTyped(req[c])' /\ AnswerMirrors(req[c])'
  BY <1>1, <1>3, <1>4, MaskedMirrors DEF BodyTyped, AnswerMirrors, Pending
<1>6. \A p \in Panels : c = Saver(p) => BodyMirrors(req[Saver(p)])'
  BY <1>3 DEF BodyMirrors, Pending
<1> QED
  BY <1>1, <1>2, <1>5, <1>6, RequestStep

\* The client has read the answer.
LEMMA ReceiveSecrets ==
  ASSUME SecretsInv, NEW c \in Clients, Receive(c), UNCHANGED copies
  PROVE  SecretsInv'
<1>2. UNCHANGED quiet /\ (lock # c \/ lock = NoClient)
  BY DEF Receive, quiet, SecretsInv, LockedSave
<1>3. /\ DOMAIN req' = Clients /\ \A d \in Clients \ {c} : req'[d] = req[d]
      /\ req'[c].pc = "idle"
  BY DEF Receive, SecretsInv, Domains, Idle
<1>4. BodyTyped(req[c])' /\ AnswerMirrors(req[c])'
  BY <1>3 DEF BodyTyped, AnswerMirrors, Pending
<1>5. \A p \in Panels : c = Saver(p) => BodyMirrors(req[Saver(p)])'
  BY <1>3 DEF BodyMirrors, Pending
<1> QED
  BY <1>2, <1>3, <1>4, <1>5, RequestStep

\* A script sends a body.
LEMMA ScriptSecrets ==
  ASSUME SecretsInv, NEW c \in Scripts, ScriptPosts(c)
  PROVE  SecretsInv'
<1>1. PICK body \in ScriptBodies :
        Send(c, Request("POST", g_config.admin_token, body, NoContent))
  BY DEF ScriptPosts
<1>2. c \in Clients /\ \A p \in Panels : c # Saver(p)
  BY DEF Scripts, Saver
<1>3. UNCHANGED quiet /\ UNCHANGED copies /\ (lock # c \/ lock = NoClient)
  BY <1>1, <1>2 DEF ScriptPosts, panelVars, copies, Send, quiet, SecretsInv, LockedSave, Idle
<1>4. /\ DOMAIN req' = Clients /\ \A d \in Clients \ {c} : req'[d] = req[d]
      /\ req'[c] = Request("POST", g_config.admin_token, body, NoContent)
  BY <1>1, <1>2 DEF Send, SecretsInv, Domains
<1>5. BodyHasKeys(body)
  BY KeysAssumption
<1>6. BodyTyped(req[c])' /\ AnswerMirrors(req[c])'
  BY <1>4, <1>5 DEF BodyTyped, AnswerMirrors, Pending, Request
<1> QED
  BY <1>2, <1>3, <1>4, <1>6, RequestStep

\* A save begins: what is saved is made of g_config and the body.
LEMMA BeginSaveSecrets ==
  ASSUME SecretsInv, NEW c \in Clients, NEW ok \in BOOLEAN, BeginSave(c, ok),
         UNCHANGED copies
  PROVE  SecretsInv'
<1>1. /\ proc' = proc /\ version' = version /\ g_config' = g_config
      /\ version \in Nat /\ lock' = c
      /\ updated' = UpdatedConfig(g_config, req[c].body)
      /\ file' = IF ok THEN Truncated ELSE file
  BY DEF BeginSave, SecretsInv
<1>2. Pending(req[c]) /\ BodyTyped(req[c]) /\ HasKeys(g_config)
  BY DEF BeginSave, Posts, Pending, SecretsInv, RequestsMirror
<1>3. /\ DOMAIN req' = Clients /\ \A d \in Clients \ {c} : req'[d] = req[d]
      /\ req'[c] = [req[c] EXCEPT !.pc = "saving"]
  BY DEF BeginSave, SecretsInv, Domains
<1>4. /\ req'[c].pc = "saving" /\ DOMAIN req'[c] = DOMAIN req[c]
      /\ req'[c].body = req[c].body /\ req'[c].note = req[c].note
  BY <1>2, <1>3 DEF BodyTyped
<1>5. BodyTyped(req[c])' /\ AnswerMirrors(req[c])'
  BY <1>2, <1>4 DEF BodyTyped, AnswerMirrors, Pending
<1>6. KeysMove /\ version' \in Nat
  BY <1>1, QuietKeysMove
<1>7. ASSUME NEW p \in Panels, c = Saver(p) PROVE BodyMirrors(req[c])'
  <2>1. BodyMirrors(req[c])
    BY <1>7 DEF SecretsInv, RequestsMirror
  <2> QED
    BY <1>1, <1>2, <1>4, <1>6, <2>1, BodyKept
<1>8. RequestsMirror'
  BY <1>3, <1>5, <1>6, <1>7, OneRequest
<1>9. PanelsMirror' /\ Domains'
  BY <1>3, <1>6, PanelsKept DEF Domains
<1>10. LockedSave'
  BY <1>1, <1>4 DEF LockedSave
<1>11. HasKeys(updated)'
  BY <1>1, <1>2, UpdatedHasKeys DEF BodyTyped
<1>12. FileHasKeys' /\ HasKeys(g_config)'
  BY <1>1 DEF SecretsInv, FileHasKeys
<1> QED
  BY <1>6, <1>8, <1>9, <1>10, <1>11, <1>12 DEF SecretsInv

\* The empty configuration has keys, the empty text among them.
LEMMA EmptyHasKeys == HasKeys(EmptyConfig)
<1>1. EmptyConfig.providers = <<>> /\ EmptyConfig.admin_token = NoSecret
  BY DEF EmptyConfig
<1>2. <<>> \in Seq(ToSet(<<>>)) /\ DOMAIN <<>> = {}
  OBVIOUS
<1> QED
  BY <1>1, <1>2, SecretsAssumption DEF HasKeys, ProviderList

\* What is written has the keys of what is saved.
LEMMA WrittenHasKeys ==
  ASSUME NEW config, HasKeys(config)
  PROVE  HasKeys(Whole(FileOf(config)).json)
BY DEF HasKeys, Whole, FileOf

\* A save ends: its client is shown what is served from now on.
LEMMA EndSaveSecrets ==
  ASSUME SecretsInv, NEW c \in Clients, NEW ok \in BOOLEAN, EndSave(c, ok),
         UNCHANGED copies
  PROVE  SecretsInv'
<1>1. /\ version' = version + 1 /\ version \in Nat /\ version' \in Nat
      /\ g_config' = updated /\ HasKeys(updated) /\ updated' = EmptyConfig
      /\ lock' = NoClient
      /\ file' = IF ok /\ ~write_failed THEN Whole(FileOf(updated)) ELSE file
  BY DEF EndSave, SecretsInv
<1>2. /\ DOMAIN req' = Clients /\ \A d \in Clients \ {c} : req'[d] = req[d]
      /\ req'[c] = [Answered(req[c], 200, Masked(updated)) EXCEPT !.note = version + 1]
  BY DEF EndSave, SecretsInv, Domains
<1>3. /\ req'[c].pc = "answered" /\ req'[c].content = Masked(updated)
      /\ req'[c].note = version'
  BY <1>1, <1>2 DEF Answered
<1>4. KeysMove
  BY <1>1 DEF KeysMove
<1>5. BodyTyped(req[c])' /\ AnswerMirrors(req[c])'
  BY <1>1, <1>3, MaskedMirrors DEF BodyTyped, AnswerMirrors, Pending
<1>6. \A p \in Panels : c = Saver(p) => BodyMirrors(req[Saver(p)])'
  BY <1>3 DEF BodyMirrors, Pending
<1>7. RequestsMirror'
  BY <1>2, <1>4, <1>5, <1>6, OneRequest
<1>8. PanelsMirror' /\ Domains'
  BY <1>2, <1>4, PanelsKept DEF Domains
<1>9. FileHasKeys'
  BY <1>1, WrittenHasKeys DEF SecretsInv, FileHasKeys
<1> QED
  BY <1>1, <1>7, <1>8, <1>9, EmptyHasKeys DEF SecretsInv, LockedSave

\* Steps of the process: each request stays or is answered without a content.
LEMMA ProcessStep ==
  ASSUME SecretsInv, KeysMove, UNCHANGED copies, DOMAIN req' = Clients,
         \A c \in Clients : \/ req'[c] = req[c]
                            \/ req'[c].pc = "answered" /\ req'[c].status # 200
  PROVE  RequestsMirror' /\ PanelsMirror' /\ Domains'
<1>1. version \in Nat /\ RequestsMirror
  BY DEF SecretsInv
<1>2. ASSUME NEW c \in Clients
      PROVE  BodyTyped(req[c])' /\ AnswerMirrors(req[c])'
  <2>1. CASE req'[c] = req[c]
    <3>1. AnswerMirrors(req[c])'
      BY <1>1, <2>1, AnswerKept DEF RequestsMirror
    <3> QED
      BY <1>1, <2>1, <3>1 DEF RequestsMirror, BodyTyped, Pending
  <2>2. CASE req'[c].pc = "answered" /\ req'[c].status # 200
    BY <2>2 DEF BodyTyped, AnswerMirrors, Pending
  <2> QED
    BY <2>1, <2>2
<1>3. ASSUME NEW p \in Panels PROVE BodyMirrors(req[Saver(p)])'
  <2> DEFINE d == Saver(p)
  <2>1. d \in Clients /\ BodyMirrors(req[d])
    BY <1>1, SaversOfPanels DEF RequestsMirror
  <2>2. Pending(req[d])' => /\ Pending(req[d]) /\ req'[d].body = req[d].body
                            /\ req'[d].note = req[d].note
    BY <2>1 DEF Pending
  <2> HIDE DEF d
  <2>3. BodyMirrors(req[d])'
    BY <1>1, <2>1, <2>2, BodyKept
  <2> QED
    BY <2>3 DEF d
<1> QED
  BY <1>2, <1>3, PanelsKept DEF RequestsMirror, Domains

\* load gives texts, with the port of the command line or without.
LEMMA LoadedHasKeys ==
  ASSUME FileHasKeys, file # Missing, NEW override
  PROVE  HasKeys(WithPort(Load(file), override))
<1>1. HasKeys(Load(file))
  <2>1. CASE file.kind = "truncated"
    BY <2>1, EmptyHasKeys DEF Load
  <2>2. CASE file.kind # "truncated"
    <3>1. HasKeys(file.json)
      BY <2>2 DEF FileHasKeys, Truncated
    <3>2. /\ Load(file).providers = file.json.providers
          /\ Load(file).admin_token = file.json.admin_token
      BY <2>2 DEF Load
    <3> QED
      BY <3>1, <3>2 DEF HasKeys
  <2> QED
    BY <2>1, <2>2
<1> QED
  BY <1>1, LoadedFields, OverriddenPort DEF HasKeys

\* A launch serves what the file holds, or the default.
LEMMA LaunchSecrets ==
  ASSUME StoreInv, SecretsInv, NEW override, Launch(override), UNCHANGED copies
  PROVE  SecretsInv'
<1>1. /\ version' = version + 1 /\ version \in Nat /\ version' \in Nat /\ req' = req
      /\ lock = NoClient /\ lock' = NoClient /\ updated' = updated
      /\ DOMAIN req = Clients
  BY DEF Launch, SecretsInv, StoreInv, NoLockUnlessUp, Domains
<1>2. KeysMove
  BY <1>1 DEF KeysMove
<1>3. RequestsMirror' /\ PanelsMirror' /\ Domains'
  BY <1>1, <1>2, ProcessStep
<1>4. HasKeys(g_config)' /\ FileHasKeys'
  <2>1. CASE file = Missing
    BY <2>1, KeysAssumption DEF Launch, FileHasKeys
  <2>2. CASE file # Missing
    BY <2>2, LoadedHasKeys DEF Launch, SecretsInv, FileHasKeys
  <2> QED
    BY <2>1, <2>2
<1> QED
  BY <1>1, <1>3, <1>4 DEF SecretsInv, LockedSave

\* The first file is written, and the port is overridden.
LEMMA DefaultsWrittenSecrets ==
  ASSUME StoreInv, SecretsInv, NEW ok \in BOOLEAN, DefaultsWritten(ok),
         UNCHANGED copies
  PROVE  SecretsInv'
<1>1. /\ version' = version /\ version \in Nat /\ req' = req /\ proc = "creating"
      /\ lock = NoClient /\ lock' = NoClient /\ updated' = updated
      /\ DOMAIN req = Clients /\ g_config' = WithPort(g_config, port_override)
      /\ DOMAIN g_config = DOMAIN EmptyConfig
      /\ file' = IF ok THEN Whole(FileOf(g_config)) ELSE file
  BY DefaultConfigAssumption
     DEF DefaultsWritten, SecretsInv, StoreInv, NoLockUnlessUp, CreatesDefault, Domains
<1>2. /\ g_config'.providers = g_config.providers
      /\ g_config'.admin_token = g_config.admin_token
  BY <1>1, OverriddenPort
<1>3. KeysMove
  BY <1>1, <1>2 DEF KeysMove
<1>4. RequestsMirror' /\ PanelsMirror' /\ Domains'
  BY <1>1, <1>3, ProcessStep
<1>5. HasKeys(g_config)' /\ FileHasKeys'
  BY <1>1, <1>2, WrittenHasKeys DEF SecretsInv, HasKeys, FileHasKeys
<1> QED
  BY <1>1, <1>4, <1>5 DEF SecretsInv, LockedSave

\* The process dies; nothing is served.
LEMMA CrashSecrets ==
  ASSUME SecretsInv, Crash, UNCHANGED copies
  PROVE  SecretsInv'
<1>1. /\ version' = version /\ version \in Nat /\ proc' = "down" /\ lock' = NoClient
      /\ g_config' = EmptyConfig /\ updated' = EmptyConfig /\ file' = file
      /\ DOMAIN req' = Clients
  BY DEF Crash, SecretsInv
<1>2. KeysMove
  BY <1>1 DEF KeysMove
<1>3. ASSUME NEW c \in Clients, req'[c] # req[c]
      PROVE  req'[c].pc = "answered" /\ req'[c].status # 200
  <2>1. req'[c] = Answered(req[c], 0, NoContent)
    BY <1>3 DEF Crash
  <2> QED
    BY <2>1 DEF Answered
<1>4. RequestsMirror' /\ PanelsMirror' /\ Domains'
  BY <1>1, <1>2, <1>3, ProcessStep
<1> QED
  BY <1>1, <1>4, EmptyHasKeys DEF SecretsInv, LockedSave, FileHasKeys

--------------------------------------------------------------------------------
(* The steps of the panels keep the mirrors.                                 *)

\* ensureConfigShape and syncCurrentFormStateFromDom leave keys and token alone.
LEMMA ShapedKeys ==
  ASSUME NEW c, DOMAIN c = CopyFields
  PROVE  /\ DOMAIN Shaped(c) = CopyFields /\ Shaped(c).providers = c.providers
         /\ Shaped(c).admin_token = c.admin_token
         /\ DOMAIN FormState(c) = CopyFields /\ FormState(c).providers = c.providers
         /\ FormState(c).admin_token = c.admin_token
<1>1. \A a, b, d : LET s == [c EXCEPT !.models = a, !.model_aliases = b,
                                      !.thread_pool_size = d]
                   IN  /\ DOMAIN s = CopyFields /\ s.providers = c.providers
                       /\ s.admin_token = c.admin_token
  OBVIOUS
<1>2. \A a, b, d : LET s == [c EXCEPT !.models = a, !.aliases = b, !.model_aliases = d]
                   IN  /\ DOMAIN s = CopyFields /\ s.providers = c.providers
                       /\ s.admin_token = c.admin_token
  OBVIOUS
<1>3. \E a, b, d : Shaped(c) = [c EXCEPT !.models = a, !.model_aliases = b,
                                         !.thread_pool_size = d]
  BY DEF Shaped
<1>4. \/ FormState(c) = c
      \/ \E a, b, d : FormState(c) = [c EXCEPT !.models = a, !.aliases = b,
                                               !.model_aliases = d]
  BY DEF FormState
<1>5. /\ DOMAIN Shaped(c) = CopyFields /\ Shaped(c).providers = c.providers
      /\ Shaped(c).admin_token = c.admin_token
  <2>1. PICK a, b, d : Shaped(c) = [c EXCEPT !.models = a, !.model_aliases = b,
                                             !.thread_pool_size = d]
    BY <1>3
  <2> QED
    BY <1>1, <2>1
<1>6. /\ DOMAIN FormState(c) = CopyFields /\ FormState(c).providers = c.providers
      /\ FormState(c).admin_token = c.admin_token
  <2>1. CASE FormState(c) = c
    BY <2>1
  <2>2. ASSUME NEW a, NEW b, NEW d,
               FormState(c) = [c EXCEPT !.models = a, !.aliases = b, !.model_aliases = d]
        PROVE  /\ DOMAIN FormState(c) = CopyFields /\ FormState(c).providers = c.providers
               /\ FormState(c).admin_token = c.admin_token
    BY <1>2, <2>2
  <2> QED
    BY <1>4, <2>1, <2>2
<1> QED
  BY <1>5, <1>6

\* A panel does something; the store and the other panels stay.
LEMMA OnePanel ==
  ASSUME SecretsInv, UNCHANGED storeVars, NEW p \in Panels, Domains',
         \A q \in Panels \ {p} : /\ view'[q] = view[q] /\ inputs'[q] = inputs[q]
                                 /\ seen'[q] = seen[q] /\ typed'[q] = typed[q],
         PanelMirrors(p)'
  PROVE  SecretsInv'
<1>1. /\ version \in Nat /\ proc' = proc /\ version' = version /\ req' = req
      /\ g_config' = g_config /\ updated' = updated /\ file' = file /\ lock' = lock
  BY DEF SecretsInv, storeVars
<1>2. KeysMove
  BY <1>1, QuietKeysMove
<1>3. ASSUME NEW q \in Panels PROVE PanelMirrors(q)'
  BY <1>1, <1>2, PanelKept DEF SecretsInv, PanelsMirror
<1>4. PanelsMirror'
  BY <1>3 DEF PanelsMirror
<1>5. RequestsMirror'
  BY <1>1 DEF SecretsInv, RequestsMirror, BodyTyped, BodyMirrors, AnswerMirrors, Pending,
              Fresh
<1> QED
  BY <1>1, <1>4, <1>5 DEF SecretsInv, LockedSave, FileHasKeys

\* An edit: the providers the user has now mirror what the old ones did, but for what
\* was typed.
MirrorsOn(list, own, new, what) ==
  \A config : Mirrors(list, config, own) => Mirrors(new, config, own \cup what)
LEMMA EditSecrets ==
  ASSUME SecretsInv, NEW p \in Panels, NEW c, NEW what, Edit(p, c, what),
         DOMAIN c = CopyFields, ProviderList(c.providers),
         c.admin_token = view[p].admin_token,
         MirrorsOn(view[p].providers, typed[p], c.providers, what)
  PROVE  SecretsInv'
<1> DEFINE s == Shaped(c)
<1>1. /\ DOMAIN s = CopyFields /\ s.providers = c.providers
      /\ s.admin_token = c.admin_token
  BY ShapedKeys
<1>2. UNCHANGED storeVars /\ seen' = seen /\ proc' = proc /\ version' = version
      /\ g_config' = g_config /\ req' = req
  BY DEF Edit, storeVars
<1> HIDE DEF s
<1>3. /\ view' = [view EXCEPT ![p] = s] /\ inputs' = [inputs EXCEPT ![p] = InputsOf(s)]
      /\ typed' = [typed EXCEPT ![p] = @ \cup what]
  BY DEF Edit, s
<1>4. Domains /\ PanelMirrors(p) /\ version \in Nat
  BY DEF SecretsInv, PanelsMirror
<1>5. /\ view'[p] = s /\ inputs'[p] = InputsOf(s) /\ typed'[p] = typed[p] \cup what
      /\ \A q \in Panels \ {p} : /\ view'[q] = view[q] /\ inputs'[q] = inputs[q]
                                 /\ typed'[q] = typed[q]
  BY <1>3, <1>4 DEF Domains
<1>6. Domains'
  BY <1>2, <1>3, <1>4 DEF Domains
<1>7. /\ DOMAIN InputsOf(s) = {"port", "thread_pool_size", "admin_token"}
      /\ InputsOf(s).admin_token = c.admin_token
  BY <1>1 DEF InputsOf
<1>8. HasKeys(s) /\ c.admin_token \in Secrets
  BY <1>1, <1>4 DEF HasKeys, PanelMirrors
<1>9. ASSUME Fresh(seen[p])
      PROVE  /\ Mirrors(s.providers, g_config, typed[p] \cup what)
             /\ MirrorsToken(s.admin_token, g_config, {})
             /\ MirrorsToken(c.admin_token, g_config, typed[p] \cup what)
  BY <1>1, <1>4, <1>9 DEF PanelMirrors, MirrorsOn, MirrorsToken
<1>10. PanelMirrors(p)'
  BY <1>1, <1>2, <1>4, <1>5, <1>7, <1>8, <1>9 DEF PanelMirrors, Fresh
<1> QED
  BY <1>2, <1>5, <1>6, <1>10, OnePanel

\* Providers taken from a list, and one that the user typed.
LEMMA TakenMirrors ==
  ASSUME NEW list, ProviderList(list), NEW S, NEW new \in Seq(S), NEW own, NEW what,
         \A i \in DOMAIN new : \/ \E j \in DOMAIN list : new[i] = list[j]
                               \/ /\ DOMAIN new[i] = {"id", "api_key"}
                                  /\ new[i].api_key \in Secrets /\ new[i].id \in what
  PROVE  ProviderList(new) /\ MirrorsOn(list, own, new, what)
<1>1. ProviderList(new)
  BY OfItsElements DEF ProviderList
<1>2. ASSUME NEW config, Mirrors(list, config, own), DistinctIds(config),
             NEW i \in DOMAIN new, new[i].id \in Ids(config) \ (own \cup what)
      PROVE  new[i].api_key = MaskOf[KeyOf(config.providers, new[i].id)]
  <2>1. PICK j \in DOMAIN list : new[i] = list[j]
    BY <1>2
  <2> QED
    BY <1>2, <2>1 DEF Mirrors
<1> QED
  BY <1>1, <1>2 DEF MirrorsOn, Mirrors

\* Nothing is done to the providers.
LEMMA SameProviders ==
  ASSUME NEW list, NEW own, NEW what PROVE MirrorsOn(list, own, list, what)
BY DEF MirrorsOn, Mirrors

\* A list is a sequence if it is a function on places.
LEMMA PlacesListed ==
  ASSUME NEW n \in Nat, NEW f, f = [i \in 1..n |-> f[i]]
  PROVE  f \in Seq(ToSet(f))
<1>1. DOMAIN f = 1..n
  OBVIOUS
<1>2. \A i \in 1..n : f[i] \in ToSet(f)
  BY <1>1 DEF ToSet
<1>3. f \in [1..n -> ToSet(f)]
  BY <1>2
<1> QED
  BY <1>3

\* What a panel's copy is.
LEMMA CopyOfPanel ==
  ASSUME SecretsInv, NEW p \in Panels
  PROVE  /\ DOMAIN view[p] = CopyFields /\ ProviderList(view[p].providers)
         /\ "providers" \in CopyFields /\ "admin_token" \in CopyFields
         /\ "models" \in CopyFields /\ "aliases" \in CopyFields
         /\ "model_aliases" \in CopyFields
BY DEF SecretsInv, PanelsMirror, PanelMirrors, HasKeys, CopyFields, EmptyConfig

\* One provider of a list gets another id or another key.
LEMMA ChangedProvider ==
  ASSUME NEW list, ProviderList(list), NEW i \in DOMAIN list, NEW x,
         DOMAIN x = {"id", "api_key"}, x.api_key \in Secrets, NEW own, NEW what,
         x.id \in what, NEW new, new = [list EXCEPT ![i] = x]
  PROVE  ProviderList(new) /\ MirrorsOn(list, own, new, what)
<1>1. DOMAIN list = 1..Len(list) /\ Len(list) \in Nat
  BY OfItsElements DEF ProviderList
<1>2. new = [k \in 1..Len(list) |-> new[k]]
  BY <1>1
<1>3. new \in Seq(ToSet(new))
  BY <1>1, <1>2, PlacesListed
<1>4. ASSUME NEW k \in DOMAIN new
      PROVE  \/ \E j \in DOMAIN list : new[k] = list[j]
             \/ /\ DOMAIN new[k] = {"id", "api_key"}
                /\ new[k].api_key \in Secrets /\ new[k].id \in what
  <2>1. CASE k = i
    BY <2>1
  <2>2. CASE k # i
    BY <2>2
  <2> QED
    BY <2>1, <2>2
<1> QED
  BY <1>3, <1>4, TakenMirrors

\* The user types an id.
LEMMA UpdateProviderIdSecrets ==
  ASSUME SecretsInv, NEW p \in Panels, UpdateProviderId(p)
  PROVE  SecretsInv'
<1> DEFINE v == view[p]
<1>1. PICK i \in DOMAIN v.providers, id \in ProviderIds :
        Edit(p, RenamedProvider(v, i, id),
             {id} \cup (IF id \in Ids(v) THEN {"route"} ELSE {}))
  BY DEF UpdateProviderId
<1> DEFINE what == {id} \cup (IF id \in Ids(v) THEN {"route"} ELSE {})
           list == v.providers
           x == [list[i] EXCEPT !.id = id]
           new == [list EXCEPT ![i] = x]
           c == RenamedProvider(v, i, id)
<1>2. DOMAIN v = CopyFields /\ ProviderList(list)
  BY CopyOfPanel
<1>3. DOMAIN x = {"id", "api_key"} /\ x.api_key \in Secrets /\ x.id = id
  BY <1>2 DEF ProviderList
<1>4. id \in what
  OBVIOUS
<1>5. \A a, b : LET s == [v EXCEPT !.providers[i].id = id, !.models = a,
                                   !.model_aliases = b]
                IN  /\ DOMAIN s = CopyFields /\ s.providers = new
                    /\ s.admin_token = v.admin_token
  <2>1. \A w, a, b : LET s == [v EXCEPT !.providers = w, !.models = a,
                                        !.model_aliases = b]
                     IN  /\ DOMAIN s = CopyFields /\ s.providers = w
                         /\ s.admin_token = v.admin_token
    BY <1>2, CopyOfPanel
  <2> QED
    BY <2>1
<1>6. \E a, b : c = [v EXCEPT !.providers[i].id = id, !.models = a, !.model_aliases = b]
  BY DEF RenamedProvider
<1> HIDE DEF x, what
<1>7. ProviderList(new) /\ MirrorsOn(list, typed[p], new, what)
  BY <1>2, <1>3, <1>4, ChangedProvider
<1>8. DOMAIN c = CopyFields /\ c.providers = new /\ c.admin_token = v.admin_token
  BY <1>5, <1>6
<1>9. Edit(p, c, what)
  BY <1>1 DEF what
<1> HIDE DEF c, new
<1> QED
  BY <1>7, <1>8, <1>9, EditSecrets

\* The user types a key.
LEMMA UpdateProviderKeySecrets ==
  ASSUME SecretsInv, NEW p \in Panels, UpdateProviderKey(p)
  PROVE  SecretsInv'
<1> DEFINE v == view[p]
<1>1. PICK i \in DOMAIN v.providers, key \in NewKeys :
        Edit(p, [v EXCEPT !.providers[i].api_key = key], {v.providers[i].id})
  BY DEF UpdateProviderKey
<1> DEFINE what == {v.providers[i].id}
           list == v.providers
           x == [list[i] EXCEPT !.api_key = key]
           new == [list EXCEPT ![i] = x]
           c == [v EXCEPT !.providers[i].api_key = key]
<1>2. DOMAIN v = CopyFields /\ ProviderList(list)
  BY CopyOfPanel
<1>3. DOMAIN x = {"id", "api_key"} /\ x.api_key \in Secrets /\ x.id \in what
  BY <1>2, KeysAssumption DEF ProviderList
<1>4. DOMAIN c = CopyFields /\ c.providers = new /\ c.admin_token = v.admin_token
  <2>1. c = [v EXCEPT !.providers = new]
    OBVIOUS
  <2> HIDE DEF new, c
  <2> QED
    BY <1>2, <2>1, CopyOfPanel
<1>5. Edit(p, c, what)
  BY <1>1
<1> HIDE DEF c, x, what
<1>6. ProviderList(new) /\ MirrorsOn(list, typed[p], new, what)
  BY <1>2, <1>3, ChangedProvider
<1> HIDE DEF new
<1> QED
  BY <1>4, <1>5, <1>6, EditSecrets

\* The user adds a provider, without a key.
LEMMA AddProviderSecrets ==
  ASSUME SecretsInv, NEW p \in Panels, AddProvider(p)
  PROVE  SecretsInv'
<1> DEFINE v == view[p]
           list == v.providers
           x == [id |-> "new-provider", api_key |-> NoSecret]
           new == Append(list, x)
           c == [v EXCEPT !.providers = new]
           what == {"new-provider"}
<1>1. Edit(p, c, what)
  BY DEF AddProvider
<1>2. DOMAIN v = CopyFields /\ ProviderList(list)
  BY CopyOfPanel
<1>3. DOMAIN c = CopyFields /\ c.providers = new /\ c.admin_token = v.admin_token
  BY <1>2, CopyOfPanel
<1>4. DOMAIN x = {"id", "api_key"} /\ x.api_key \in Secrets /\ x.id \in what
  BY SecretsAssumption
<1> HIDE DEF x, what, c
<1>5. /\ new \in Seq(ToSet(list) \cup {x})
      /\ \A i \in DOMAIN new : (\E j \in DOMAIN list : new[i] = list[j]) \/ new[i] = x
  <2>1. list \in Seq(ToSet(list) \cup {x}) /\ x \in ToSet(list) \cup {x}
        /\ DOMAIN list = 1..Len(list) /\ Len(list) \in Nat
    BY <1>2, OfItsElements DEF ProviderList
  <2> QED
    BY <2>1
<1>6. ProviderList(new) /\ MirrorsOn(list, typed[p], new, what)
  BY <1>2, <1>4, <1>5, TakenMirrors
<1> HIDE DEF new
<1> QED
  BY <1>1, <1>3, <1>6, EditSecrets

\* The user removes a provider.
LEMMA RemoveProviderSecrets ==
  ASSUME SecretsInv, NEW p \in Panels, RemoveProvider(p)
  PROVE  SecretsInv'
<1> DEFINE v == view[p]
           list == v.providers
           what == {"route"}
<1>1. PICK i \in DOMAIN list : Edit(p, RemovedProvider(v, i), what)
  BY DEF RemoveProvider
<1> DEFINE new == RemoveAt(list, i)
           c == RemovedProvider(v, i)
<1>2. DOMAIN v = CopyFields /\ ProviderList(list)
  BY CopyOfPanel
<1>3. \E a, b, d : c = [v EXCEPT !.providers = new, !.models = a, !.aliases = b,
                                 !.model_aliases = d]
  BY DEF RemovedProvider
<1> HIDE DEF c
<1>4. DOMAIN c = CopyFields /\ c.providers = new /\ c.admin_token = v.admin_token
  BY <1>2, <1>3, CopyOfPanel
<1>5. /\ new \in Seq(ToSet(list))
      /\ \A k \in DOMAIN new : \E j \in DOMAIN list : new[k] = list[j]
  <2>1. list \in Seq(ToSet(list)) /\ i \in 1..Len(list)
        /\ DOMAIN list = 1..Len(list) /\ Len(list) \in Nat
    BY <1>2, OfItsElements DEF ProviderList
  <2>2. new \in Seq(ToSet(list))
    BY <2>1 DEF RemoveAt
  <2>3. ASSUME NEW k \in DOMAIN new PROVE new[k] \in ToSet(list)
    BY <2>2
  <2> QED
    BY <2>2, <2>3 DEF ToSet
<1>6. ProviderList(new) /\ MirrorsOn(list, typed[p], new, what)
  BY <1>2, <1>5, TakenMirrors
<1> HIDE DEF new
<1> QED
  BY <1>1, <1>4, <1>6, EditSecrets DEF c

\* An edit of the routes keeps keys and token.
SameKeys(c, v) ==
  /\ DOMAIN c = CopyFields /\ c.providers = v.providers /\ c.admin_token = v.admin_token
LEMMA RouteFieldEdited ==
  ASSUME NEW v, NEW w, SameKeys(w, v), NEW a
  PROVE  /\ SameKeys([w EXCEPT !.models = a], v)
         /\ SameKeys([w EXCEPT !.aliases = a], v)
         /\ SameKeys([w EXCEPT !.model_aliases = a], v)
<1>1. "providers" \in CopyFields /\ "admin_token" \in CopyFields
  BY DEF CopyFields, EmptyConfig
<1>2. SameKeys([w EXCEPT !.models = a], v)
  BY <1>1 DEF SameKeys
<1>3. SameKeys([w EXCEPT !.aliases = a], v)
  BY <1>1 DEF SameKeys
<1>4. SameKeys([w EXCEPT !.model_aliases = a], v)
  BY <1>1 DEF SameKeys
<1> QED
  BY <1>2, <1>3, <1>4

\* Some tables of the routes are replaced.
LEMMA RoutesEdited ==
  ASSUME NEW v, DOMAIN v = CopyFields, NEW c,
         \/ \E a : c = [v EXCEPT !.models = a]
         \/ \E a, b : c = [v EXCEPT !.models = a, !.aliases = b]
         \/ \E a, b : c = [v EXCEPT !.models = a, !.model_aliases = b]
         \/ \E a, b : c = [v EXCEPT !.aliases = a, !.model_aliases = b]
         \/ \E a, b, d : c = [v EXCEPT !.models = a, !.aliases = b, !.model_aliases = d]
  PROVE  SameKeys(c, v)
<1>1. SameKeys(v, v)
  BY DEF SameKeys
<1>2. CASE \E a : c = [v EXCEPT !.models = a]
  <2>1. PICK a : c = [v EXCEPT !.models = a]
    BY <1>2
  <2> QED
    BY RouteFieldEdited, <1>1, <2>1
<1>3. CASE \E a, b : c = [v EXCEPT !.models = a, !.aliases = b]
  <2>1. PICK a, b : c = [v EXCEPT !.models = a, !.aliases = b]
    BY <1>3
  <2>2. c = [[v EXCEPT !.models = a] EXCEPT !.aliases = b]
    BY <2>1
  <2> QED
    BY RouteFieldEdited, <1>1, <2>2
<1>4. CASE \E a, b : c = [v EXCEPT !.models = a, !.model_aliases = b]
  <2>1. PICK a, b : c = [v EXCEPT !.models = a, !.model_aliases = b]
    BY <1>4
  <2>2. c = [[v EXCEPT !.models = a] EXCEPT !.model_aliases = b]
    BY <2>1
  <2> QED
    BY RouteFieldEdited, <1>1, <2>2
<1>5. CASE \E a, b : c = [v EXCEPT !.aliases = a, !.model_aliases = b]
  <2>1. PICK a, b : c = [v EXCEPT !.aliases = a, !.model_aliases = b]
    BY <1>5
  <2>2. c = [[v EXCEPT !.aliases = a] EXCEPT !.model_aliases = b]
    BY <2>1
  <2> QED
    BY RouteFieldEdited, <1>1, <2>2
<1>6. CASE \E a, b, d : c = [v EXCEPT !.models = a, !.aliases = b, !.model_aliases = d]
  <2>1. PICK a, b, d : c = [v EXCEPT !.models = a, !.aliases = b, !.model_aliases = d]
    BY <1>6
  <2>2. c = [[[v EXCEPT !.models = a] EXCEPT !.aliases = b] EXCEPT !.model_aliases = d]
    BY <2>1
  <2> QED
    BY RouteFieldEdited, <1>1, <2>2
<1> QED
  BY <1>2, <1>3, <1>4, <1>5, <1>6

\* The edits of the routes replace tables of the routes only.
LEMMA RouteEditsKeepKeys ==
  ASSUME NEW v, DOMAIN v = CopyFields
  PROVE  /\ \A upstream : SameKeys(WithModelRoute(v, upstream), v)
         /\ \A old, name : SameKeys(RenamedModel(v, old, name), v)
         /\ \A id, model : SameKeys(UpdatedModel(v, id, model), v)
         /\ \A id : SameKeys(RemovedModel(v, id), v)
         /\ \A name, provider, upstream :
              SameKeys(WithAlias(v, name, provider, upstream), v)
         /\ \A name : SameKeys(RemovedAlias(v, name), v)
<1>1. ASSUME NEW upstream PROVE SameKeys(WithModelRoute(v, upstream), v)
  <2>1. \E a : WithModelRoute(v, upstream) = [v EXCEPT !.models = a]
    BY DEF WithModelRoute
  <2> QED
    BY <2>1, RoutesEdited
<1>2. ASSUME NEW old, NEW name PROVE SameKeys(RenamedModel(v, old, name), v)
  <2>1. \E a, b : RenamedModel(v, old, name) = [v EXCEPT !.models = a, !.aliases = b]
    BY DEF RenamedModel
  <2> QED
    BY <2>1, RoutesEdited
<1>3. ASSUME NEW id, NEW model PROVE SameKeys(UpdatedModel(v, id, model), v)
  <2>1. \E b : UpdatedModel(v, id, model)
                 = [v EXCEPT !.models[id] = model, !.model_aliases = b]
    BY DEF UpdatedModel
  <2>2. \A b : [v EXCEPT !.models[id] = model, !.model_aliases = b]
                 = [v EXCEPT !.models = [v.models EXCEPT ![id] = model],
                             !.model_aliases = b]
    OBVIOUS
  <2> QED
    BY <2>1, <2>2, RoutesEdited
<1>4. ASSUME NEW id PROVE SameKeys(RemovedModel(v, id), v)
  <2>1. \E a, b, d : RemovedModel(v, id)
                       = [v EXCEPT !.models = a, !.aliases = b, !.model_aliases = d]
    BY DEF RemovedModel
  <2> QED
    BY <2>1, RoutesEdited
<1>5. ASSUME NEW name, NEW provider, NEW upstream
      PROVE  SameKeys(WithAlias(v, name, provider, upstream), v)
  <2>1. \E a, b, d : WithAlias(v, name, provider, upstream)
                       = [v EXCEPT !.models = a, !.aliases = b, !.model_aliases = d]
    BY DEF WithAlias
  <2> QED
    BY <2>1, RoutesEdited
<1>6. ASSUME NEW name PROVE SameKeys(RemovedAlias(v, name), v)
  <2>1. \E a, b : RemovedAlias(v, name) = [v EXCEPT !.aliases = a, !.model_aliases = b]
    BY DEF RemovedAlias
  <2> QED
    BY <2>1, RoutesEdited
<1> QED
  BY <1>1, <1>2, <1>3, <1>4, <1>5, <1>6

\* An edit that keeps the keys.
LEMMA RouteEditSecrets ==
  ASSUME SecretsInv, NEW p \in Panels, NEW c, NEW what, Edit(p, c, what),
         SameKeys(c, view[p])
  PROVE  SecretsInv'
BY CopyOfPanel, SameProviders, EditSecrets DEF SameKeys

\* The user edits the routes.
LEMMA RoutesSecrets ==
  ASSUME SecretsInv, NEW p \in Panels,
         \/ AddModelRoute(p) \/ RenameModelRoute(p) \/ UpdateModelField(p)
         \/ RemoveModelRoute(p) \/ AddAlias(p) \/ RemoveAlias(p)
  PROVE  SecretsInv'
<1> DEFINE v == view[p]
<1>1. DOMAIN v = CopyFields
  BY CopyOfPanel
<1>2. \E c : Edit(p, c, {"route"}) /\ SameKeys(c, v)
  <2>1. CASE AddModelRoute(p)
    BY <1>1, <2>1, RouteEditsKeepKeys DEF AddModelRoute
  <2>2. CASE RenameModelRoute(p)
    BY <1>1, <2>2, RouteEditsKeepKeys DEF RenameModelRoute
  <2>3. CASE UpdateModelField(p)
    BY <1>1, <2>3, RouteEditsKeepKeys DEF UpdateModelField
  <2>4. CASE RemoveModelRoute(p)
    BY <1>1, <2>4, RouteEditsKeepKeys DEF RemoveModelRoute
  <2>5. CASE AddAlias(p)
    BY <1>1, <2>5, RouteEditsKeepKeys DEF AddAlias
  <2>6. CASE RemoveAlias(p)
    BY <1>1, <2>6, RouteEditsKeepKeys DEF RemoveAlias
  <2> QED
    BY <2>1, <2>2, <2>3, <2>4, <2>5, <2>6
<1> QED
  BY <1>2, RouteEditSecrets

\* An edit that does not render.
LEMMA UpdateModelEffortSecrets ==
  ASSUME SecretsInv, NEW p \in Panels, UpdateModelEffort(p)
  PROVE  SecretsInv'
<1>1. PICK id \in DOMAIN view[p].models, effort \in {"", "high"} :
        view' = [view EXCEPT ![p].models[id] = [@ EXCEPT !.effort = effort,
                                                         !.override = effort]]
  BY DEF UpdateModelEffort
<1>2. /\ UNCHANGED storeVars /\ inputs' = inputs /\ seen' = seen /\ proc' = proc
      /\ version' = version /\ g_config' = g_config
      /\ typed' = [typed EXCEPT ![p] = @ \cup {"route"}]
  BY DEF UpdateModelEffort, storeVars
<1>3. Domains /\ PanelMirrors(p)
  BY DEF SecretsInv, PanelsMirror
<1>4. \E a : view'[p] = [view[p] EXCEPT !.models = a]
  BY <1>1, <1>3 DEF Domains
<1>5. /\ DOMAIN view' = Panels /\ \A q \in Panels \ {p} : view'[q] = view[q]
      /\ \A q \in Panels \ {p} : typed'[q] = typed[q]
      /\ typed'[p] = typed[p] \cup {"route"} /\ DOMAIN typed' = Panels
  BY <1>1, <1>2, <1>3 DEF Domains
<1>6. SameKeys(view'[p], view[p])
  BY <1>3, <1>4, RoutesEdited DEF PanelMirrors
<1>7. ASSUME Fresh(seen[p])
      PROVE  /\ Mirrors(view[p].providers, g_config, typed[p] \cup {"route"})
             /\ MirrorsToken(view[p].admin_token, g_config, {})
             /\ MirrorsToken(inputs[p].admin_token, g_config, typed[p] \cup {"route"})
  BY <1>3, <1>7 DEF PanelMirrors, Mirrors, MirrorsToken
<1>8. PanelMirrors(p)'
  BY <1>2, <1>3, <1>5, <1>6, <1>7 DEF PanelMirrors, SameKeys, HasKeys, Fresh
<1>9. req' = req
  BY <1>2 DEF storeVars
<1>10. Domains'
  BY <1>2, <1>3, <1>5, <1>9 DEF Domains
<1> QED
  BY <1>2, <1>5, <1>8, <1>10, OnePanel

\* The user types a port or a token.
LEMMA TypeInputSecrets ==
  ASSUME SecretsInv, NEW p \in Panels, TypeInput(p)
  PROVE  SecretsInv'
<1>1. /\ UNCHANGED storeVars /\ view' = view /\ seen' = seen /\ proc' = proc
      /\ version' = version /\ g_config' = g_config
      /\ typed' = [typed EXCEPT ![p] = @ \cup {"token"}]
  BY DEF TypeInput, storeVars
<1>2. Domains /\ PanelMirrors(p)
  BY DEF SecretsInv, PanelsMirror
<1>3. \/ \E port \in NewPorts : inputs' = [inputs EXCEPT ![p].port = port]
      \/ \E t \in NewKeys : inputs' = [inputs EXCEPT ![p].admin_token = t]
  BY DEF TypeInput
<1>4. /\ DOMAIN inputs' = Panels /\ \A q \in Panels \ {p} : inputs'[q] = inputs[q]
      /\ DOMAIN inputs'[p] = DOMAIN inputs[p] /\ inputs'[p].admin_token \in Secrets
  <2>1. CASE \E port \in NewPorts : inputs' = [inputs EXCEPT ![p].port = port]
    BY <1>2, <2>1 DEF Domains, PanelMirrors
  <2>2. CASE \E t \in NewKeys : inputs' = [inputs EXCEPT ![p].admin_token = t]
    BY <1>2, <2>2, KeysAssumption DEF Domains, PanelMirrors
  <2> QED
    BY <1>3, <2>1, <2>2
<1>5. /\ DOMAIN typed' = Panels /\ \A q \in Panels \ {p} : typed'[q] = typed[q]
      /\ typed'[p] = typed[p] \cup {"token"}
  BY <1>1, <1>2 DEF Domains
<1>6. ASSUME Fresh(seen[p])
      PROVE  /\ Mirrors(view[p].providers, g_config, typed[p] \cup {"token"})
             /\ MirrorsToken(view[p].admin_token, g_config, {})
  BY <1>2, <1>6 DEF PanelMirrors, Mirrors
<1>7. PanelMirrors(p)'
  BY <1>1, <1>2, <1>4, <1>5, <1>6 DEF PanelMirrors, Fresh, MirrorsToken
<1>8. req' = req
  BY <1>1 DEF storeVars
<1>9. Domains'
  BY <1>1, <1>2, <1>4, <1>5, <1>8 DEF Domains
<1> QED
  BY <1>1, <1>4, <1>5, <1>7, <1>9, OnePanel

\* A panel asks for the configuration.
LEMMA LoadConfigSecrets ==
  ASSUME SecretsInv, NEW p \in Panels, LoadConfig(p)
  PROVE  SecretsInv'
<1> DEFINE c == Loader(p)
<1>1. PICK t \in NewKeys \cup {token[p]} : Send(c, Request("GET", t, NoContent, 0))
  BY DEF LoadConfig, Sends
<1>2. c \in Clients /\ \A q \in Panels : c # Saver(q)
  BY SaversOfPanels
<1> HIDE DEF c
<1>3. UNCHANGED copies
  BY DEF LoadConfig, copies
<1>4. UNCHANGED quiet /\ (lock # c \/ lock = NoClient)
  BY <1>1, <1>2 DEF Send, quiet, SecretsInv, LockedSave, Idle
<1>5. /\ DOMAIN req' = Clients /\ \A d \in Clients \ {c} : req'[d] = req[d]
      /\ req'[c] = Request("GET", t, NoContent, 0)
  BY <1>1, <1>2 DEF Send, SecretsInv, Domains
<1>6. BodyHasKeys(NoContent)
  BY DEF BodyHasKeys, NoContent, EmptyMap
<1>7. BodyTyped(req[c])' /\ AnswerMirrors(req[c])'
  BY <1>5, <1>6 DEF BodyTyped, AnswerMirrors, Pending, Request
<1> QED
  BY <1>2, <1>3, <1>4, <1>5, <1>7, RequestStep

\* saveConfig sends the copy as it is, and the token of the page's input.
LEMMA SaveConfigSecrets ==
  ASSUME SecretsInv, NEW p \in Panels, SaveConfig(p)
  PROVE  SecretsInv'
<1> DEFINE c == Saver(p)
           body == CanonicalPayload(view[p], inputs[p])
           note == [seen |-> seen[p], typed |-> typed[p],
                    shown |-> view[p].model_aliases, ids |-> Ids(view[p])]
           v == FormState(view[p])
<1>1. Send(c, Request("POST", token[p], body, note))
  BY DEF SaveConfig, Sends
<1>2. c \in Clients /\ \A q \in Panels : c = Saver(q) => q = p
  BY SaversOfPanels
<1>3. Domains /\ PanelMirrors(p) /\ version \in Nat
  BY DEF SecretsInv, PanelsMirror
<1>4. SameKeys(v, view[p]) /\ DOMAIN view[p] = CopyFields
  BY <1>3, ShapedKeys DEF SameKeys, PanelMirrors
<1>5. /\ {"providers", "admin_token"} \subseteq DOMAIN body
      /\ body.providers = view[p].providers /\ body.admin_token = inputs[p].admin_token
  BY <1>4 DEF CanonicalPayload, SameKeys
<1>6. /\ note.seen = seen[p] /\ note.typed = typed[p]
  OBVIOUS
<1>7. /\ view' = [view EXCEPT ![p] = v] /\ inputs' = inputs /\ seen' = seen
      /\ typed' = typed
  BY DEF SaveConfig
<1> HIDE DEF c, body, note, v
<1>8. /\ proc' = proc /\ g_config' = g_config /\ file' = file /\ lock' = lock
      /\ updated' = updated /\ version' = version
      /\ (lock # c \/ lock = NoClient)
  BY <1>1, <1>2 DEF Send, SecretsInv, LockedSave, Idle
<1>9. /\ DOMAIN req' = Clients /\ \A d \in Clients \ {c} : req'[d] = req[d]
      /\ req'[c] = Request("POST", token[p], body, note)
  BY <1>1, <1>2, <1>3 DEF Send, Domains
<1>10. /\ DOMAIN req'[c] = {"pc", "method", "token", "body", "note"}
       /\ req'[c].pc = "sent" /\ req'[c].body = body /\ req'[c].note = note
  BY <1>9 DEF Request
<1>11. HasKeys(body) /\ BodyHasKeys(body)
  <2>1. ProviderList(body.providers) /\ body.admin_token \in Secrets
    BY <1>3, <1>5 DEF PanelMirrors, HasKeys
  <2> QED
    BY <2>1 DEF HasKeys, BodyHasKeys, ProviderList
<1>12. BodyTyped(req[c])' /\ AnswerMirrors(req[c])'
  BY <1>10, <1>11 DEF BodyTyped, AnswerMirrors
<1>13. BodyMirrors(req[c])'
  <2>1. ASSUME Fresh(seen[p])
        PROVE  /\ Mirrors(body.providers, g_config, typed[p])
               /\ MirrorsToken(body.admin_token, g_config, typed[p])
    BY <1>3, <1>5, <2>1 DEF PanelMirrors
  <2>2. seen[p] \in 0..version
    BY <1>3 DEF PanelMirrors
  <2> QED
    BY <1>5, <1>6, <1>8, <1>10, <1>11, <2>1, <2>2 DEF BodyMirrors, Fresh
<1>14. KeysMove /\ version' \in Nat
  BY <1>3, <1>8, QuietKeysMove
<1>15. RequestsMirror'
  BY <1>2, <1>9, <1>12, <1>13, <1>14, OneRequest
<1>16. /\ DOMAIN view' = Panels /\ view'[p] = v
       /\ \A q \in Panels \ {p} : view'[q] = view[q]
  BY <1>3, <1>7 DEF Domains
<1>17. ASSUME NEW q \in Panels PROVE PanelMirrors(q)'
  <2>1. CASE q # p
    BY <1>3, <1>7, <1>14, <1>16, <2>1, PanelKept DEF SecretsInv, PanelsMirror
  <2>2. CASE q = p
    BY <1>3, <1>4, <1>7, <1>8, <1>16, <2>2 DEF PanelMirrors, SameKeys, HasKeys, Fresh
  <2> QED
    BY <2>1, <2>2
<1>18. LockedSave'
  <2>1. ASSUME lock # NoClient
        PROVE  lock \in Clients \ {c} /\ req'[lock] = req[lock]
    BY <1>8, <1>9, <2>1 DEF SecretsInv, LockedSave
  <2> QED
    BY <1>8, <2>1 DEF SecretsInv, LockedSave
<1>19. Domains'
  BY <1>3, <1>7, <1>9, <1>16 DEF Domains
<1>20. HasKeys(g_config)' /\ HasKeys(updated)' /\ FileHasKeys'
  BY <1>8 DEF SecretsInv, FileHasKeys
<1> QED
  BY <1>14, <1>15, <1>17, <1>18, <1>19, <1>20 DEF SecretsInv, PanelsMirror

\* The answer becomes the copy.
LEMMA AnswerShownSecrets ==
  ASSUME SecretsInv, NEW p \in Panels, NEW c \in Clients, AnswerShown(p, c)
  PROVE  SecretsInv'
<1>1. Domains /\ PanelMirrors(p) /\ version \in Nat /\ req[c].pc = "answered"
  BY DEF AnswerShown, SecretsInv, PanelsMirror
<1>2. Receive(c)
  BY DEF AnswerShown
<1>3. CASE req[c].status # 200
  BY <1>2, <1>3, ReceiveSecrets DEF AnswerShown, copies
<1>4. CASE req[c].status = 200
  <2> DEFINE r == req[c]
             s == Shaped(r.content)
  <2>1. /\ view' = [view EXCEPT ![p] = s]
        /\ inputs' = [inputs EXCEPT ![p] = InputsOf(s)]
        /\ seen' = [seen EXCEPT ![p] = r.note] /\ typed' = [typed EXCEPT ![p] = {}]
    BY <1>4 DEF AnswerShown
  <2>2. AnswerMirrors(r)
    BY DEF SecretsInv, RequestsMirror
  <2>3. SameKeys(s, r.content)
    BY <1>1, <1>4, <2>2, ShapedKeys DEF AnswerMirrors, SameKeys
  <2> HIDE DEF s
  <2>4. /\ DOMAIN InputsOf(s) = {"port", "thread_pool_size", "admin_token"}
        /\ InputsOf(s).admin_token = s.admin_token
    BY DEF InputsOf
  <2>5. /\ view'[p] = s /\ inputs'[p] = InputsOf(s) /\ seen'[p] = r.note /\ typed'[p] = {}
        /\ \A q \in Panels \ {p} : /\ view'[q] = view[q] /\ inputs'[q] = inputs[q]
                                   /\ seen'[q] = seen[q] /\ typed'[q] = typed[q]
        /\ DOMAIN view' = Panels /\ DOMAIN inputs' = Panels /\ DOMAIN seen' = Panels
        /\ DOMAIN typed' = Panels
    BY <1>1, <2>1 DEF Domains
  <2>6. /\ proc' = proc /\ g_config' = g_config /\ file' = file /\ lock' = lock
        /\ updated' = updated /\ version' = version
        /\ (lock # c \/ lock = NoClient)
    BY <1>1, <1>2 DEF Receive, SecretsInv, LockedSave
  <2>7. /\ DOMAIN req' = Clients /\ \A d \in Clients \ {c} : req'[d] = req[d]
        /\ req'[c].pc = "idle"
    BY <1>1, <1>2 DEF Receive, Domains, Idle
  <2>8. KeysMove /\ version' \in Nat
    BY <1>1, <2>6, QuietKeysMove
  <2>9. /\ BodyTyped(req[c])' /\ AnswerMirrors(req[c])'
        /\ \A q \in Panels : c = Saver(q) => BodyMirrors(req[Saver(q)])'
    BY <2>7 DEF BodyTyped, AnswerMirrors, BodyMirrors, Pending
  <2>10. RequestsMirror'
    BY <2>7, <2>8, <2>9, OneRequest
  <2>11. PanelMirrors(p)'
    <3>1. DOMAIN s = CopyFields /\ HasKeys(s) /\ s.admin_token \in Secrets
          /\ r.note \in 0..version
      BY <1>1, <1>4, <2>2, <2>3 DEF AnswerMirrors, SameKeys, HasKeys
    <3>2. ASSUME Fresh(r.note)
          PROVE  /\ Mirrors(s.providers, g_config, {})
                 /\ MirrorsToken(s.admin_token, g_config, {})
      BY <1>1, <1>4, <2>2, <2>3, <3>2 DEF AnswerMirrors, SameKeys
    <3> QED
      BY <2>4, <2>5, <2>6, <3>1, <3>2 DEF PanelMirrors, Fresh
  <2>12. ASSUME NEW q \in Panels, q # p PROVE PanelMirrors(q)'
    BY <1>1, <2>5, <2>8, <2>12, PanelKept DEF SecretsInv, PanelsMirror
  <2>13. LockedSave'
    <3>1. ASSUME lock # NoClient
          PROVE  lock \in Clients \ {c} /\ req'[lock] = req[lock]
      BY <2>6, <2>7, <3>1 DEF SecretsInv, LockedSave
    <3> QED
      BY <2>6, <3>1 DEF SecretsInv, LockedSave
  <2>14. HasKeys(g_config)' /\ HasKeys(updated)' /\ FileHasKeys'
    BY <2>6 DEF SecretsInv, FileHasKeys
  <2> QED
    BY <2>5, <2>7, <2>8, <2>10, <2>11, <2>12, <2>13, <2>14
       DEF SecretsInv, PanelsMirror, Domains
<1> QED
  BY <1>3, <1>4

\* The steps of a panel.
LEMMA PanelSecrets ==
  ASSUME SecretsInv, NEW p \in Panels, PanelStep(p) PROVE SecretsInv'
<1>1. Loader(p) \in Clients /\ Saver(p) \in Clients
  BY SaversOfPanels
<1> QED
  BY <1>1, UpdateProviderIdSecrets, UpdateProviderKeySecrets, AddProviderSecrets,
     RemoveProviderSecrets, RoutesSecrets, UpdateModelEffortSecrets, TypeInputSecrets,
     LoadConfigSecrets, SaveConfigSecrets, AnswerShownSecrets DEF PanelStep

\* No copy is fresh before the first launch.
LEMMA InitSecrets == Init => SecretsInv
<1> SUFFICES ASSUME Init PROVE SecretsInv
  OBVIOUS
<1>1. /\ version = 0 /\ g_config = EmptyConfig /\ updated = EmptyConfig /\ proc = "down"
      /\ lock = NoClient /\ req = [c \in Clients |-> Idle] /\ file \in InitialFiles
      /\ view = [p \in Panels |-> EmptyView]
      /\ inputs = [p \in Panels |-> InputsOf(EmptyView)]
      /\ seen = [p \in Panels |-> 0] /\ typed = [p \in Panels |-> {}]
  BY DEF Init, StoreInit
<1>2. Domains /\ LockedSave
  BY <1>1 DEF Domains, LockedSave
<1>3. FileHasKeys
  BY <1>1, KeysAssumption DEF FileHasKeys
<1>4. \A c \in Clients : req[c].pc = "idle"
  BY <1>1 DEF Idle
<1>5. RequestsMirror
  BY <1>4, SaversOfPanels DEF RequestsMirror, BodyTyped, AnswerMirrors, BodyMirrors, Pending
<1>6. /\ DOMAIN EmptyView = CopyFields /\ EmptyView.providers = <<>>
      /\ EmptyView.admin_token = NoSecret
  BY DEF EmptyView, WithEntry, CopyFields, EmptyConfig
<1>7. HasKeys(EmptyView)
  BY <1>6, EmptyHasKeys DEF HasKeys, EmptyConfig
<1>8. /\ DOMAIN InputsOf(EmptyView) = {"port", "thread_pool_size", "admin_token"}
      /\ InputsOf(EmptyView).admin_token \in Secrets
  BY <1>7 DEF InputsOf, HasKeys
<1>9. PanelsMirror
  BY <1>1, <1>6, <1>7, <1>8 DEF PanelsMirror, PanelMirrors, Fresh
<1> QED
  BY <1>1, <1>2, <1>3, <1>5, <1>9, EmptyHasKeys DEF SecretsInv

\* Every step keeps the mirrors.
LEMMA NextSecrets == StoreInv /\ SecretsInv /\ [Next]_vars => SecretsInv'
<1> SUFFICES ASSUME StoreInv, SecretsInv, [Next]_vars PROVE SecretsInv'
  OBVIOUS
<1>1. CASE UNCHANGED vars
  BY <1>1 DEF vars, storeVars, panelVars, SecretsInv, Domains, HasKeys, FileHasKeys,
              LockedSave, RequestsMirror, PanelsMirror, BodyTyped, AnswerMirrors,
              BodyMirrors, PanelMirrors, Pending, Fresh
<1>2. CASE \E p \in Panels : PanelStep(p)
  BY <1>2, PanelSecrets
<1>3. CASE \E c \in Scripts : ScriptPosts(c) \/ ScriptReads(c)
  BY <1>3, ScriptSecrets, ReceiveSecrets DEF ScriptReads, Scripts, panelVars, copies
<1>4. CASE GatewayStep /\ UNCHANGED <<panelVars, bounds>>
  <2>1. UNCHANGED copies
    BY <1>4 DEF panelVars, copies
  <2>2. CASE \E override \in Overrides : Launch(override)
    BY <2>1, <2>2, LaunchSecrets
  <2>3. CASE DefaultsWritten(TRUE)
    BY <2>1, <2>3, DefaultsWrittenSecrets
  <2>4. ASSUME NEW c \in Clients, Refuse(c) \/ PostRefused(c) PROVE SecretsInv'
    <3>1. lock = NoClient /\ \E status \in {401, 400} : Answer(c, status, NoContent)
      BY <2>4 DEF Refuse, PostRefused, Posts
    <3> QED
      BY <2>1, <3>1, AnswerSecrets
  <2>5. ASSUME NEW c \in Clients, Admit(c) \/ GetConfig(c) PROVE SecretsInv'
    BY <2>1, <2>5, AdmitSecrets, GetConfigSecrets
  <2>6. ASSUME NEW c \in Clients, BeginSave(c, TRUE) \/ EndSave(c, TRUE)
        PROVE  SecretsInv'
    BY <2>1, <2>6, BeginSaveSecrets, EndSaveSecrets
  <2> QED
    BY <1>4, <2>2, <2>3, <2>4, <2>5, <2>6 DEF GatewayStep
<1>5. CASE FaultStep /\ UNCHANGED panelVars
  <2>1. UNCHANGED copies
    BY <1>5 DEF panelVars, copies
  <2>2. CASE DefaultsWritten(FALSE) \/ Crash
    BY <2>1, <2>2, DefaultsWrittenSecrets, CrashSecrets
  <2>3. ASSUME NEW c \in Clients, SaveThrows(c) PROVE SecretsInv'
    <3>1. lock = NoClient /\ Answer(c, 500, NoContent)
      BY <2>3 DEF SaveThrows, Posts
    <3> QED
      BY <2>1, <3>1, AnswerSecrets
  <2>4. ASSUME NEW c \in Clients, BeginSave(c, FALSE) \/ EndSave(c, FALSE)
        PROVE  SecretsInv'
    BY <2>1, <2>4, BeginSaveSecrets, EndSaveSecrets
  <2> QED
    BY <1>5, <2>2, <2>3, <2>4 DEF FaultStep
<1> QED
  BY <1>1, <1>2, <1>3, <1>4, <1>5 DEF Next

\* A save from an up-to-date panel keeps every secret the user left alone, whatever
\* else was edited, and whatever other panels and clients did meanwhile: the copy the
\* panel has, and the body it sends, hold the mask of each key of the version they were
\* made from, and while a save holds the lock that version stays
\* (config_to_json, buildCanonicalPayload, resolve_secret_update, handle_post_config).
THEOREM FreshSaveKeepsSecretsHolds == Spec => FreshSaveKeepsSecrets
<1> DEFINE Keeps(p) ==
      SavedFresh(p) =>
        /\ DistinctIds(g_config) =>
             \A id \in (Ids(g_config) \cap Ids(g_config')) \ NoteOf(p).typed :
               KeyOf(g_config'.providers, id) = KeyOf(g_config.providers, id)
        /\ "token" \notin NoteOf(p).typed =>
             g_config'.admin_token = g_config.admin_token
<1>1. ASSUME StoreInv, SecretsInv, NEW p \in Panels, SavedFresh(p) PROVE Keeps(p)
  <2> DEFINE c == Saver(p)
             body == req[c].body
             own == req[c].note.typed
  <2>1. c \in Clients
    BY SaversOfPanels
  <2>2. lock = c /\ g_config' = updated /\ req[c].note.seen = version
    BY <1>1 DEF SavedFresh, Saved, NoteOf
  <2>3. lock # NoClient
    BY <2>1, <2>2, ClientsAssumption
  <2>4. req[c].pc = "saving" /\ updated = UpdatedConfig(g_config, body)
    BY <1>1, <2>2, <2>3 DEF SecretsInv, LockedSave
  <2>5. proc = "up"
    BY <1>1, <2>3 DEF StoreInv, NoLockUnlessUp
  <2>6. Pending(req[c]) /\ Fresh(req[c].note.seen)
    BY <2>2, <2>4, <2>5 DEF Pending, Fresh
  <2>7. BodyTyped(req[c]) /\ BodyMirrors(req[c]) /\ HasKeys(g_config)
    BY <1>1, <2>1 DEF SecretsInv, RequestsMirror
  <2>8. /\ {"providers", "admin_token"} \subseteq DOMAIN body
        /\ HasKeys(body) /\ BodyHasKeys(body)
        /\ Mirrors(body.providers, g_config, own)
        /\ MirrorsToken(body.admin_token, g_config, own)
    BY <2>6, <2>7 DEF BodyTyped, BodyMirrors
  <2>9. g_config' = UpdatedConfig(g_config, body) /\ NoteOf(p).typed = own
    BY <2>2, <2>4 DEF NoteOf
  <2> HIDE DEF body, own
  <2> QED
    BY <2>7, <2>8, <2>9, MirroredKeysKept
<1>2. StoreInv /\ SecretsInv /\ [Next]_vars => [\A p \in Panels : Keeps(p)]_vars
  BY <1>1
<1>3. (\A p \in Panels : Keeps(p)) <=> (\A p \in Panels : SavedFresh(p) =>
       /\ DistinctIds(g_config) =>
            \A id \in (Ids(g_config) \cap Ids(g_config')) \ NoteOf(p).typed :
              KeyOf(g_config'.providers, id) = KeyOf(g_config.providers, id)
       /\ "token" \notin NoteOf(p).typed =>
            g_config'.admin_token = g_config.admin_token)
  OBVIOUS
<1> HIDE DEF Keeps
<1> QED
  BY InitStoreInv, NextStoreInv, InitSecrets, NextSecrets, <1>2, <1>3, PTL
     DEF Spec, FreshSaveKeepsSecrets
================================================================================
