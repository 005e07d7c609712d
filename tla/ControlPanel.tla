------------------------------ MODULE ControlPanel ------------------------------
(* The control panel (src/src/webui.h) in several browser windows, on top of *)
(* ConfigStore. Each panel edits a copy of the configuration, with secrets   *)
(* masked, and sends the whole copy back. Every edit ends with render(),     *)
(* which normalises the copy and sets the inputs that are in the page only:  *)
(* port, thread pool size and admin token.                                   *)
(*                                                                           *)
(* Where JavaScript takes the first of several models for a target, which    *)
(* one is left open by CHOOSE. Names of providers hold no colon.             *)
EXTENDS ConfigStore

CONSTANTS
  Panels,      \* windows with a control panel, a client for GET and one for POST each
  ProviderIds, \* ids a user types
  Upstreams,   \* upstream models a user types
  AliasNames,  \* aliases a user types
  NewKeys,     \* API keys and tokens a user types
  NewPorts,    \* ports a user types
  Overrides,   \* ports on the command line, and NoOverride
  InitialFiles,
  ScriptBodies, \* bodies of requests that no panel makes
  MaxEdits, MaxRequests, MaxDisturbances \* bounds

ASSUME PanelsAssumption == Panels \X {"GET", "POST"} \subseteq Clients

\* Keys and tokens are texts wherever they come from: a file in which one is missing
\* is read as if it held the empty one, a body may leave them out.
ProviderList(providers) ==
  /\ providers \in Seq(ToSet(providers))
  /\ \A i \in DOMAIN providers : /\ DOMAIN providers[i] = {"id", "api_key"}
                                 /\ providers[i].api_key \in Secrets
HasKeys(config) == ProviderList(config.providers) /\ config.admin_token \in Secrets
BodyHasKeys(body) ==
  /\ "admin_token" \in DOMAIN body => body.admin_token \in Secrets
  /\ "providers" \in DOMAIN body =>
       /\ body.providers \in Seq(ToSet(body.providers))
       /\ \A i \in DOMAIN body.providers :
            "api_key" \in DOMAIN body.providers[i] =>
              body.providers[i].api_key \in Secrets

ASSUME KeysAssumption ==
  /\ NewKeys \subseteq Secrets
  /\ HasKeys(DefaultConfig)
  /\ \A f \in InitialFiles \ {Missing, Truncated} : HasKeys(f.json)
  /\ \A body \in ScriptBodies : BodyHasKeys(body)

VARIABLES
  view,     \* the panel's copy of the configuration, with model_aliases
  inputs,   \* what the page's inputs for port, pool size and token hold
  token,    \* controlPlaneToken
  seen,     \* the version of g_config that was copied
  typed,    \* what the user did to the copy: ids of the providers whose key or
            \* id was typed, "token", and "route" after an edit of the routes, which
            \* an id that another provider has already is too
  edits, requests, disturbances \* counters for the bounds; other clients'
            \* requests and faults are disturbances

panelVars == <<view, inputs, token, seen, typed>>
bounds == <<edits, requests, disturbances>>
vars == <<storeVars, panelVars, bounds>>

--------------------------------------------------------------------------------
(* The copy.                                                                 *)

\* normalizeModel: the effort inside and outside the overrides become one.
Normalized(model) ==
  [model EXCEPT !.effort = ModelEffort(model), !.override = ModelEffort(model)]

Complete(model) == model.provider # "" /\ model.upstream_model # <<>>

\* The targets of the aliases whose model is there and complete.
ShownAliases(models, aliases) ==
  [a \in {a \in DOMAIN aliases : /\ aliases[a] \in DOMAIN models
                                 /\ Complete(models[aliases[a]])} |->
     TargetOf(models[aliases[a]])]

\* ensureConfigShape: without any such alias the old model_aliases stay.
Shaped(c) ==
  LET models == [id \in DOMAIN c.models |-> Normalized(c.models[id])]
      shown  == ShownAliases(models, c.aliases)
  IN  [c EXCEPT !.models = models,
                !.model_aliases = IF DOMAIN shown = {} THEN @ ELSE shown,
                !.thread_pool_size = IF @ < 0 THEN 8 ELSE @]

\* render sets the page's inputs from the copy, whatever was typed there.
InputsOf(c) ==
  [port |-> c.port, thread_pool_size |-> c.thread_pool_size,
   admin_token |-> c.admin_token]

EmptyView == WithEntry(EmptyConfig, "model_aliases", EmptyMap)

\* findModelIdForTarget and its callers split a target at every colon and take
\* the first two parts.
JsProvider(target) == target[1]
JsUpstream(target) == IF Len(target) = 1 THEN <<>> ELSE <<target[2]>>
IdsForTarget(models, target) ==
  ModelsFor(models, JsProvider(target), JsUpstream(target))

Ids(c) == {c.providers[i].id : i \in DOMAIN c.providers}

\* Mutant: the models keep the id that the provider had.
MutRenamedProvider(c, i, id) == [c EXCEPT !.providers[i].id = id]

\* updateProvider, the id: models and shown targets move to the new id.
RenamedProvider(c, i, id) ==
  LET old == c.providers[i].id
  IN  [c EXCEPT
         !.providers[i].id = id,
         !.models = [m \in DOMAIN @ |->
                       IF old # "" /\ @[m].provider = old
                       THEN [@[m] EXCEPT !.provider = id]
                       ELSE @[m]],
         !.model_aliases = [a \in DOMAIN @ |->
                              IF old # "" /\ Head(@[a]) = old
                              THEN <<id>> \o JsUpstream(@[a])
                              ELSE @[a]]]

\* removeProvider: with its models, and their aliases.
RemovedProvider(c, i) ==
  LET id   == c.providers[i].id
      gone == {m \in DOMAIN c.models : c.models[m].provider = id}
  IN  [c EXCEPT
         !.providers = RemoveAt(@, i),
         !.models = WithoutKeys(@, gone),
         !.aliases = WithoutKeys(@, {a \in DOMAIN @ : @[a] \in gone}),
         !.model_aliases = WithoutKeys(@, {a \in DOMAIN @ : Head(@[a]) = id})]

\* allocateModelId: the upstream's name; a model that routes there is replaced.
AllocatedId(c, provider, upstream) ==
  LET mine == {m \in ModelsFor(c.models, provider, upstream) : m.base = upstream}
  IN  FreshName(upstream, DOMAIN c.models \ mine)

\* addModelRoute, for the first provider and a model of its list.
WithModelRoute(c, upstream) ==
  LET provider == IF c.providers = <<>> THEN "" ELSE c.providers[1].id
      id == AllocatedId(c, provider, IF upstream = <<>> THEN <<"new-model">>
                                     ELSE upstream)
  IN  [c EXCEPT !.models = WithEntry(@, id, NewModel(provider, upstream))]

\* Mutant: the aliases keep the old id.
MutRenamedModel(c, old, new) ==
  [c EXCEPT !.models = WithEntry(WithoutKeys(@, {old}), new, @[old])]

\* renameModelRoute.
RenamedModel(c, old, new) ==
  [c EXCEPT
     !.models = WithEntry(WithoutKeys(@, {old}), new, @[old]),
     !.aliases = [a \in DOMAIN @ |-> IF @[a] = old THEN new ELSE @[a]]]

\* updateModelField and syncAliasesForModel.
UpdatedModel(c, id, model) ==
  [c EXCEPT
     !.models[id] = model,
     !.model_aliases =
        [a \in DOMAIN @ \cup {a \in DOMAIN c.aliases : c.aliases[a] = id} |->
           IF a \in DOMAIN c.aliases /\ c.aliases[a] = id THEN TargetOf(model)
           ELSE @[a]]]

\* removeModelRoute.
RemovedModel(c, id) ==
  LET gone == {a \in DOMAIN c.aliases : c.aliases[a] = id}
  IN  [c EXCEPT !.models = WithoutKeys(@, {id}),
                !.aliases = WithoutKeys(@, gone),
                !.model_aliases = WithoutKeys(@, gone)]

\* addAlias.
WithAlias(c, alias, provider, upstream) ==
  LET target == <<provider>> \o upstream
      known  == IdsForTarget(c.models, target)
      id     == IF known # {} THEN CHOOSE m \in known : TRUE
                ELSE AllocatedId(c, provider, upstream)
  IN  [c EXCEPT
         !.models = IF known # {} THEN @
                    ELSE WithEntry(@, id, NewModel(provider, upstream)),
         !.aliases = WithEntry(@, alias, id),
         !.model_aliases = WithEntry(@, alias, target)]

\* removeAlias.
RemovedAlias(c, alias) ==
  [c EXCEPT !.aliases = WithoutKeys(@, {alias}),
            !.model_aliases = WithoutKeys(@, {alias})]

--------------------------------------------------------------------------------
(* What a panel sends.                                                       *)

\* syncCurrentFormStateFromDom. A <select> without an option for the model's
\* provider shows, and yields, its first option.
SelectedProvider(c, provider) ==
  IF provider \in Ids(c) THEN provider
  ELSE IF c.providers = <<>> THEN "" ELSE c.providers[1].id
FormState(c) ==
  IF DOMAIN c.models = {} THEN c
  ELSE LET models  == [m \in DOMAIN c.models |->
                         [Normalized(c.models[m]) EXCEPT
                            !.provider = SelectedProvider(c, @)]]
           aliases == [a \in {a \in DOMAIN c.aliases :
                                c.aliases[a] \in DOMAIN models} |-> c.aliases[a]]
       IN  [c EXCEPT !.models = models, !.aliases = aliases,
                     !.model_aliases = ShownAliases(models, aliases)]

\* buildCanonicalPayload: incomplete models are left out, with their aliases.
PayloadBase(c) ==
  LET models == [m \in {m \in DOMAIN c.models : Complete(c.models[m])} |->
                   c.models[m]]
  IN  [models  |-> models,
       aliases |-> [a \in {a \in DOMAIN c.aliases :
                             c.aliases[a] \in DOMAIN models} |-> c.aliases[a]]]

\* Then each shown target: the first model that routes there gets the alias, or
\* one that is made for it.
PayloadAlias(routes, alias, target) ==
  LET known == IdsForTarget(routes.models, target)
      id    == IF known # {} THEN CHOOSE m \in known : TRUE
               ELSE AllocatedId(routes, JsProvider(target), JsUpstream(target))
  IN  [models  |-> IF known # {} THEN routes.models
                   ELSE WithEntry(routes.models, id,
                                  NewModel(JsProvider(target), JsUpstream(target))),
       aliases |-> WithEntry(routes.aliases, alias, id)]

PayloadRoutes(c) ==
  FoldSet(LAMBDA a, acc : PayloadAlias(acc, a, c.model_aliases[a]),
          PayloadBase(c),
          {a \in DOMAIN c.model_aliases : /\ JsProvider(c.model_aliases[a]) # ""
                                          /\ JsUpstream(c.model_aliases[a]) # <<>>})

CanonicalPayload(c, in) ==
  LET form   == FormState(c)
      routes == PayloadRoutes(form)
  IN  [port |-> in.port, thread_pool_size |-> in.thread_pool_size,
       admin_token |-> in.admin_token, providers |-> form.providers,
       models |-> routes.models, aliases |-> routes.aliases,
       model_aliases |-> [a \in DOMAIN routes.aliases |->
                            TargetOf(routes.models[routes.aliases[a]])]]

--------------------------------------------------------------------------------
(* The user and the browser.                                                 *)

Loader(p) == <<p, "GET">>
Saver(p)  == <<p, "POST">>

Init ==
  /\ StoreInit(InitialFiles)
  /\ view = [p \in Panels |-> EmptyView]
  /\ inputs = [p \in Panels |-> InputsOf(EmptyView)]
  /\ token = [p \in Panels |-> NoSecret]
  /\ seen = [p \in Panels |-> 0]
  /\ typed = [p \in Panels |-> {}]
  /\ edits = 0 /\ requests = 0 /\ disturbances = 0

\* Bounds: few edits, none of the empty copy of a page that could not load.
MayEdit(p) == edits < MaxEdits /\ seen[p] # 0

\* An edit, markUnsaved and render.
Edit(p, c, what) ==
  /\ MayEdit(p) /\ edits' = edits + 1
  /\ view' = [view EXCEPT ![p] = Shaped(c)]
  /\ inputs' = [inputs EXCEPT ![p] = InputsOf(Shaped(c))]
  /\ typed' = [typed EXCEPT ![p] = @ \cup what]
  /\ UNCHANGED <<storeVars, token, seen, requests, disturbances>>

UpdateProviderId(p) ==
  \E i \in DOMAIN view[p].providers, id \in ProviderIds :
    Edit(p, RenamedProvider(view[p], i, id),
         {id} \cup (IF id \in Ids(view[p]) THEN {"route"} ELSE {}))
UpdateProviderKey(p) ==
  \E i \in DOMAIN view[p].providers, key \in NewKeys :
    Edit(p, [view[p] EXCEPT !.providers[i].api_key = key],
         {view[p].providers[i].id})
AddProvider(p) ==
  Edit(p, [view[p] EXCEPT !.providers =
             Append(@, [id |-> "new-provider", api_key |-> NoSecret])],
       {"new-provider"})
RemoveProvider(p) ==
  \E i \in DOMAIN view[p].providers : Edit(p, RemovedProvider(view[p], i), {"route"})
AddModelRoute(p) ==
  \E upstream \in Upstreams : Edit(p, WithModelRoute(view[p], upstream), {"route"})
RenameModelRoute(p) ==
  \E old \in DOMAIN view[p].models, name \in AliasNames :
    /\ name \notin DOMAIN view[p].models
    /\ Edit(p, RenamedModel(view[p], old, name), {"route"})
UpdateModelField(p) ==
  \E id \in DOMAIN view[p].models :
    \/ \E upstream \in Upstreams :
         Edit(p, UpdatedModel(view[p], id,
                   [view[p].models[id] EXCEPT !.upstream_model = upstream]), {"route"})
    \/ \E provider \in Ids(view[p]) :
         Edit(p, UpdatedModel(view[p], id,
                   [view[p].models[id] EXCEPT !.provider = provider]), {"route"})
RemoveModelRoute(p) ==
  \E id \in DOMAIN view[p].models : Edit(p, RemovedModel(view[p], id), {"route"})
AddAlias(p) ==
  \E name \in AliasNames, provider \in Ids(view[p]), upstream \in Upstreams :
    /\ upstream # <<>>
    /\ Edit(p, WithAlias(view[p], name, provider, upstream), {"route"})
RemoveAlias(p) ==
  \E name \in DOMAIN view[p].model_aliases : Edit(p, RemovedAlias(view[p], name), {"route"})

\* updateModelEffort does not render.
UpdateModelEffort(p) ==
  \E id \in DOMAIN view[p].models, effort \in {"", "high"} :
    /\ MayEdit(p) /\ edits' = edits + 1
    /\ view' = [view EXCEPT ![p].models[id] =
                  [@ EXCEPT !.effort = effort, !.override = effort]]
    /\ typed' = [typed EXCEPT ![p] = @ \cup {"route"}]
    /\ UNCHANGED <<storeVars, inputs, token, seen, requests, disturbances>>

\* The page's own inputs: nothing but the input changes.
TypeInput(p) ==
  /\ MayEdit(p) /\ edits' = edits + 1
  /\ \/ \E port \in NewPorts : inputs' = [inputs EXCEPT ![p].port = port]
     \/ \E t \in NewKeys : inputs' = [inputs EXCEPT ![p].admin_token = t]
  /\ typed' = [typed EXCEPT ![p] = @ \cup {"token"}]
  /\ UNCHANGED <<storeVars, view, token, seen, requests, disturbances>>

Sends(c, r) ==
  /\ requests < MaxRequests /\ requests' = requests + 1
  /\ Send(c, r)
  /\ UNCHANGED <<edits, disturbances>>

\* loadConfig; applyAccessToken sets the token first.
LoadConfig(p) ==
  /\ \E t \in NewKeys \cup {token[p]} :
       /\ token' = [token EXCEPT ![p] = t]
       /\ Sends(Loader(p), Request("GET", t, NoContent, 0))
  /\ UNCHANGED <<view, inputs, seen, typed>>

\* saveConfig, up to the await.
SaveConfig(p) ==
  /\ Sends(Saver(p),
           Request("POST", token[p], CanonicalPayload(view[p], inputs[p]),
                   [seen |-> seen[p], typed |-> typed[p],
                    shown |-> view[p].model_aliases, ids |-> Ids(view[p])]))
  /\ view' = [view EXCEPT ![p] = FormState(@)]
  /\ UNCHANGED <<inputs, token, seen, typed>>

\* After the await: the answer replaces the copy and what was typed meanwhile.
AnswerShown(p, c) ==
  /\ req[c].pc = "answered"
  /\ IF req[c].status = 200
     THEN /\ view' = [view EXCEPT ![p] = Shaped(req[c].content)]
          /\ inputs' = [inputs EXCEPT ![p] = InputsOf(Shaped(req[c].content))]
          /\ seen' = [seen EXCEPT ![p] = req[c].note]
          /\ typed' = [typed EXCEPT ![p] = {}]
     ELSE UNCHANGED <<view, inputs, seen, typed>>
  /\ Receive(c)
  /\ UNCHANGED <<token, bounds>>

Disturbs ==
  disturbances < MaxDisturbances /\ disturbances' = disturbances + 1

\* Any other client, that knows the token.
ScriptPosts(c) ==
  /\ Disturbs
  /\ \E body \in ScriptBodies :
       Send(c, Request("POST", g_config.admin_token, body, NoContent))
  /\ UNCHANGED <<panelVars, edits, requests>>
ScriptReads(c) == Receive(c) /\ UNCHANGED <<panelVars, bounds>>

--------------------------------------------------------------------------------
Scripts == Clients \ (Panels \X {"GET", "POST"})

PanelStep(p) ==
  \/ UpdateProviderId(p) \/ UpdateProviderKey(p) \/ AddProvider(p)
  \/ RemoveProvider(p) \/ AddModelRoute(p) \/ RenameModelRoute(p)
  \/ UpdateModelField(p) \/ RemoveModelRoute(p) \/ AddAlias(p) \/ RemoveAlias(p)
  \/ UpdateModelEffort(p) \/ TypeInput(p) \/ LoadConfig(p) \/ SaveConfig(p)
  \/ AnswerShown(p, Loader(p)) \/ AnswerShown(p, Saver(p))

\* A step of the gateway in which nothing goes wrong.
GatewayStep ==
  \/ \E override \in Overrides : Launch(override)
  \/ DefaultsWritten(TRUE)
  \/ \E c \in Clients :
       \/ Admit(c) \/ Refuse(c) \/ GetConfig(c) \/ PostRefused(c)
       \/ BeginSave(c, TRUE) \/ EndSave(c, TRUE)
FaultStep ==
  \/ DefaultsWritten(FALSE) \/ Crash
  \/ \E c \in Clients :
       SaveThrows(c) \/ BeginSave(c, FALSE) \/ EndSave(c, FALSE)

Next ==
  \/ \E p \in Panels : PanelStep(p)
  \/ \E c \in Scripts : ScriptPosts(c) \/ ScriptReads(c)
  \/ GatewayStep /\ UNCHANGED <<panelVars, bounds>>
  \/ /\ FaultStep
     /\ Disturbs
     /\ UNCHANGED <<panelVars, edits, requests>>

Spec == Init /\ [][Next]_vars

--------------------------------------------------------------------------------
(* Properties.                                                               *)

Saved(c) == lock = c /\ g_config' = updated /\ lock' = NoClient /\ proc' = "up"
NoteOf(p) == req[Saver(p)].note

\* The copy of panel p that is being saved was made from the configuration it
\* replaces.
SavedFresh(p) == Saved(Saver(p)) /\ NoteOf(p).seen = version

DistinctIds(config) ==
  \A i, j \in DOMAIN config.providers :
    config.providers[i].id = config.providers[j].id => i = j

\* A save from an up-to-date panel preserves every secret whose provider the user
\* left alone: the mask in the form stands for the key (resolve_secret_update).
FreshSaveKeepsSecrets ==
  [][\A p \in Panels : SavedFresh(p) =>
       /\ DistinctIds(g_config) =>
            \A id \in (Ids(g_config) \cap Ids(g_config')) \ NoteOf(p).typed :
              KeyOf(g_config'.providers, id) = KeyOf(g_config.providers, id)
       /\ "token" \notin NoteOf(p).typed =>
            g_config'.admin_token = g_config.admin_token]_vars

\* Configurations whose routes the panel can tell apart: models complete and of
\* a known provider, no colon in an upstream's name, no two models alike.
PanelSafe(config) ==
  \A m \in DOMAIN config.models :
    /\ Len(config.models[m].upstream_model) = 1
    /\ config.models[m].provider \in Ids(config)
    /\ ModelsFor(config.models, config.models[m].provider,
                 config.models[m].upstream_model) = {m}

\* The routes, with the place of the provider in the list for its id.
RoutesByPlace(config) ==
  [name \in Resolvable(config) |->
     [Routes(config)[name] EXCEPT
        !.provider = SelectInSeq(config.providers, LAMBDA p : p.id = @)]]

\* An up-to-date panel that is saved after no edit, or with providers renamed,
\* added, or given other keys, changes no route: the models follow their provider
\* (updateProvider, buildCanonicalPayload, handle_post_config).
FreshSaveKeepsRoutes ==
  [][\A p \in Panels :
       /\ SavedFresh(p) /\ "route" \notin NoteOf(p).typed
       /\ PanelSafe(g_config) /\ DistinctIds(g_config) /\ DistinctIds(g_config')
       => RoutesByPlace(g_config') = RoutesByPlace(g_config)]_vars

\* Whatever was edited, and however old the copy: after the save each alias routes
\* to the provider and the upstream model that the panel showed for it.
SaveRoutesAsShown ==
  [][\A p \in Panels : Saved(Saver(p)) =>
       LET shown == NoteOf(p).shown
       IN  \A a \in DOMAIN shown \ DOMAIN g_config'.models :
             Len(shown[a]) = 2 /\ Head(shown[a]) \in NoteOf(p).ids =>
               /\ a \in Resolvable(g_config')
               /\ TargetOf(ResolveModel(g_config', a)) = shown[a]]_vars

\* README: "provider API keys and the admin token are masked in the control panel
\* and preserved on save when the masked value is left unchanged". Nobody types a
\* mask, so none is ever a key.
MaskedKeysPreserved ==
  \A i \in DOMAIN g_config.providers :
    g_config.providers[i].api_key \notin {MaskOf[s] : s \in Secrets \ {NoSecret}}
================================================================================
