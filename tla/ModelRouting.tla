------------------------------ MODULE ModelRouting ------------------------------
(* How a model name of a request becomes a provider and an upstream model    *)
(* (src/src/config.h): models, aliases, and the older "model_aliases" of a   *)
(* configuration file, whose targets are texts "provider:upstream".          *)
(*                                                                           *)
(* A text is the sequence of its parts between colons, so an upstream name   *)
(* such as "qwen:free" is <<"qwen", "free">>. Model ids and aliases are      *)
(* names [base, seq]: "base" for seq 1, "base-seq" for more. The id inside a *)
(* model is its key. Of the request overrides the effort stands for both.    *)
EXTENDS Naturals, Sequences, SequencesExt

EmptyMap == [x \in {} |-> x]
WithoutKeys(f, keys) == [x \in DOMAIN f \ keys |-> f[x]]
WithEntry(f, key, value) ==
  [x \in DOMAIN f \cup {key} |-> IF x = key THEN value ELSE f[x]]

\* A name nobody uses: the base itself, or with the first free number from 2 on.
FreshName(base, taken) ==
  [base |-> base,
   seq  |-> CHOOSE n \in 1..(Cardinality(taken) + 1) :
              /\ [base |-> base, seq |-> n] \notin taken
              /\ \A k \in 1..(n - 1) : [base |-> base, seq |-> k] \in taken]

NewModel(provider, upstream) ==
  [provider |-> provider, upstream_model |-> upstream, effort |-> "",
   override |-> ""]

\* "provider:upstream", as save and the control panel write it.
TargetOf(model) == <<model.provider>> \o model.upstream_model

\* The models that route to a provider and an upstream model.
ModelsFor(models, provider, upstream) ==
  {id \in DOMAIN models : /\ models[id].provider = provider
                          /\ models[id].upstream_model = upstream}

\* An effort outside request_overrides counts where the overrides have none.
ModelFromJson(model) ==
  [provider |-> model.provider, upstream_model |-> model.upstream_model,
   effort |-> model.effort,
   override |-> IF model.override = "" THEN model.effort ELSE model.override]
ModelsFromJson(models) == [id \in DOMAIN models |-> ModelFromJson(models[id])]

--------------------------------------------------------------------------------
(* load: the routes of a configuration file.                                 *)

\* One entry of model_aliases: the target is split at its first colon; a model
\* that routes there is used (which one, if several do, is left open), else one
\* is made, named after the alias.
AddLegacyAlias(routes, alias, target) ==
  LET provider == Head(target)
      upstream == Tail(target)
      known    == ModelsFor(routes.models, provider, upstream)
      id       == IF known # {} THEN CHOOSE m \in known : TRUE
                  ELSE FreshName(alias.base, DOMAIN routes.models)
  IN  [models  |-> IF known # {} THEN routes.models
                   ELSE WithEntry(routes.models, id, NewModel(provider, upstream)),
       aliases |-> WithEntry(routes.aliases, alias, id)]

\* Entries of model_aliases that are read: those without an entry in aliases
\* and with a colon.
LegacyAliases(file) ==
  {a \in DOMAIN file.model_aliases \ DOMAIN file.aliases :
     Len(file.model_aliases[a]) > 1}

\* Without any alias each model becomes its own.
LoadRoutes(file) ==
  LET base   == [models  |-> ModelsFromJson(file.models),
                 aliases |-> file.aliases]
      legacy == LegacyAliases(file)
      routes == IF legacy = {} THEN base
                ELSE FoldSet(LAMBDA a, acc :
                               AddLegacyAlias(acc, a, file.model_aliases[a]),
                             base, legacy)
  IN  IF DOMAIN routes.aliases # {} THEN routes
      ELSE [routes EXCEPT !.aliases = [id \in DOMAIN routes.models |-> id]]

\* save and config_to_json: model_aliases repeats the aliases whose model exists.
ModelAliasesOf(models, aliases) ==
  [a \in {a \in DOMAIN aliases : aliases[a] \in DOMAIN models} |->
     TargetOf(models[aliases[a]])]

--------------------------------------------------------------------------------
(* resolveModel: a model id first, then an alias of a model that exists.     *)

Resolvable(config) ==
  DOMAIN config.models
    \cup {a \in DOMAIN config.aliases : config.aliases[a] \in DOMAIN config.models}

ResolveModel(config, name) ==
  IF name \in DOMAIN config.models THEN config.models[name]
  ELSE config.models[config.aliases[name]]

\* model_effort_override: what the request is sent with.
ModelEffort(model) == IF model.override # "" THEN model.override ELSE model.effort

\* What the names of a configuration stand for: all that a request sees of it.
Routes(config) ==
  [name \in Resolvable(config) |->
     LET model == ResolveModel(config, name)
     IN  [provider |-> model.provider, upstream_model |-> model.upstream_model,
          effort |-> ModelEffort(model)]]
================================================================================
