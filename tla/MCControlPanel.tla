----------------------------- MODULE MCControlPanel -----------------------------
(* A finite instance of ControlPanel.                                        *)
EXTENDS ControlPanel

MCOnePanel == {"p1"}
MCOnePanelClients == MCOnePanel \X {"GET", "POST"} \cup {<<"curl", "POST">>}

\* Two keys and a token, and their masks.
MCMaskOf == [s \in {"", "k1", "k2", "*1", "*2"} |->
               CASE s \in {"k1", "*1"} -> "*1" [] s \in {"k2", "*2"} -> "*2"
                 [] OTHER -> ""]

Name(base) == [base |-> <<base>>, seq |-> 1]
Model(provider, upstream, effort) ==
  [NewModel(provider, upstream) EXCEPT !.effort = effort]

MCDefault ==
  [EmptyConfig EXCEPT
     !.providers = <<[id |-> "A", api_key |-> "k1"]>>,
     !.models  = [n \in {Name("u")} |-> Model("A", <<"u">>, "")],
     !.aliases = [n \in {Name("x")} |-> Name("u")]]

\* Two providers and a token; an alias of the old kind, and one without a colon.
MCOldFile ==
  Whole([FileOf(MCDefault) EXCEPT
     !.admin_token = "k2",
     !.providers = @ \o <<[id |-> "B", api_key |-> "k2"]>>,
     !.model_aliases = [n \in {Name("x"), Name("y"), Name("z")} |->
                          CASE n = Name("x") -> <<"A", "v">>
                            [] n = Name("y") -> <<"B", "w">>
                            [] OTHER -> <<"A">>]])

MCFiles == {Missing, MCOldFile}
MCDefaultOnly == {Missing}
MCUpstreams == {<<>>, <<"u">>, <<"w", "free">>}
MCAliasNames == {Name("x"), Name("y")}
MCOverrides == {9000}
MCNoOverrides == {NoOverride}
MCScriptBodies ==
  {[thread_pool_size |-> 0 - 1],
   [admin_token |-> "k1", providers |-> <<[id |-> "B"], [id |-> "A"]>>,
    model_aliases |-> [n \in {Name("x")} |-> <<"A", "w", "free">>]]}
MCNoBodies == {}
================================================================================
