------------------------------ MODULE AiConfig ------------------------------
(***************************************************************************)
(* The AI configuration as a value: how src/desktop-server/src/app/ai/     *)
(* config.rs normalises, validates and merges it, and what a launch        *)
(* resolves from it (agent, model, picker entries, sub-agent roles).       *)
(* Agents, providers and models keep what resolution reads; prompts,       *)
(* tools and names are one bit, `stock`; skills and MCP servers, merged    *)
(* and allowed by id as agents and sub-agents are, are left out.           *)
(***************************************************************************)
EXTENDS Naturals, FiniteSets, SequencesExt

CONSTANTS None, NameOrder

DEFAULT_AGENT_ID == "codex"
LEGACY_DEFAULT_AGENT_ID == "default-agent"

----------------------------------------------------------------------------
(* Data                                                                    *)

Model(m, text, enabled, efforts) ==
    [id |-> m, text |-> text, enabled |-> enabled, efforts |-> efforts]

Provider(p, enabled, models) == [id |-> p, enabled |-> enabled, models |-> models]

AgentConfig(a, p, m) ==
    [id |-> a, provider_id |-> p, model_id |-> m, fallback |-> <<"", "">>, effort |-> "high",
     enabled |-> TRUE, stock |-> TRUE, sub_agents_enabled |-> TRUE, sub_agent_ids |-> {}]

SirixConfig(default, close, providers, agents) ==
    [default_agent_id |-> default, close |-> close, providers |-> providers, agents |-> agents]

(* What Workspace Settings may hold: no `cli` and no `providers`.          *)
WorkspaceEditable(c) == SirixConfig(c.default_agent_id, FALSE, <<>>, c.agents)

default_agent_catalog(p, m, presets) ==
    LET codex == [AgentConfig(DEFAULT_AGENT_ID, p, m) EXCEPT
                    !.sub_agent_ids = {presets[i].id : i \in DOMAIN presets}]
    IN  <<codex>> \o presets

DefaultConfig(presets) ==
    SirixConfig(DEFAULT_AGENT_ID, FALSE,
                <<Provider("openai", TRUE, <<Model("gpt5", TRUE, TRUE, None)>>)>>,
                default_agent_catalog("openai", "gpt5", presets))

----------------------------------------------------------------------------
(* Looking things up                                                       *)

(* SelectSeq, as a flattening: what TLAPS has no facts of is spelled out.   *)
Filter(s, Test(_)) == FlattenSeq([i \in DOMAIN s |-> IF Test(s[i]) THEN <<s[i]>> ELSE <<>>])

(* What is at a place, the first that passes a test, Option::or_else.       *)
At(s, i) == IF i = 0 THEN None ELSE s[i]

First(s, Test(_)) == At(s, SelectInSeq(s, Test))

OrElse(x, y) == IF x # None THEN x ELSE y

AgentIds(c) == {c.agents[i].id : i \in DOMAIN c.agents}

SortByName(s) ==
    FlattenSeq([i \in DOMAIN NameOrder |-> Filter(s, LAMBDA x : x.id = NameOrder[i])])

(* Every enabled text model of every enabled provider, in their order.     *)
OfferedModels(p) ==
    LET usable == Filter(p.models, LAMBDA m : p.enabled /\ m.enabled /\ m.text)
    IN  [j \in DOMAIN usable |-> [provider |-> p.id, model |-> usable[j].id,
                                  efforts |-> usable[j].efforts]]

TextModels(providers) == FlattenSeq([i \in DOMAIN providers |-> OfferedModels(providers[i])])

first_enabled_text_model(providers) == First(TextModels(providers), LAMBDA c : TRUE)

resolve_explicit_agent_model(providers, agent) ==
    First(TextModels(providers),
          LAMBDA c : agent.model_id # "" /\ c.model = agent.model_id
                     /\ agent.provider_id \in {"", c.provider})

resolve_cli_default_model(c) ==
    LET codex == First(c.agents, LAMBDA a : a.id = DEFAULT_AGENT_ID)
        explicit == IF codex = None THEN None
                    ELSE resolve_explicit_agent_model(c.providers, codex)
    IN  OrElse(explicit, first_enabled_text_model(c.providers))

resolve_agent_model(c, agent) ==
    OrElse(resolve_explicit_agent_model(c.providers, agent), resolve_cli_default_model(c))

is_agent_launchable(c, agent) == resolve_agent_model(c, agent) # None

(* The first name that is of an agent, else the first agent.                *)
FirstNamed(agents, ids) ==
    LET named == [i \in DOMAIN ids |-> First(agents, LAMBDA a : a.id = ids[i])] \o agents
    IN  First(named, LAMBDA a : a # None)

(* The preferred agent, else the default one, else codex, else the first   *)
(* that can be launched at all.                                            *)
resolve_agent(c, preferred) ==
    LET usable == Filter(c.agents, LAMBDA a : a.enabled /\ is_agent_launchable(c, a))
    IN  FirstNamed(usable, <<preferred, c.default_agent_id, DEFAULT_AGENT_ID>>)

Launch(c, agent) ==
    IF agent = None THEN None
    ELSE [agent |-> agent, model |-> resolve_agent_model(c, agent),
          session_providers |-> Filter(c.providers, LAMBDA p : p.enabled)]

(* build_launch_config: the agent and the model of a launch.               *)
LaunchConfig(c, preferred) == Launch(c, resolve_agent(c, preferred))

----------------------------------------------------------------------------
(* Normalising                                                             *)

dedup_by_id(s) ==
    LET first == {i \in DOMAIN s : \A j \in 1..(i - 1) : s[j].id # s[i].id}
    IN  FlattenSeq([i \in DOMAIN s |-> IF i \in first THEN <<s[i]>> ELSE <<>>])

migrate_default_agent_to_codex(agents) ==
    IF \E i \in DOMAIN agents : agents[i].id = DEFAULT_AGENT_ID
    THEN Filter(agents, LAMBDA a : a.id # LEGACY_DEFAULT_AGENT_ID)
    ELSE LET legacy == SelectInSeq(agents, LAMBDA a : a.id = LEGACY_DEFAULT_AGENT_ID)
         IN  IF legacy = 0 THEN agents ELSE [agents EXCEPT ![legacy].id = DEFAULT_AGENT_ID]

(* Mutant: a disabled codex stays disabled.                                *)
normalize_builtin_codex_agent_keeping_disabled(a) ==
    IF a.id = DEFAULT_AGENT_ID THEN [a EXCEPT !.stock = TRUE] ELSE a

(* The built-in profile cannot be switched off or given a prompt.          *)
normalize_builtin_codex_agent(a) ==
    IF a.id = DEFAULT_AGENT_ID THEN [a EXCEPT !.enabled = TRUE, !.stock = TRUE] ELSE a

normalize_workspace_agent(a) == normalize_builtin_codex_agent(a)

normalize_sirix_config(c, presets) ==
    LET agents == [i \in DOMAIN migrate_default_agent_to_codex(c.agents) |->
                     normalize_builtin_codex_agent(migrate_default_agent_to_codex(c.agents)[i])]
        ids == {agents[i].id : i \in DOMAIN agents}
        first == first_enabled_text_model(c.providers)
        codex == [AgentConfig(DEFAULT_AGENT_ID, first.provider, first.model) EXCEPT
                    !.sub_agent_ids = {presets[i].id : i \in DOMAIN presets} \cap ids]
        default == IF c.default_agent_id = "" THEN DEFAULT_AGENT_ID ELSE c.default_agent_id
    IN  [c EXCEPT !.default_agent_id = default,
                  !.agents = IF DEFAULT_AGENT_ID \in ids \/ first = None THEN agents
                             ELSE <<codex>> \o agents]

(* An overlay keeps an empty default agent, which means "inherit".         *)
normalize_workspace_editable_config(c) ==
    [WorkspaceEditable(c) EXCEPT
       !.agents = dedup_by_id([i \in DOMAIN c.agents |-> normalize_workspace_agent(c.agents[i])])]

(* A Codex config of before Sirix: one model, offered by every provider.   *)
parse_legacy_codex_config(legacy, presets) ==
    LET offered == [i \in DOMAIN legacy.providers |->
                      [legacy.providers[i] EXCEPT !.models = <<Model(legacy.model, TRUE, TRUE, None)>>]]
        providers == IF offered # <<>> THEN offered
                     ELSE <<Provider("openai", TRUE, <<Model(legacy.model, TRUE, TRUE, None)>>)>>
        Enabled == Filter(providers, LAMBDA p : p.enabled)
        named == First(Enabled, LAMBDA p : p.id = legacy.provider)
        provider == IF named # None THEN named.id
                    ELSE IF Enabled # <<>> THEN Head(Enabled).id ELSE "openai"
        template == Head(DefaultConfig(presets).agents)
    IN  SirixConfig(DEFAULT_AGENT_ID, legacy.close, providers,
                    <<[template EXCEPT !.provider_id = provider, !.model_id = legacy.model]>>)

parse_config_with_compat(file, presets) ==
    normalize_sirix_config(
        IF "legacy" \in DOMAIN file THEN parse_legacy_codex_config(file.legacy, presets) ELSE file,
        presets)

----------------------------------------------------------------------------
(* Validating and merging                                                  *)

ensure_unique_ids(s) ==
    /\ \A i \in DOMAIN s : s[i].id # ""
    /\ \A i, j \in DOMAIN s : s[i].id = s[j].id => i = j

(* The references a configuration must keep; an agent's own model may be   *)
(* stale, its fallback may not.                                            *)
validate_sirix_config(c) ==
    /\ ensure_unique_ids(c.providers)
    /\ ensure_unique_ids(c.agents)
    /\ \A i \in DOMAIN c.providers : ensure_unique_ids(c.providers[i].models)
    /\ \A i \in DOMAIN c.agents :
          LET f == c.agents[i].fallback IN
          /\ (f[1] = "") <=> (f[2] = "")
          /\ f[1] = "" \/ \E j \in DOMAIN c.providers :
                /\ c.providers[j].id = f[1]
                /\ \E k \in DOMAIN c.providers[j].models : c.providers[j].models[k].id = f[2]
          /\ c.agents[i].sub_agent_ids \subseteq AgentIds(c)
    /\ c.default_agent_id \in AgentIds(c) \cup {""}

merge_items_by_id(base, overlay) ==
    [i \in DOMAIN base |->
       LET own == Filter(overlay, LAMBDA x : x.id = base[i].id)
       IN  IF own = <<>> THEN base[i] ELSE Last(own)]
    \o Filter(overlay, LAMBDA x : \A i \in DOMAIN base : base[i].id # x.id)

merge_sirix_config(base, overlay) ==
    SirixConfig(IF overlay.default_agent_id = "" THEN base.default_agent_id
                                                 ELSE overlay.default_agent_id,
                base.close \/ overlay.close,
                IF overlay.providers = <<>> THEN base.providers ELSE overlay.providers,
                merge_items_by_id(base.agents, overlay.agents))

(* An empty agents directory is seeded from what the file still has        *)
(* inline and from the presets.                                            *)
default_agent_catalog_from_agents(existing, presets) ==
    LET codex == First(existing, LAMBDA a : a.id = DEFAULT_AGENT_ID)
        source == IF codex # None THEN codex ELSE First(existing, LAMBDA a : TRUE)
    IN  IF source = None \/ source.model_id = ""
        THEN default_agent_catalog("openai", "gpt5", presets)
        ELSE default_agent_catalog(source.provider_id, source.model_id, presets)

SeededCatalog(inline, presets) ==
    merge_items_by_id(default_agent_catalog_from_agents(inline, presets), inline)

----------------------------------------------------------------------------
(* The bridge: models offered by the picker, roles of the sub-agents       *)

duplicate_session_text_model_ids(providers) ==
    LET t == TextModels(providers)
    IN  {t[i].model : i \in {i \in DOMAIN t : \E j \in DOMAIN t : j # i /\ t[j].model = t[i].model}}

(* Mutant: duplicates are not told apart.                                  *)
session_picker_model_id_plain(providers, choice) == <<choice.model>>

(* The model's id, or "model @ provider" when providers share the id.      *)
session_picker_model_id(providers, choice) ==
    IF choice.model \in duplicate_session_text_model_ids(providers)
    THEN <<choice.model, choice.provider>> ELSE <<choice.model>>

resolve_session_picker_model(providers, picked) ==
    First(TextModels(providers), LAMBDA c : session_picker_model_id(providers, c) = picked)

ActiveFirst(providers, active) ==
    Filter(providers, LAMBDA p : p.id = active)
    \o SortByName(Filter(providers, LAMBDA p : p.id # active))

(* The active provider's models first, each picker id once.                *)
build_bridge_models_for_session(providers, active) ==
    LET offered == TextModels(ActiveFirst(providers, active))
        entries == [i \in DOMAIN offered |->
                      [id |-> session_picker_model_id(providers, offered[i]), shows |-> offered[i]]]
    IN  dedup_by_id(entries)

selected_agent_sub_agents(c, agent) ==
    Filter(c.agents, LAMBDA a :
        /\ agent.sub_agents_enabled /\ a.id # agent.id
        /\ agent.sub_agent_ids = {} \/ a.id \in agent.sub_agent_ids
        /\ a.enabled /\ is_agent_launchable(c, a))

agent_model_reasoning_effort_for_model(agent, choice) ==
    IF choice.efforts = None \/ agent.effort \in choice.efforts THEN agent.effort ELSE None

(* Only the launched agent and those it may delegate to are exported.      *)
RoleScoped(c, agent) ==
    [c EXCEPT !.agents = <<agent>> \o selected_agent_sub_agents(c, agent)]

(* One role file per agent of the scope: its model, effort and sub-agents. *)
write_sirix_agent_role_files(c) ==
    LET roles == Filter(c.agents, LAMBDA a : a.enabled /\ is_agent_launchable(c, a))
        Role(a) == LET choice == resolve_agent_model(c, a) IN
            [id |-> a.id, model |-> session_picker_model_id(c.providers, choice),
             effort |-> agent_model_reasoning_effort_for_model(a, choice),
             agents |-> {b.id : b \in ToSet(selected_agent_sub_agents(c, a))}]
    IN  [i \in DOMAIN roles |-> Role(roles[i])]

build_codex_bridge_toml(c, launch) ==
    LET scoped == RoleScoped(c, launch.agent) IN
    [model |-> launch.model.model,
     effort |-> agent_model_reasoning_effort_for_model(launch.agent, launch.model),
     models |-> build_bridge_models_for_session(launch.session_providers, launch.model.provider),
     roles |-> write_sirix_agent_role_files(scoped),
     agents |-> {b.id : b \in ToSet(selected_agent_sub_agents(scoped, launch.agent))},
     close |-> c.close]
=============================================================================
