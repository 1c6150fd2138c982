------------------------------- MODULE AiSession -------------------------------
(***************************************************************************)
(* The AI sessions of a desktop server: launching one, switching its agent *)
(* and routing the requests of its codex process to a provider, with the   *)
(* fallback model (src/desktop-server/src/app/ai/session.rs and the proxy  *)
(* of src/desktop-server/src/api/ai.rs).  Each handler reads the registry, *)
(* awaits, and writes it back; the handlers of several calls interleave.   *)
(***************************************************************************)
EXTENDS AiConfig

CONSTANTS Sessions, Terminals,  \* ids, new ones and those the backend gives
          Calls,                \* calls that are being served at once
          Configs,              \* effective configurations of the workspace
          Window,               \* context window of a model
          Tokens,               \* tokens a session may have in its context
          MaxFailures, MaxCalls \* bounds: breaker count, calls served

AgentNames == UNION {AgentIds(c) : c \in Configs}

(* The files of a launch: the agent and the bridge configuration.          *)
LaunchFiles(c, launch) ==
    [agent |-> launch.agent.id, bridge |-> build_codex_bridge_toml(c, launch)]

(* In a bridge, the model of each role is in the list, and agents delegate *)
(* to roles that were written.                                             *)
BridgeIsClosed(b) ==
    LET roles == {b.roles[i].id : i \in DOMAIN b.roles} IN
    /\ b.agents \subseteq roles
    /\ \A i \in DOMAIN b.roles :
          /\ b.roles[i].agents \subseteq roles
          /\ \E j \in DOMAIN b.models : b.models[j].id = b.roles[i].model

(* A switch of a session to a launch, between its two steps.               *)
SwitchCall(s, launch) == [kind |-> "switch", session |-> s, launch |-> launch]

(* The providers of a configuration, and the models of each provider, have *)
(* ids of their own, and the sorting knows the providers.                   *)
SoundProviders(ps) ==
    /\ ps \in Seq(ToSet(ps)) /\ ensure_unique_ids(ps)
    /\ \A p \in ToSet(ps) : /\ p.models \in Seq(ToSet(p.models)) /\ ensure_unique_ids(p.models)
                           /\ p.id \in ToSet(NameOrder)

(* The count reaches the threshold of three; None is no terminal, and       *)
(* neither the files nor a switch of a launch; providers are as they are    *)
(* saved (validate_sirix_config).                                          *)
ASSUME BoundsAssumption == MaxFailures \in Nat /\ MaxFailures >= 3
ASSUME NoneAssumption == None \notin Terminals
ASSUME LaunchAssumption ==
    \A c \in Configs : \A a \in AgentNames :
       LET launch == LaunchConfig(c, a) IN
       launch # None => /\ LaunchFiles(c, launch) # None
                        /\ \A s \in Sessions : SwitchCall(s, launch) # None
ASSUME ConfigsAssumption ==
    /\ NameOrder \in Seq(ToSet(NameOrder))
    /\ \A c \in Configs : /\ c = SirixConfig(c.default_agent_id, c.close, c.providers, c.agents)
                         /\ c.agents \in Seq(ToSet(c.agents)) /\ SoundProviders(c.providers)

VARIABLES config,         \* the effective configuration now on disk
          live,           \* terminals that exist
          sessions,       \* AiSessionRegistry.sessions
          terminal_index, \* the session of a terminal
          provider_index, \* the provider routing and fallback of a session
          files,          \* agent and bridge configuration in the session's files
          remote,         \* sessions the backend has registered
          calls,          \* calls[k]: the call k is serving
          served,         \* calls begun
          crossed         \* sessions for which two switches ran at once

vars == <<config, live, sessions, terminal_index, provider_index, files, remote, calls, served,
          crossed>>

Registry == <<sessions, terminal_index, provider_index>>

----------------------------------------------------------------------------
(* Registry                                                                *)

Live(s) == sessions[s] # None

SessionFallbackState(launch) ==
    [primary |-> launch.model.model, fallback |-> launch.agent.fallback[2],
     count |-> 0, disabled |-> "no"]

Routing(launch) ==
    [active |-> launch.model.provider, providers |-> launch.session_providers,
     agent |-> launch.agent.id, fallback |-> SessionFallbackState(launch)]

(* A terminal has one session: the one it had before is forgotten.         *)
insert(s, t, launch) ==
    LET gone == {terminal_index[t]} \cap Sessions IN
    /\ terminal_index' = [terminal_index EXCEPT ![t] = s]
    /\ sessions' = [x \in Sessions |-> IF x = s THEN t ELSE IF x \in gone THEN None ELSE sessions[x]]
    /\ provider_index' = [x \in Sessions |-> IF x = s THEN Routing(launch)
                                             ELSE IF x \in gone THEN None ELSE provider_index[x]]

(* Mutant: a switch of the agent leaves the providers as they were.        *)
update_runtime_keeping_providers(s, launch) ==
    provider_index' = [provider_index EXCEPT ![s] =
        [Routing(launch) EXCEPT !.providers = provider_index[s].providers]]

(* Mutant: switching the agent keeps the count of failures.                *)
update_runtime_keeping_breaker(s, launch) ==
    provider_index' = [provider_index EXCEPT ![s] =
        [Routing(launch) EXCEPT !.fallback.count = provider_index[s].fallback.count,
                                !.fallback.disabled = provider_index[s].fallback.disabled]]

update_runtime(s, launch) ==
    provider_index' = [provider_index EXCEPT ![s] = Routing(launch)]

should_use_fallback_model(f, model) ==
    f.fallback # "" /\ f.primary = model /\ f.disabled = "yes"

(* The enabled provider of a model that comes first: the active one, else  *)
(* the first by name.  Models of every kind count.                         *)
ProviderOf(r, model) ==
    LET offering == Filter(r.providers, LAMBDA p : p.enabled /\
                       \E i \in DOMAIN p.models : p.models[i].enabled /\ p.models[i].id = model)
        ordered == Filter(offering, LAMBDA p : p.id = r.active) \o SortByName(offering)
    IN  IF ordered = <<>> THEN None ELSE Head(ordered).id

(* A picker entry names its provider, unless the model is disabled.        *)
resolve_provider_for_model(r, requested) ==
    LET choice == resolve_session_picker_model(r.providers, <<requested>>)
    IN  IF choice # None /\ ~should_use_fallback_model(r.fallback, choice.model)
        THEN choice.provider
        ELSE ProviderOf(r, IF should_use_fallback_model(r.fallback, requested)
                           THEN r.fallback.fallback ELSE requested)

CountsAsPrimary(f, slug) == f.primary = slug

(* The third failure disables the primary model for an hour.               *)
record_primary_model_failure(f, slug) ==
    IF ~CountsAsPrimary(f, slug) \/ f.fallback = "" THEN f
    ELSE [f EXCEPT !.count = IF @ < MaxFailures THEN @ + 1 ELSE @,
                   !.disabled = IF f.count + 1 >= 3 THEN "yes" ELSE @]

record_primary_model_success(f, slug) ==
    IF CountsAsPrimary(f, slug) THEN [f EXCEPT !.count = 0, !.disabled = "no"] ELSE f

effective_model_runtime_context_window(model) == (Window[model] * 95) \div 100

validate_agent_context_window_switch(tokens, model) ==
    tokens = None \/ tokens <= effective_model_runtime_context_window(model)

(* The files a codex process of the session reads.                         *)
prepare_session_launch_files(launch) == LaunchFiles(config, launch)

----------------------------------------------------------------------------
(* Launching                                                               *)

Free(k) == calls[k] = None /\ served < MaxCalls

Begin(k, call) ==
    /\ calls' = [calls EXCEPT ![k] = call]
    /\ served' = served + 1

Serving(kind) == {k \in Calls : calls[k] # None /\ calls[k].kind = kind}

Fresh(s) ==
    sessions[s] = None /\ files[s] = None
    /\ s \notin remote \cup {calls[k].session : k \in Serving("launch")}

(* The backend is told first when the event stream is up; it gives the ids.*)
launch_ai_session(k, s, t) ==
    /\ Free(k) /\ Fresh(s)
    /\ t \notin live \cup {calls[j].terminal : j \in Serving("launch")}
    /\ LaunchConfig(config, "") # None
    /\ \E a \in AgentIds(config), mirrored \in BOOLEAN :
          /\ Begin(k, [kind |-> "launch", session |-> s, terminal |-> t, agent |-> a,
                       launch |-> None, new |-> TRUE])
          /\ remote' = IF mirrored THEN remote \cup {s} ELSE remote
    /\ UNCHANGED <<config, live, files, crossed>> /\ UNCHANGED Registry

launch_ai_session_in_current_terminal(k, s, t) ==
    /\ Free(k) /\ Fresh(s) /\ t \in live
    /\ LaunchConfig(config, "") # None
    /\ \E a \in AgentIds(config) :
          Begin(k, [kind |-> "launch", session |-> s, terminal |-> t, agent |-> a,
                    launch |-> None, new |-> FALSE])
    /\ UNCHANGED <<config, live, files, remote, crossed>> /\ UNCHANGED Registry

(* The configuration is read again once the backend has answered.          *)
WriteLaunchFiles(k) ==
    LET c == calls[k] IN
    /\ c # None /\ c.kind = "launch" /\ c.launch = None
    /\ LET launch == LaunchConfig(config, c.agent)
       IN  IF launch = None THEN calls' = [calls EXCEPT ![k] = None] /\ UNCHANGED files
           ELSE /\ calls' = [calls EXCEPT ![k].launch = launch]
                /\ files' = [files EXCEPT ![c.session] = prepare_session_launch_files(launch)]
    /\ UNCHANGED <<config, live, remote, served, crossed>> /\ UNCHANGED Registry

(* The terminal is there before its session is; it may fail to start.      *)
create_codex_terminal(k) ==
    LET c == calls[k] IN
    /\ c # None /\ c.kind = "launch" /\ c.launch # None /\ c.new
    /\ \/ live' = live \cup {c.terminal} /\ calls' = [calls EXCEPT ![k].new = FALSE]
       \/ live' = live /\ calls' = [calls EXCEPT ![k] = None]
    /\ UNCHANGED <<config, files, remote, served, crossed>> /\ UNCHANGED Registry

RegisterSession(k) ==
    LET c == calls[k] IN
    /\ c # None /\ c.kind = "launch" /\ c.launch # None /\ ~c.new
    /\ insert(c.session, c.terminal, c.launch)
    /\ calls' = [calls EXCEPT ![k] = None]
    /\ UNCHANGED <<config, live, files, remote, served, crossed>>

----------------------------------------------------------------------------
(* Switching the agent                                                     *)

reconfigure_ai_session_agent(k, s, agent, tokens) ==
    LET launch == LaunchConfig(config, agent) IN
    /\ Free(k) /\ Live(s) /\ launch # None
    /\ validate_agent_context_window_switch(tokens, launch.model.model)
    /\ Begin(k, SwitchCall(s, launch))
    /\ files' = [files EXCEPT ![s] = prepare_session_launch_files(launch)]
    /\ crossed' = IF s \in {calls[j].session : j \in Serving("switch")}
                  THEN crossed \cup {s} ELSE crossed
    /\ UNCHANGED <<config, live, remote>> /\ UNCHANGED Registry

FinishSwitch(k) ==
    LET c == calls[k] IN
    /\ c # None /\ c.kind = "switch"
    /\ IF Live(c.session) THEN update_runtime(c.session, c.launch) ELSE UNCHANGED provider_index
    /\ calls' = [calls EXCEPT ![k] = None]
    /\ UNCHANGED <<config, live, files, remote, served, sessions, terminal_index, crossed>>

----------------------------------------------------------------------------
(* The model proxy                                                         *)

(* What a codex process asks for: an entry of the list it was launched     *)
(* with, or the bare model id its configuration names.                     *)
Askable(s) ==
    LET m == files[s].bridge.models IN {m[i].id : i \in DOMAIN m} \cup {<<m[i].shows.model>> : i \in DOMAIN m}

(* First read: the providers of the session.                               *)
proxy_compatible_responses(k, s, requested) ==
    LET choice == resolve_session_picker_model(provider_index[s].providers, requested) IN
    /\ Free(k) /\ Live(s)
    /\ Begin(k, [kind |-> "proxy", session |-> s, requested |-> requested,
                 slug |-> IF choice = None THEN requested ELSE <<choice.model>>,
                 alias |-> IF choice = None THEN None ELSE choice.provider,
                 effective |-> None, provider |-> None])
    /\ UNCHANGED <<config, live, files, remote, crossed>> /\ UNCHANGED Registry

(* Second read: is the model asked for disabled?                           *)
ChooseEffectiveModel(k) ==
    LET c == calls[k] IN
    /\ c # None /\ c.kind = "proxy" /\ c.effective = None
    /\ calls' = [calls EXCEPT ![k].effective =
          IF Live(c.session) /\ should_use_fallback_model(provider_index[c.session].fallback, c.slug[1])
             /\ Len(c.slug) = 1
          THEN <<provider_index[c.session].fallback.fallback>> ELSE c.slug]
    /\ UNCHANGED <<config, live, files, remote, served, crossed>> /\ UNCHANGED Registry

(* Third read: the provider of the model; without one the answer is 404.   *)
ChooseProvider(k) ==
    LET c == calls[k]
        found == IF ~Live(c.session) \/ Len(c.effective) > 1 THEN None
                 ELSE resolve_provider_for_model(provider_index[c.session], c.effective[1])
        provider == IF c.effective = c.slug /\ c.alias # None THEN c.alias ELSE found
    IN  /\ c # None /\ c.kind = "proxy" /\ c.effective # None /\ c.provider = None
        /\ calls' = IF provider = None THEN [calls EXCEPT ![k] = None]
                    ELSE [calls EXCEPT ![k].provider = provider]
        /\ UNCHANGED <<config, live, files, remote, served, crossed>> /\ UNCHANGED Registry

(* The provider answers, or fails; the session may be gone by then.        *)
FinishProxy(k) ==
    LET c == calls[k] IN
    /\ c # None /\ c.kind = "proxy" /\ c.provider # None
    /\ calls' = [calls EXCEPT ![k] = None]
    /\ IF ~Live(c.session) THEN UNCHANGED provider_index
       ELSE LET f == provider_index[c.session].fallback IN
            \E after \in {record_primary_model_success(f, c.slug[1]),
                          record_primary_model_failure(f, c.slug[1])} :
               provider_index' = [provider_index EXCEPT ![c.session].fallback = after]
    /\ UNCHANGED <<config, live, files, remote, served, sessions, terminal_index, crossed>>

HourPasses(s) ==
    /\ Live(s) /\ provider_index[s].fallback.disabled = "yes"
    /\ provider_index' = [provider_index EXCEPT ![s].fallback.disabled = "past"]
    /\ UNCHANGED <<config, live, sessions, terminal_index, files, remote, calls, served, crossed>>

SaveSettings ==
    /\ \E c \in Configs \ {config} : config' = c
    /\ served < MaxCalls /\ served' = served + 1
    /\ UNCHANGED <<live, files, remote, calls, crossed>> /\ UNCHANGED Registry

----------------------------------------------------------------------------
Init ==
    /\ config \in Configs
    /\ \E t \in Terminals : live = {t}
    /\ sessions = [s \in Sessions |-> None]
    /\ terminal_index = [t \in Terminals |-> None]
    /\ provider_index = [s \in Sessions |-> None]
    /\ files = [s \in Sessions |-> None]
    /\ remote = {} /\ served = 0 /\ crossed = {}
    /\ calls = [k \in Calls |-> None]

Next ==
    \/ \E k \in Calls :
          \/ \E s \in Sessions :
                \/ \E t \in Terminals :
                      \/ launch_ai_session(k, s, t)
                      \/ launch_ai_session_in_current_terminal(k, s, t)
                \/ \E a \in AgentIds(config), n \in Tokens : reconfigure_ai_session_agent(k, s, a, n)
                \/ Live(s) /\ \E m \in Askable(s) : proxy_compatible_responses(k, s, m)
          \/ WriteLaunchFiles(k) \/ create_codex_terminal(k) \/ RegisterSession(k)
          \/ FinishSwitch(k)
          \/ ChooseEffectiveModel(k) \/ ChooseProvider(k) \/ FinishProxy(k)
    \/ \E s \in Sessions : HourPasses(s)
    \/ SaveSettings

Spec == Init /\ [][Next]_vars

(* A handler that runs comes to its end.                                   *)
Fairness == \A k \in Calls :
    WF_vars(ChooseEffectiveModel(k) \/ ChooseProvider(k) \/ FinishProxy(k) \/ FinishSwitch(k))

----------------------------------------------------------------------------
(* Properties                                                              *)

(* The model picked in the list of a session is the one that answers, at   *)
(* the provider shown, and no model is missing from the list; only a       *)
(* disabled primary model is answered by another.                          *)
PickerRoundTrip ==
    \A s \in Sessions : Live(s) =>
        LET r == provider_index[s]
            list == build_bridge_models_for_session(r.providers, r.active)
        IN  /\ {list[i].shows : i \in DOMAIN list} = ToSet(TextModels(r.providers))
            /\ \A i \in DOMAIN list :
                  resolve_session_picker_model(r.providers, list[i].id) = list[i].shows

(* A primary model is disabled only after three failures with no success   *)
(* or switch between, whichever calls the results belong to, and only if   *)
(* there is a fallback to use instead (session.rs:275).                    *)
BreakerEarned ==
    \A s \in Sessions : Live(s) =>
        LET f == provider_index[s].fallback
        IN  f.disabled # "no" => f.count >= 3 /\ f.fallback # ""

(* The files a codex process reads and the routing of its requests are of  *)
(* the same launch, as long as switches come one at a time; in the files,  *)
(* the model of each role is in the list, and agents delegate to roles     *)
(* that were written.                                                      *)
FilesMatchRouting ==
    \A s \in Sessions :
        Live(s) /\ s \notin crossed \cup {calls[k].session : k \in Serving("switch")} =>
            LET r == provider_index[s]
                b == files[s].bridge
            IN  /\ files[s].agent = r.agent /\ b.model = r.fallback.primary
                /\ b.models = build_bridge_models_for_session(r.providers, r.active)
                /\ BridgeIsClosed(b)

(* Once disabled, the primary model stays so until an hour is over, the    *)
(* agent is switched, or the primary model itself answers.                 *)
DisabledForAnHour ==
    [][\A s \in Sessions :
         Live(s) /\ Live(s)' /\ provider_index[s].fallback.disabled = "yes"
         /\ provider_index'[s].fallback.disabled = "no" =>
             \E k \in Calls : /\ calls[k] # None /\ calls'[k] = None /\ calls[k].session = s
                               /\ calls[k].kind = "proxy" => calls[k].effective = calls[k].slug]_vars
=============================================================================
