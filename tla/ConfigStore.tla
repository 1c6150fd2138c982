----------------------------- MODULE ConfigStore -----------------------------
(***************************************************************************)
(* SirixConfigStore (src/desktop-server/src/app/ai/config.rs) and the HTTP *)
(* handlers over it (src/desktop-server/src/api/ai.rs): the global and the *)
(* workspace configuration, each a config.toml beside a directory with one *)
(* file per agent.  A handler loads, then writes file by file under no     *)
(* lock, and fs::write truncates a file before it writes it, all at once;  *)
(* handlers of two requests interleave, and a crash may fall between any   *)
(* two of these steps.  A read of one configuration is one step.           *)
(***************************************************************************)
EXTENDS AiConfig

CONSTANTS Requests,          \* concurrent requests
          Presets,           \* the preset agents
          Files,             \* global config.toml files found at first start
          Payloads,          \* configurations the settings page may save
          WorkspacePayloads, \* the same for Workspace Settings
          MaxEvents          \* bound: requests and crashes

VARIABLES disk,        \* disk[place]: config.toml and the agent files there,
                       \* and the names of files that are empty or garbled
          saves,       \* saves[r]: the saves request r has still to carry out
          alone,       \* no request overlapped another since the last save began
          saved,       \* the last global configuration saved, if alone
          events       \* requests and crashes so far

vars == <<disk, saves, alone, saved, events>>

Place == {"global", "workspace"}
ConfigFile == "config.toml"

(* An empty config.toml is one that declares nothing.  Whether the close    *)
(* toggle is declared is looked at in a workspace only.                    *)
EmptyFile(place) == SirixConfig("", IF place = "workspace" THEN None ELSE FALSE, <<>>, <<>>)

AgentFiles(d) == {a.id : a \in d.agents} \cup ((d.empty \cup d.garbled) \ {ConfigFile})

(* Without id and name a file is no agent, and loading the agents fails.   *)
AgentsRead(d) == (d.empty \cup d.garbled) \subseteq {ConfigFile}

(* Whether loading succeeds.  The global agents are not read while there   *)
(* is no config.toml.                                                      *)
GlobalLoads(d) == d.config = None \/ (AgentsRead(d) /\ d.garbled = {})
WorkspaceLoads(d) == AgentsRead(d) /\ d.garbled = {}

----------------------------------------------------------------------------
(* Loading                                                                 *)

load_agent_configs_from_dir(d) ==
    LET files == SortByName(SetToSeq(d.agents))
    IN  [i \in DOMAIN files |-> normalize_workspace_agent(files[i])]

load_agent_catalog_from_dir(d, inline) ==
    IF d.agents # {} THEN load_agent_configs_from_dir(d) ELSE SeededCatalog(inline, Presets)

load_global(d) ==
    IF d.config = None THEN DefaultConfig(Presets)
    ELSE LET parsed == parse_config_with_compat(d.config, Presets)
         IN  normalize_sirix_config(
                [parsed EXCEPT !.agents = load_agent_catalog_from_dir(d, parsed.agents)], Presets)

load_workspace_config(d) ==
    IF d.config = None
    THEN IF d.agents = {} THEN None
         ELSE normalize_workspace_editable_config(
                 SirixConfig("", FALSE, <<>>, load_agent_configs_from_dir(d)))
    ELSE normalize_workspace_editable_config(
            IF d.agents = {} THEN d.config
            ELSE [d.config EXCEPT !.agents = load_agent_configs_from_dir(d)])

(* A workspace counts once it has a config.toml.  Its close toggle applies *)
(* when the file declares it, also to switch a global one off.             *)
Overlaid(global, ws) ==
    LET merged == merge_sirix_config(global, load_workspace_config(ws))
    IN  IF ws.config = None THEN global
        ELSE IF ws.config.close = None THEN merged ELSE [merged EXCEPT !.close = ws.config.close]

effective_for_workspace(dk) == Overlaid(load_global(dk["global"]), dk["workspace"])

----------------------------------------------------------------------------
(* Saving: a list of saves, each done file by file                         *)

(* `opened` is about the file whose turn it is: whether it is truncated,    *)
(* and whether it was removed since, so that what is written is lost.      *)
Save(place, agents, file) ==
    [place |-> place, agents |-> agents, file |-> file, listed |-> FALSE, stale |-> {},
     opened |-> "no", whole |-> ToSet(agents)]

(* The agents go to their directory, the rest to config.toml.              *)
Split(place, n) == Save(place, n.agents, [n EXCEPT !.agents = <<>>])

save_global(c) == Split("global", normalize_sirix_config(c, Presets))

save_workspace_editable_config(c) ==
    Split("workspace", [normalize_workspace_editable_config(c) EXCEPT !.close = None])

(* Approvals save a whole configuration, with its [cli] section.           *)
save_workspace_config(c) == Split("workspace", normalize_sirix_config(c, Presets))

(* What loading the global configuration writes before it returns: the     *)
(* default file when there is none, the agents when their directory is     *)
(* empty.                                                                  *)
LoadWrites(d) ==
    IF d.config = None THEN <<save_global(DefaultConfig(Presets))>>
    ELSE IF d.agents # {} THEN <<>>
    ELSE LET inline == parse_config_with_compat(d.config, Presets).agents
         IN  <<Save("global", SeededCatalog(inline, Presets), None)>>

(* The disk after a save that nothing disturbs.                            *)
After(d, s) == [config |-> IF s.file = None THEN d.config ELSE s.file,
                agents |-> ToSet(s.agents), empty |-> {}, garbled |-> {}]

----------------------------------------------------------------------------
(* Requests                                                                *)

Idle == \A r \in Requests : saves[r] = <<>>

Free(r) == saves[r] = <<>> /\ events < MaxEvents

Start(r, list) ==
    /\ saves' = [saves EXCEPT ![r] = list]
    /\ events' = events + 1
    /\ alone' = IF Idle THEN TRUE ELSE FALSE
    /\ saved' = IF Idle THEN saved ELSE None

(* Reading settings, or launching an agent.                                *)
get_ai_config(r) ==
    /\ Free(r) /\ GlobalLoads(disk["global"]) /\ LoadWrites(disk["global"]) # <<>>
    /\ Start(r, LoadWrites(disk["global"]))
    /\ UNCHANGED disk

set_ai_config(r, payload) ==
    /\ Free(r) /\ validate_sirix_config(normalize_sirix_config(payload, Presets))
    /\ Start(r, <<save_global(normalize_sirix_config(payload, Presets))>>)
    /\ UNCHANGED disk

save_workspace_settings(r, payload) ==
    LET n == normalize_workspace_editable_config(payload) IN
    /\ Free(r) /\ GlobalLoads(disk["global"]) /\ WorkspaceLoads(disk["workspace"])
    /\ validate_sirix_config(merge_sirix_config(load_global(disk["global"]), n))
    /\ Start(r, LoadWrites(disk["global"]) \o <<save_workspace_editable_config(n)>>)
    /\ UNCHANGED disk

(* Remembering an approval for all workspaces saves the configuration as   *)
(* it was loaded, with the agent's rules changed.                          *)
PersistGlobalApproval(r) ==
    /\ Free(r) /\ GlobalLoads(disk["global"])
    /\ Start(r, LoadWrites(disk["global"]) \o <<save_global(load_global(disk["global"]))>>)
    /\ UNCHANGED disk

(* An agent the target does not have is copied from the effective          *)
(* configuration, which is loaded for that.                                *)
SaveWithAgent(r, agent, target) ==
    IF agent \in AgentIds(target) THEN Start(r, <<save_workspace_config(target)>>)
    ELSE /\ GlobalLoads(disk["global"])
         /\ Start(r, LoadWrites(disk["global"]) \o
                     <<save_workspace_config([target EXCEPT !.agents =
                         @ \o Filter(effective_for_workspace(disk).agents,
                                     LAMBDA a : a.id = agent)])>>)

(* For one workspace: without a workspace file the rule is put into a      *)
(* default configuration.                                                  *)
PersistWorkspaceApproval(r, agent) ==
    /\ Free(r) /\ WorkspaceLoads(disk["workspace"])
    /\ SaveWithAgent(r, agent,
                     OrElse(load_workspace_config(disk["workspace"]), DefaultConfig(Presets)))
    /\ UNCHANGED disk

----------------------------------------------------------------------------
(* File by file                                                            *)

Advance(r, s) == saves' = [saves EXCEPT ![r] = <<s>> \o Tail(@)]

(* Mutant: agent files of before the save are left there.                  *)
ListAgentsKeepingStale(r) ==
    /\ saves[r] # <<>> /\ ~Head(saves[r]).listed
    /\ Advance(r, [Head(saves[r]) EXCEPT !.listed = TRUE])
    /\ UNCHANGED <<disk, alone, saved, events>>

ListAgents(r) ==
    LET s == Head(saves[r]) IN
    /\ saves[r] # <<>> /\ ~s.listed
    /\ Advance(r, [s EXCEPT !.listed = TRUE,
                            !.stale = AgentFiles(disk[s.place])])
    /\ UNCHANGED <<disk, alone, saved, events>>

(* The file a save is at, once the old agent files are gone.               *)
Ready(s) == s.listed /\ s.stale = {}
Target(s) == IF s.agents = <<>> THEN ConfigFile ELSE Head(s.agents).id

Without(d, f) ==
    [d EXCEPT !.agents = {a \in @ : a.id # f}, !.empty = @ \ {f}, !.garbled = @ \ {f}]

(* Every agent file goes before the first is written; one that another     *)
(* request already removed fails the request, and what another is writing  *)
(* to it is lost.                                                          *)
RemoveAgent(r) ==
    LET s == Head(saves[r])
        Writes(q, id) == /\ q # r /\ saves[q] # <<>> /\ Head(saves[q]).place = s.place
                         /\ Head(saves[q]).opened = "open" /\ Target(Head(saves[q])) = id
    IN
    /\ saves[r] # <<>> /\ s.listed
    /\ \E id \in s.stale :
          /\ saves' = [q \in Requests |->
                 IF q = r
                 THEN IF id \in AgentFiles(disk[s.place])
                      THEN <<[s EXCEPT !.stale = @ \ {id}]>> \o Tail(saves[r]) ELSE <<>>
                 ELSE IF Writes(q, id)
                 THEN <<[Head(saves[q]) EXCEPT !.opened = "gone"]>> \o Tail(saves[q])
                 ELSE saves[q]]
          /\ disk' = [disk EXCEPT ![s.place] = Without(@, id)]
    /\ UNCHANGED <<alone, saved, events>>

Truncate(r) ==
    LET s == Head(saves[r]) IN
    /\ saves[r] # <<>> /\ Ready(s) /\ s.opened = "no"
    /\ s.agents # <<>> \/ s.file # None
    /\ Advance(r, [s EXCEPT !.opened = "open"])
    /\ disk' = [disk EXCEPT ![s.place] =
                  [Without(@, Target(s)) EXCEPT
                     !.config = IF s.agents = <<>> THEN EmptyFile(s.place) ELSE @,
                     !.empty = @ \cup {Target(s)}]]
    /\ UNCHANGED <<alone, saved, events>>

(* The file is written from its beginning.  When another request has       *)
(* written to it since it was truncated, the end of what that wrote may    *)
(* stay behind, and the file cannot be parsed.                             *)
Written(s, whole) ==
    LET d == disk[s.place]
        f == Target(s)
        garbled == [Without(d, f) EXCEPT !.garbled = @ \cup {f}]
    IN  IF s.opened = "gone" THEN {d}
        ELSE IF f \in d.empty THEN {whole} ELSE {whole, garbled}

WriteAgent(r) ==
    LET s == Head(saves[r])
        whole == [Without(disk[s.place], Target(s)) EXCEPT !.agents = @ \cup {Head(s.agents)}]
    IN
    /\ saves[r] # <<>> /\ s.opened # "no" /\ s.agents # <<>>
    /\ \E d \in Written(s, whole) : disk' = [disk EXCEPT ![s.place] = d]
    /\ Advance(r, [s EXCEPT !.agents = Tail(@), !.opened = "no"])
    /\ UNCHANGED <<alone, saved, events>>

WriteConfig(r) ==
    LET s == Head(saves[r])
        whole == [Without(disk[s.place], ConfigFile) EXCEPT !.config = s.file]
    IN
    /\ saves[r] # <<>> /\ s.opened # "no" /\ s.agents = <<>>
    /\ \E d \in Written(s, whole) : disk' = [disk EXCEPT ![s.place] = d]
    /\ saves' = [saves EXCEPT ![r] = Tail(@)]
    /\ saved' = IF s.place = "global" /\ alone
                THEN [file |-> s.file, agents |-> s.whole] ELSE saved
    /\ UNCHANGED <<alone, events>>

(* Seeding the agents writes no config.toml.                               *)
Seeded(r) ==
    LET s == Head(saves[r]) IN
    /\ saves[r] # <<>> /\ Ready(s) /\ s.agents = <<>> /\ s.file = None
    /\ saves' = [saves EXCEPT ![r] = Tail(@)]
    /\ UNCHANGED <<disk, alone, saved, events>>

(* The desktop server stops: what was not written is gone, and a file that *)
(* was truncated stays empty.                                              *)
Crash ==
    /\ ~Idle /\ events < MaxEvents /\ events' = events + 1
    /\ saves' = [r \in Requests |-> <<>>]
    /\ saved' = None /\ alone' = FALSE
    /\ UNCHANGED disk

----------------------------------------------------------------------------
Init ==
    /\ \E f \in Files : disk = [p \in Place |-> [config |-> IF p = "global" THEN f ELSE None,
                                                 agents |-> {}, empty |-> {},
                                                 garbled |-> {}]]
    /\ saves = [r \in Requests |-> <<>>]
    /\ alone = TRUE /\ saved = None /\ events = 0

Next ==
    \/ \E r \in Requests :
          \/ get_ai_config(r)
          \/ \E p \in Payloads : set_ai_config(r, p)
          \/ \E p \in WorkspacePayloads : save_workspace_settings(r, p)
          \/ PersistGlobalApproval(r)
          \/ \E a \in {DEFAULT_AGENT_ID} \cup {a.id : a \in disk["global"].agents
                                                        \cup disk["workspace"].agents} :
                PersistWorkspaceApproval(r, a)
          \/ ListAgents(r) \/ RemoveAgent(r)
          \/ Truncate(r) \/ WriteAgent(r) \/ WriteConfig(r) \/ Seeded(r)
    \/ Crash

Spec == Init /\ [][Next]_vars

----------------------------------------------------------------------------
(* Properties                                                              *)

(* However saves interleave, and wherever one is cut short, a launch in    *)
(* the workspace that can read the files finds an agent and a model for it *)
(* as long as any text model is enabled (config.rs:2098, `no enabled agent *)
(* configured`).  A file between its truncation and its writing, or that   *)
(* was left so by a crash, or of two crossed writes, may be unreadable.    *)
LaunchPossible ==
    GlobalLoads(disk["global"]) /\ WorkspaceLoads(disk["workspace"]) =>
        LET c == effective_for_workspace(disk)
        IN  TextModels(c.providers) # <<>> => LaunchConfig(c, "") # None

(* Only the order of the agents may differ, and that there are none.       *)
SavedAgain(global, again) ==
    /\ [again EXCEPT !.agents = <<>>] = [global EXCEPT !.agents = <<>>]
    /\ global.agents # <<>> => ToSet(again.agents) = ToSet(global.agents)

(* What is loaded is what was saved last, and saving it changes nothing.   *)
LoadedAsSaved(global) ==
    /\ saved # None /\ saved.agents # {} =>
          [global EXCEPT !.agents = <<>>] = saved.file /\ ToSet(global.agents) = saved.agents
    /\ SavedAgain(global, load_global(After(disk["global"], save_global(global))))

(* Saving Workspace Settings as they were read changes nothing.            *)
WorkspaceKept(ws) ==
    ws # None => load_workspace_config(After(disk["workspace"],
                                             save_workspace_editable_config(ws))) = ws

(* The configuration saved last can be read and is the one loaded, while   *)
(* requests come one at a time (without any agent, the presets come back); *)
(* and opening settings and saving them unchanged changes nothing.         *)
SavedIsLoaded ==
    Idle =>
    /\ saved # None => GlobalLoads(disk["global"])
    /\ GlobalLoads(disk["global"]) => LoadedAsSaved(load_global(disk["global"]))
    /\ WorkspaceLoads(disk["workspace"]) =>
          WorkspaceKept(load_workspace_config(disk["workspace"]))
=============================================================================
