------------------------------ MODULE ShellRules ------------------------------
(***************************************************************************)
(* The shell rules of src/desktop-server/src/app/ai/config.rs: prefixes of *)
(* commands that are allowed or denied globally, by an agent, by a         *)
(* workspace and in a session, merged into the policy file the codex       *)
(* process of the session reads; and the handlers of                       *)
(* src/desktop-server/src/api/ai.rs that add a rule.  A handler reads,     *)
(* writes and rebuilds the policy in steps that interleave with others.    *)
(* A command is a sequence of tokens.  The lists of rules are sets: nothing *)
(* that reads them depends on their order.                                 *)
(***************************************************************************)
EXTENDS Naturals, Sequences

CONSTANTS None,
          Commands,      \* commands, and prefixes that rules may name
          AgentRules,    \* the agent's prefixes and its approval mode
          Settings,      \* rules the settings page may save
          Handlers, PolicySessions,
          DefaultDeny,   \* the prefixes a new rules file denies
          MaxHandled     \* bound: calls handled

VARIABLES ruleFiles,     \* shell-rules.json, global and of the workspace
          sessionRules,  \* the rules remembered for a session
          policy,        \* the policy file of a session
          runtimeMode,   \* its mode for commands no rule names
          handling,      \* handling[h]: what handler h is doing
          handled,       \* calls handled so far
          loose     \* sessions whose policy two handlers rebuilt at once

vars == <<ruleFiles, sessionRules, policy, runtimeMode, handling, handled, loose>>

ShellRulesConfig(mode, allow, deny) == [mode |-> mode, allow |-> allow, deny |-> deny]

DefaultRules == ShellRulesConfig("ask", {}, DefaultDeny)
NoSessionRules == ShellRulesConfig("ask", {}, {})

----------------------------------------------------------------------------
(* Merging                                                                 *)

is_prefix_tokens(p, c) == Len(p) <= Len(c) /\ \A i \in 1..Len(p) : p[i] = c[i]

Uncovered(items, rules) == {x \in items : \A p \in rules : ~is_prefix_tokens(p, x)}

(* The upserts of a loop over rules.  A rule that a later one of the loop   *)
(* covers is dropped when the list is normalised.                          *)
upsert_shell_rule(items, rules) == Uncovered(items, rules) \cup rules

(* Mutant: a rule also takes back opposite ones that are broader.          *)
prune_opposite_rules_broader(items, rules) ==
    {x \in Uncovered(items, rules) : \A p \in rules : ~is_prefix_tokens(x, p)}

(* A rule takes back the opposite rules that it covers.                    *)
prune_opposite_rules(items, rules) == Uncovered(items, rules)

(* Only the broadest prefixes are kept.                                    *)
normalize_shell_rule_list(items) ==
    {x \in items : \A y \in items : is_prefix_tokens(y, x) => y = x}

normalize_shell_rules(r) ==
    [r EXCEPT !.allow = normalize_shell_rule_list(@), !.deny = normalize_shell_rule_list(@)]

AllowAll(r, rules) ==
    [r EXCEPT !.allow = upsert_shell_rule(@, rules), !.deny = prune_opposite_rules(@, rules)]

DenyAll(r, rules) ==
    [r EXCEPT !.deny = upsert_shell_rule(@, rules), !.allow = prune_opposite_rules(@, rules)]

merge_shell_rule_prefixes(base, overlay) ==
    normalize_shell_rules(DenyAll(AllowAll(base, overlay.allow), overlay.deny))

merge_shell_rules(base, overlay) ==
    [merge_shell_rule_prefixes(base, overlay) EXCEPT !.mode = overlay.mode]

(* Mutant: the workspace's rules are merged last.                          *)
effective_shell_rules_for_agent_workspace_last(global, workspace, session) ==
    LET agent == merge_shell_rule_prefixes(merge_shell_rule_prefixes(global, AgentRules), session)
    IN  IF workspace = None THEN agent ELSE merge_shell_rules(agent, workspace)

effective_shell_rules_for_agent(global, workspace, session) ==
    LET agent == merge_shell_rule_prefixes(global, AgentRules)
        ws == IF workspace = None THEN agent ELSE merge_shell_rules(agent, workspace)
    IN  merge_shell_rule_prefixes(ws, session)

shell_fallback_mode_for_agent(workspace) ==
    IF workspace = None THEN AgentRules.mode ELSE workspace.mode

(* How codex reads the policy: the strictest of all matching rules.        *)
Verdict(r, command, mode) ==
    IF \E p \in r.deny : is_prefix_tokens(p, command) THEN "deny"
    ELSE IF \E p \in r.allow : is_prefix_tokens(p, command) THEN "allow"
    ELSE mode

----------------------------------------------------------------------------
(* Adding a rule                                                           *)

AddRule(r, decision, prefix) ==
    IF decision = "allow"
    THEN [r EXCEPT !.deny = @ \ {prefix}, !.allow = @ \cup {prefix}]
    ELSE [r EXCEPT !.allow = @ \ {prefix}, !.deny = @ \cup {prefix}]

push_session_shell_rule(s, decision, prefix) ==
    sessionRules' = [sessionRules EXCEPT ![s] = AddRule(@, decision, prefix)]

Begin(h, call) ==
    /\ handling' = [handling EXCEPT ![h] = call]
    /\ handled' = handled + 1

Idle(h) == handling[h] = None /\ handled < MaxHandled

Loaded(scope) == IF ruleFiles[scope] = None THEN DefaultRules ELSE ruleFiles[scope]

(* An answer: remembered for the session, or loaded to be saved.  The CLI's*)
(* dialog has the policy rebuilt, a shared one does not.                   *)
resolve_session_shell_rule(h, s, decision, scope, prefix, rebuild) ==
    /\ Idle(h)
    /\ IF scope = "session"
       THEN /\ push_session_shell_rule(s, decision, prefix)
            /\ Begin(h, [at |-> IF rebuild THEN "rebuild" ELSE "done", session |-> s])
       ELSE /\ Begin(h, [at |-> "save", session |-> s, scope |-> scope, rebuild |-> rebuild,
                         rules |-> AddRule(Loaded(scope), decision, prefix)])
            /\ UNCHANGED sessionRules
    /\ loose' = IF rebuild THEN loose ELSE loose \cup {s}
    /\ UNCHANGED <<ruleFiles, policy, runtimeMode>>

save_rules_to_path(h) ==
    LET c == handling[h] IN
    /\ c # None /\ c.at = "save"
    /\ ruleFiles' = [ruleFiles EXCEPT ![c.scope] = normalize_shell_rules(c.rules)]
    /\ handling' = [handling EXCEPT ![h] = IF c.rebuild THEN [at |-> "rebuild", session |-> c.session]
                                           ELSE [at |-> "done", session |-> c.session]]
    /\ UNCHANGED <<sessionRules, policy, runtimeMode, handled, loose>>

(* Settings and agent switches.                                            *)
set_shell_rules(scope, rules) ==
    /\ handled < MaxHandled /\ handled' = handled + 1
    /\ ruleFiles' = [ruleFiles EXCEPT ![scope] = normalize_shell_rules(rules)]
    /\ UNCHANGED <<sessionRules, policy, runtimeMode, handling, loose>>

SwitchAgain(h, s) ==
    /\ Idle(h) /\ Begin(h, [at |-> "rebuild", session |-> s])
    /\ UNCHANGED <<ruleFiles, sessionRules, policy, runtimeMode, loose>>

(* The session's rules are read, and the files after an await.             *)
ReadSessionRules(h) ==
    LET c == handling[h] IN
    /\ c # None /\ c.at = "rebuild"
    /\ loose' = IF \E j \in Handlers \ {h} : /\ handling[j] # None
                                                  /\ handling[j].at = "write"
                                                  /\ handling[j].session = c.session
                     THEN loose \cup {c.session} ELSE loose
    /\ handling' = [handling EXCEPT ![h] = [at |-> "write", session |-> c.session,
                                            rules |-> sessionRules[c.session]]]
    /\ UNCHANGED <<ruleFiles, sessionRules, policy, runtimeMode, handled>>

write_session_exec_policy_file(h) ==
    LET c == handling[h] IN
    /\ c # None /\ c.at = "write"
    /\ policy' = [policy EXCEPT ![c.session] =
          effective_shell_rules_for_agent(Loaded("global"), ruleFiles["workspace"], c.rules)]
    /\ runtimeMode' = [runtimeMode EXCEPT ![c.session] =
          shell_fallback_mode_for_agent(ruleFiles["workspace"])]
    /\ ruleFiles' = [ruleFiles EXCEPT !["global"] = Loaded("global")]
    /\ handling' = [handling EXCEPT ![h] = [at |-> "done", session |-> c.session]]
    /\ UNCHANGED <<sessionRules, handled, loose>>

Answered(h) ==
    /\ handling[h] # None /\ handling[h].at = "done"
    /\ handling' = [handling EXCEPT ![h] = None]
    /\ UNCHANGED <<ruleFiles, sessionRules, policy, runtimeMode, handled, loose>>

----------------------------------------------------------------------------
Init ==
    /\ ruleFiles = [scope \in {"global", "workspace"} |-> None]
    /\ sessionRules = [s \in PolicySessions |-> NoSessionRules]
    /\ policy = [s \in PolicySessions |-> effective_shell_rules_for_agent(DefaultRules, None, NoSessionRules)]
    /\ runtimeMode = [s \in PolicySessions |-> AgentRules.mode]
    /\ handling = [h \in Handlers |-> None]
    /\ handled = 0 /\ loose = {}

Next ==
    \/ \E h \in Handlers :
          \/ \E s \in PolicySessions :
                \/ \E d \in {"allow", "deny"}, p \in Commands, again \in BOOLEAN,
                      scope \in {"session", "workspace", "global"} :
                         resolve_session_shell_rule(h, s, d, scope, p, again)
                \/ SwitchAgain(h, s)
          \/ save_rules_to_path(h) \/ ReadSessionRules(h) \/ write_session_exec_policy_file(h)
          \/ Answered(h)
    \/ \E scope \in {"global", "workspace"}, r \in Settings : set_shell_rules(scope, r)

Spec == Init /\ [][Next]_vars

----------------------------------------------------------------------------
(* Properties                                                              *)

(* Layers of rules, the later the stronger: a prefix counts unless a later *)
(* layer has the opposite for it or for one that is broader; within a      *)
(* layer a denial is the stronger.                                         *)
Layers(s) ==
    IF ruleFiles["workspace"] = None
    THEN <<Loaded("global"), AgentRules, sessionRules[s]>>
    ELSE <<Loaded("global"), AgentRules, ruleFiles["workspace"], sessionRules[s]>>

LayeredVerdict(layers, command, mode) ==
    LET Names(i, field) == {p \in layers[i][field] : is_prefix_tokens(p, command)}
        Retracted(field, p, later) ==
            \E j \in later : \E q \in layers[j][field] : is_prefix_tokens(q, p)
        n == Len(layers)
        denied == \E i \in 1..n : \E p \in Names(i, "deny") : ~Retracted("allow", p, (i + 1)..n)
        allowed == \E i \in 1..n : \E p \in Names(i, "allow") : ~Retracted("deny", p, i..n)
    IN  IF denied THEN "deny" ELSE IF allowed THEN "allow" ELSE mode

(* What merging, with its upserts and prunes, makes of any command is what *)
(* the layers say (config.rs:1355).                                        *)
MergeIsLayered ==
    \A s \in PolicySessions : \A c \in Commands :
        LET mode == shell_fallback_mode_for_agent(ruleFiles["workspace"])
            r == effective_shell_rules_for_agent(Loaded("global"), ruleFiles["workspace"],
                                                 sessionRules[s])
        IN  Verdict(r, c, mode) = LayeredVerdict(Layers(s), c, mode)

(* A command denied for the session, by the dialog of its CLI, stays       *)
(* denied in the policy its codex process reads, whatever is answered,     *)
(* saved or switched afterwards (ai.rs:614, session.rs:320).               *)
SessionDenialHolds ==
    \A s \in PolicySessions \ loose :
        (\A h \in Handlers : handling[h] # None => handling[h].session # s) =>
            \A p \in sessionRules[s].deny : Verdict(policy[s], p, runtimeMode[s]) = "deny"
=============================================================================
