-------------------------- MODULE CapabilityApproval --------------------------
(***************************************************************************)
(* Approvals of one capability (a skill, an MCP or a builtin tool) in one  *)
(* AI session: AiApprovalRegistry (src/desktop-server/src/app/ai/          *)
(* approval.rs), the check and resolve handlers of                         *)
(* src/desktop-server/src/api/ai.rs, answers that come back from the       *)
(* backend (src/desktop-server/src/app/tasks.rs), and the polling of a     *)
(* tool call.  Handlers interleave between their awaits; the server may    *)
(* stop and start.                                                         *)
(***************************************************************************)
EXTENDS Naturals, Sequences

CONSTANTS None,
          Tools, AgentOf,   \* tool calls, and the agent that makes each
          Answers,          \* dialogs that are being answered at once
          Rules,            \* configured rules at first
          Mirrored,         \* whether the session is mirrored to the backend
          MaxRequests, MaxFailures, MaxRestarts  \* bounds

Agents == {AgentOf[t] : t \in Tools}
Decision == {"allow", "deny"}
Scope == {"once", "session", "workspace", "global"}

VARIABLES rules,      \* global and workspace rules, of all and of one agent
          records,    \* records[a]: the remembered answer, None if none
          stored,     \* the file of the records
          writes,     \* contents handlers are about to write to it
          pending,    \* pending[a]: the request id that waits for an answer
          issued,     \* request ids made so far, each with its agent
          answering,  \* answering[n]: where an answer's handler is
          tools,      \* tools[t]: where a tool call is
          applied,    \* history: answers that took effect, per request
          used,       \* history: tool calls an answer for one use decided
          failures,   \* calls that failed
          restarts    \* restarts of the desktop server

vars == <<rules, records, stored, writes, pending, issued, answering, tools, applied, used,
          failures, restarts>>

----------------------------------------------------------------------------
(* What the configuration says                                             *)

(* A later layer's rules win over an earlier one's, its mode always does.  *)
merge_capability_rules(base, overlay) ==
    [mode |-> overlay.mode,
     own |-> IF overlay.own # None THEN overlay.own ELSE base.own,
     broad |-> IF overlay.broad # None THEN overlay.broad ELSE base.broad]

(* The rule for the capability itself before one for a prefix of its key.  *)
resolve_named_capability_mode(r) ==
    IF r.own # None THEN r.own ELSE IF r.broad # None THEN r.broad ELSE r.mode

(* Workspace agents replace global ones of the same id.                    *)
EffectiveAgent(a) ==
    IF rules.workspace # None /\ rules.workspace.agent[a] # None
    THEN rules.workspace.agent[a] ELSE rules.global.agent[a]

(* Global, then agent, then workspace; an agent nobody knows is allowed.   *)
resolve_capability_mode(a) ==
    IF EffectiveAgent(a) = None THEN "allow"
    ELSE LET agent == merge_capability_rules(rules.global.top, EffectiveAgent(a))
         IN  resolve_named_capability_mode(
                IF rules.workspace = None THEN agent
                ELSE merge_capability_rules(agent, rules.workspace.top))

NoRules == [mode |-> "ask", own |-> None, broad |-> None]

(* Mutant: the rule goes to the global configuration.                      *)
persist_capability_approval_global(a, decision, workspace) ==
    rules' = IF rules.global.agent[a] = None THEN [rules EXCEPT !.global.top.own = decision]
             ELSE [rules EXCEPT !.global.agent[a].own = decision]

(* The answer becomes a rule of the agent, in a workspace of a copy of it; *)
(* without such an agent, a rule of the whole file.                        *)
persist_capability_approval(a, decision, workspace) ==
    LET current == IF ~workspace THEN rules.global
                   ELSE IF rules.workspace # None THEN rules.workspace
                   ELSE [top |-> NoRules, agent |-> [x \in Agents |-> None]]
        copied == IF workspace /\ current.agent[a] = None
                  THEN [current EXCEPT !.agent[a] = EffectiveAgent(a)] ELSE current
        changed == IF copied.agent[a] # None THEN [copied EXCEPT !.agent[a].own = decision]
                   ELSE [copied EXCEPT !.top.own = decision]
    IN  rules' = IF workspace THEN [rules EXCEPT !.workspace = changed]
                 ELSE [rules EXCEPT !.global = changed]

----------------------------------------------------------------------------
(* The registry                                                            *)

(* Mutant: one answer serves every agent of the session.                   *)
set_for_all(a, record) == [x \in Agents |-> record]


set(a, record) == [records EXCEPT ![a] = record]

(* Mutant: whatever is pending is claimed, the id is not compared.         *)
take_pending_any(a, id) == pending[a] # None

take_pending(a, id) == pending[a] = id

(* A file that cannot be written or removed is only logged.                *)
persist_session_records == \E snapshot \in writes :
    /\ stored' \in {snapshot.records, stored}
    /\ writes' = writes \ {snapshot}
    /\ tools' = [t \in Tools |-> IF t = snapshot.by THEN [at |-> tools[t].then] ELSE tools[t]]
    /\ answering' = [n \in Answers |-> IF n = snapshot.by THEN [answering[n] EXCEPT !.at = "sync"]
                                                           ELSE answering[n]]
    /\ UNCHANGED <<rules, records, pending, issued, applied, used, failures, restarts>>

----------------------------------------------------------------------------
(* Checking: a tool call polls until it is allowed or denied               *)

(* A record for one use goes, then from the file, then the call returns.   *)
resolve_for_check(t) ==
    LET a == AgentOf[t] IN
    /\ tools[t].at = "polling" /\ records[a] # None
    /\ IF records[a].scope = "once"
       THEN /\ records' = [records EXCEPT ![a] = None]
            /\ writes' = writes \cup {[by |-> t, records |-> records']}
            /\ tools' = [tools EXCEPT ![t] = [at |-> "writing", then |-> records[a].decision]]
            /\ used' = [used EXCEPT ![records[a].id] = @ + 1]
       ELSE /\ tools' = [tools EXCEPT ![t] = [at |-> records[a].decision]]
            /\ UNCHANGED <<records, writes, used>>
    /\ UNCHANGED <<rules, stored, pending, issued, answering, applied, failures, restarts>>

(* Nothing is remembered: the configuration decides, or somebody is asked. *)
check_approval(t) ==
    /\ tools[t].at = "polling" /\ records[AgentOf[t]] = None
    /\ LET mode == resolve_capability_mode(AgentOf[t])
       IN  tools' = [tools EXCEPT ![t] = [at |-> IF mode = "ask" THEN "asking" ELSE mode]]
    /\ UNCHANGED <<rules, records, stored, writes, pending, issued, answering, applied, used,
                   failures, restarts>>

(* One request at a time per agent; its event goes to every surface.       *)
emit_approval_request_event(t) ==
    LET a == AgentOf[t] IN
    /\ tools[t].at = "asking"
    /\ tools' = [tools EXCEPT ![t] = [at |-> "polling"]]
    /\ IF pending[a] # None \/ Len(issued) = MaxRequests THEN UNCHANGED <<pending, issued>>
       ELSE /\ issued' = Append(issued, a)
            /\ pending' = [pending EXCEPT ![a] = Len(issued')]
    /\ UNCHANGED <<rules, records, stored, writes, answering, applied, used, failures, restarts>>

----------------------------------------------------------------------------
(* Answering, from a dialog of this desktop or, mirrored, by the backend   *)

Claim(n, id, decision, scope, local) ==
    /\ answering[n].at = "free"
    /\ Len(issued) = MaxRequests => scope \in {"once", "session"}  \* bound: nobody is asked again
    /\ take_pending(issued[id], id)
    /\ pending' = [pending EXCEPT ![issued[id]] = None]
    /\ answering' = [answering EXCEPT ![n] = [at |-> "apply", id |-> id, decision |-> decision,
                                              scope |-> scope, local |-> local]]
    /\ UNCHANGED <<rules, records, stored, writes, issued, tools, applied, used, failures, restarts>>

resolve_approval(n, id, decision, scope) == Claim(n, id, decision, scope, TRUE)

sync_backend_capability_approval_resolution(n, id, decision, scope) ==
    Mirrored /\ Claim(n, id, decision, scope, FALSE)

Applied(n) == applied' = [applied EXCEPT ![answering[n].id] = Append(@, answering[n].decision)]

ApplyRecord(n) ==
    LET c == answering[n] IN
    /\ c.at = "apply" /\ c.scope \in {"once", "session"}
    /\ records' = set(issued[c.id], [decision |-> c.decision, scope |-> c.scope, id |-> c.id])
    /\ writes' = writes \cup {[by |-> n, records |-> records']}
    /\ answering' = [answering EXCEPT ![n].at = "writing"]
    /\ Applied(n)
    /\ UNCHANGED <<rules, stored, pending, issued, tools, used, failures, restarts>>

ApplyRule(n) ==
    LET c == answering[n] IN
    /\ c.at = "apply" /\ c.scope \in {"workspace", "global"}
    /\ persist_capability_approval(issued[c.id], c.decision, c.scope = "workspace")
    /\ answering' = [answering EXCEPT ![n].at = "sync"]
    /\ Applied(n)
    /\ UNCHANGED <<records, stored, writes, pending, issued, tools, used, failures, restarts>>

restore_pending(n) ==
    /\ pending' = [pending EXCEPT ![issued[answering[n].id]] = answering[n].id]
    /\ answering' = [answering EXCEPT ![n] = [at |-> "free"]]
    /\ failures' = failures + 1

(* The rule cannot be saved: the request waits again.                      *)
PersistFails(n) ==
    /\ answering[n].at = "apply" /\ answering[n].scope \in {"workspace", "global"}
    /\ failures < MaxFailures /\ restore_pending(n)
    /\ UNCHANGED <<rules, records, stored, writes, issued, tools, applied, used, restarts>>

(* A mirrored session tells the backend, of its own answers.               *)
sync_approval_to_backend(n) ==
    /\ answering[n].at = "sync"
    /\ \/ /\ answering' = [answering EXCEPT ![n] = [at |-> "free"]]
          /\ UNCHANGED <<pending, failures>>
       \/ /\ Mirrored /\ answering[n].local /\ failures < MaxFailures
          /\ restore_pending(n)
    /\ UNCHANGED <<rules, records, stored, writes, issued, tools, applied, used, restarts>>

(* The server stops and starts: calls fail, records come from the file.    *)
Restart ==
    /\ restarts < MaxRestarts /\ restarts' = restarts + 1
    /\ records' = stored /\ writes' = {}
    /\ pending' = [a \in Agents |-> None]
    /\ answering' = [n \in Answers |-> [at |-> "free"]]
    /\ tools' = [t \in Tools |-> IF tools[t].at \in {"polling", "asking", "writing"}
                                 THEN [at |-> "failed"] ELSE tools[t]]
    /\ UNCHANGED <<rules, stored, issued, applied, used, failures>>

(* The agent's side: a call polls every while until there is an outcome;   *)
(* then the agent may make another.                                        *)
wait_for_sirix_tool_approval(t) ==
    /\ tools[t].at \in {"idle", "allow", "deny", "failed"} /\ Len(issued) < MaxRequests
    /\ tools' = [tools EXCEPT ![t] = [at |-> "polling"]]
    /\ UNCHANGED <<rules, records, stored, writes, pending, issued, answering, applied, used,
                   failures, restarts>>

(* The request, its handler or the answer fails: the call ends with an      *)
(* error, though what the handler does it does to its end.                 *)
CheckFails(t) ==
    /\ tools[t].at \in {"polling", "writing"}
    /\ tools' = [tools EXCEPT ![t] = IF @.at = "writing" THEN [at |-> "writing", then |-> "failed"]
                                     ELSE [at |-> "failed"]]
    /\ UNCHANGED <<rules, records, stored, writes, pending, issued, answering, applied, used,
                   failures, restarts>>

----------------------------------------------------------------------------
Init ==
    /\ rules \in Rules
    /\ records = [a \in Agents |-> None] /\ stored = [a \in Agents |-> None]
    /\ writes = {} /\ pending = [a \in Agents |-> None] /\ issued = <<>>
    /\ answering = [n \in Answers |-> [at |-> "free"]]
    /\ tools = [t \in Tools |-> [at |-> "idle"]]
    /\ applied = [i \in 1..MaxRequests |-> <<>>]
    /\ used = [i \in 1..MaxRequests |-> 0]
    /\ failures = 0 /\ restarts = 0

Next ==
    \/ \E t \in Tools : \/ wait_for_sirix_tool_approval(t) \/ resolve_for_check(t)
                        \/ check_approval(t) \/ emit_approval_request_event(t)
                        \/ CheckFails(t)
    \/ \E n \in Answers :
          \/ \E id \in DOMAIN issued, d \in Decision, s \in Scope :
                \/ resolve_approval(n, id, d, s)
                \/ sync_backend_capability_approval_resolution(n, id, d, s)
          \/ ApplyRecord(n) \/ ApplyRule(n) \/ PersistFails(n) \/ sync_approval_to_backend(n)
    \/ persist_session_records
    \/ Restart

(* Handlers come to their end and tool calls keep polling; a user answers  *)
(* what is asked, sooner or later for the whole session.                   *)
UserAnswers(a) ==
    /\ pending[a] # None
    /\ \E n \in Answers, d \in Decision : resolve_approval(n, pending[a], d, "session")

Fairness ==
    /\ WF_vars(persist_session_records)
    /\ \A t \in Tools : WF_vars(resolve_for_check(t) \/ check_approval(t)
                                \/ emit_approval_request_event(t))
    /\ \A n \in Answers : WF_vars(ApplyRecord(n) \/ ApplyRule(n) \/ sync_approval_to_backend(n))
    /\ \A a \in Agents : SF_vars(UserAnswers(a))

Spec == Init /\ [][Next]_vars
FairSpec == Spec /\ Fairness

----------------------------------------------------------------------------
(* Properties                                                              *)

(* An answer takes effect once, whichever surfaces give it (ai.rs:836), a  *)
(* second time only after a failure made the request wait again; and one   *)
(* for one use admits one tool call (approval.rs:97), another only when a  *)
(* restart finds the file behind the memory.                               *)
AnswerTakesEffectOnce ==
    \A id \in 1..MaxRequests : /\ Len(applied[id]) <= 1 + failures
                              /\ used[id] <= 1 + restarts + failures

(* Where the configuration allows nothing by itself, a tool call is let    *)
(* through only after somebody allowed the same agent (approval.rs:266).   *)
AllowWasGranted ==
    \A t \in Tools : tools[t].at = "allow" =>
        \E id \in DOMAIN issued : /\ issued[id] = AgentOf[t]
                                  /\ \E i \in DOMAIN applied[id] : applied[id][i] = "allow"

(* An answer for the workspace decides the next check there, whatever the  *)
(* other layers say, unless a rule of the whole workspace names the same   *)
(* capability (ai.rs:1521).                                                *)
WorkspaceAnswerStep ==
    \A n \in Answers :
        LET c == answering[n] IN
        c.at = "apply" /\ answering'[n].at = "sync" /\ c.scope = "workspace"
        /\ (rules.workspace = None \/ rules.workspace.top.own = None) =>
            resolve_capability_mode(issued[c.id])' = c.decision

WorkspaceAnswerDecides == [][WorkspaceAnswerStep]_vars

=============================================================================
