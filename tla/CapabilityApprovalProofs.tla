---------------------- MODULE CapabilityApprovalProofs ----------------------
(* Proofs about CapabilityApproval, for every set of tool calls, agents and *)
(* answering handlers and every value of the bounds.  What is counted by    *)
(* the two history variables is not inductive by itself: the right to       *)
(* answer a request is a token, which only a failure gives back, and a      *)
(* remembered answer is a use still to come, which a restart may repeat.    *)
EXTENDS CapabilityApproval, FiniteSets, TLAPS

\* The values of the variables.
Modes == {"ask", "allow", "deny"}
Layers == [mode : Modes, own : Modes \cup {None}, broad : Modes \cup {None}]
RuleFiles == [top : Layers, agent : [Agents -> Layers \cup {None}]]
RuleSets == [global : RuleFiles, workspace : RuleFiles \cup {None}]
Ids == 1..MaxRequests
Records == [decision : Decision, scope : {"once", "session"}, id : Ids]
Memories == [Agents -> Records \cup {None}]
Answerings == [at : {"free"}]
              \cup [at : {"apply", "writing", "sync"}, id : Ids, decision : Decision,
                    scope : Scope, local : BOOLEAN]
ToolStates == [at : {"idle", "polling", "asking", "allow", "deny", "failed"}]
              \cup [at : {"writing"}, then : Decision \cup {"failed"}]

\* What the constants are: bounds, names of calls that are not names of
\* handlers, configurations, and a None that is none of the values.
WellFormed ==
  /\ MaxRequests \in Nat /\ MaxFailures \in Nat /\ MaxRestarts \in Nat
  /\ Tools \cap Answers = {} /\ Rules \subseteq RuleSets /\ Mirrored \in BOOLEAN
  /\ None \notin Nat \cup Modes \cup Layers \cup RuleFiles \cup Records

\* The configuration has every agent in its global file: an agent that is
\* not there is allowed everything without a question (config.rs).
KnowsAgents == \A r \in Rules : \A a \in Agents : r.global.agent[a] # None

\* And it allows nothing by itself.
Strict(layer) == layer.mode # "allow" /\ layer.own # "allow" /\ layer.broad # "allow"

AllowsNothing ==
  \A r \in Rules :
    /\ Strict(r.global.top)
    /\ \A a \in Agents : r.global.agent[a] # None => Strict(r.global.agent[a])
    /\ r.workspace # None =>
         /\ Strict(r.workspace.top)
         /\ \A a \in Agents : r.workspace.agent[a] # None => Strict(r.workspace.agent[a])

TypeOK ==
  /\ rules \in RuleSets
  /\ records \in Memories /\ stored \in Memories
  /\ writes \subseteq [by : Tools \cup Answers, records : Memories]
  /\ issued \in Seq(Agents) /\ Len(issued) <= MaxRequests
  /\ pending \in [Agents -> Ids \cup {None}]
  /\ answering \in [Answers -> Answerings]
  /\ tools \in [Tools -> ToolStates]
  /\ applied \in [Ids -> Seq(Decision)] /\ used \in [Ids -> Nat]
  /\ failures \in Nat /\ restarts \in Nat

\* A handler that writes the file has one snapshot to write.
WritersWait ==
  /\ \A w \in writes :
       /\ w.by \in Tools => tools[w.by].at = "writing"
       /\ w.by \in Answers => answering[w.by].at = "writing"
  /\ \A w, x \in writes : w.by = x.by => w = x

\* Whatever is remembered of an agent was asked for that agent.
OfItsAgent(memory, asked) ==
  \A a \in Agents : memory[a] # None =>
    memory[a].id \in DOMAIN asked /\ asked[memory[a].id] = a

IdsAreAsked ==
  /\ \A a \in Agents : pending[a] # None =>
       pending[a] \in DOMAIN issued /\ issued[pending[a]] = a
  /\ \A n \in Answers : answering[n].at # "free" => answering[n].id \in DOMAIN issued
  /\ OfItsAgent(records, issued) /\ OfItsAgent(stored, issued)
  /\ \A w \in writes : OfItsAgent(w.records, issued)

\* A request waits or is held by one handler: the right to answer is a token.
TokenIsUnique ==
  \A n \in Answers : answering[n].at # "free" =>
    /\ pending[issued[answering[n].id]] # answering[n].id
    /\ \A m \in Answers :
         answering[m].at # "free" /\ answering[m].id = answering[n].id => m = n

\* As many answers took effect as tokens were given back, and one more once
\* the token is spent.
EffectsAreCounted ==
  \A id \in Ids :
    /\ Len(applied[id]) <= 1 + failures
    /\ id \notin DOMAIN issued => Len(applied[id]) = 0
    /\ id \in DOMAIN issued /\ pending[issued[id]] = id => Len(applied[id]) <= failures
    /\ \A n \in Answers :
         answering[n].at = "apply" /\ answering[n].id = id => Len(applied[id]) <= failures

Remembered(id) == \E a \in Agents : records[a] # None /\ records[a].id = id

\* An answer is remembered again only after it is given again or a restart.
UsesAreCounted ==
  \A id \in Ids :
    /\ used[id] <= Len(applied[id]) + restarts
    /\ Remembered(id) => used[id] + 1 <= Len(applied[id]) + restarts

IInv ==
  TypeOK /\ WritersWait /\ IdsAreAsked /\ TokenIsUnique /\ EffectsAreCounted /\ UsesAreCounted

\* Somebody allowed the agent's capability.
Granted(a) ==
  \E id \in DOMAIN issued : /\ issued[id] = a
                            /\ \E i \in DOMAIN applied[id] : applied[id][i] = "allow"

GrantedIn(memory) ==
  \A a \in Agents : memory[a] # None /\ memory[a].decision = "allow" => Granted(a)

\* A rule that allows is the rule for the capability, of an agent, and was
\* somebody's answer.
RuleGranted(layer, a) ==
  layer.mode # "allow" /\ layer.broad # "allow" /\ (layer.own = "allow" => Granted(a))

FileGranted(file) ==
  /\ Strict(file.top)
  /\ \A a \in Agents : file.agent[a] # None => RuleGranted(file.agent[a], a)

AgentsKnown == \A a \in Agents : rules.global.agent[a] # None

RulesGranted ==
  FileGranted(rules.global) /\ (rules.workspace # None => FileGranted(rules.workspace))

\* Every copy of an answer that allows comes from an answer that took effect.
AllowsAreGranted ==
  /\ \A t \in Tools :
       /\ tools[t].at = "allow" => Granted(AgentOf[t])
       /\ tools[t].at = "writing" /\ tools[t].then = "allow" => Granted(AgentOf[t])
  /\ GrantedIn(records) /\ GrantedIn(stored)
  /\ \A w \in writes : GrantedIn(w.records)
  /\ RulesGranted

----------------------------------------------------------------------------
(* The rules                                                               *)

\* The three values persist_capability_approval goes through.
FileBefore(workspace) ==
  IF ~workspace THEN rules.global
  ELSE IF rules.workspace # None THEN rules.workspace
  ELSE [top |-> NoRules, agent |-> [x \in Agents |-> None]]

WithAgent(file, a, workspace) ==
  IF workspace /\ file.agent[a] = None
  THEN [file EXCEPT !.agent[a] = EffectiveAgent(a)] ELSE file

WithOwn(file, a, decision) ==
  IF file.agent[a] # None THEN [file EXCEPT !.agent[a].own = decision]
  ELSE [file EXCEPT !.top.own = decision]

FileAfter(a, decision, workspace) ==
  WithOwn(WithAgent(FileBefore(workspace), a, workspace), a, decision)

\* persist_capability_approval (config.rs) is their composition.
LEMMA PersistIsFileAfter ==
  ASSUME NEW a, NEW decision, NEW workspace \in BOOLEAN,
         persist_capability_approval(a, decision, workspace)
  PROVE  rules' = IF workspace THEN [rules EXCEPT !.workspace = FileAfter(a, decision, workspace)]
                  ELSE [rules EXCEPT !.global = FileAfter(a, decision, workspace)]
BY Zenon DEF persist_capability_approval, FileAfter, FileBefore, WithAgent, WithOwn

\* The effective agent is a layer or unknown.
LEMMA EffectiveAgentType ==
  ASSUME WellFormed, rules \in RuleSets, NEW a \in Agents
  PROVE  EffectiveAgent(a) \in Layers \cup {None}
BY DEF WellFormed, RuleSets, RuleFiles, EffectiveAgent

\* Every capability has a mode.
LEMMA ModeType ==
  ASSUME WellFormed, rules \in RuleSets, NEW a \in Agents
  PROVE  resolve_capability_mode(a) \in Modes
<1>1. \A base, overlay \in Layers : merge_capability_rules(base, overlay) \in Layers
  BY DEF merge_capability_rules, Layers
<1>2. \A layer \in Layers : resolve_named_capability_mode(layer) \in Modes
  BY DEF resolve_named_capability_mode, Layers
<1>3. rules.global.top \in Layers /\ (rules.workspace # None => rules.workspace.top \in Layers)
  BY DEF RuleSets, RuleFiles
<1>4. "allow" \in Modes
  BY DEF Modes
<1> QED
  BY <1>1, <1>2, <1>3, <1>4, EffectiveAgentType DEF resolve_capability_mode

\* A file with one more answer is a file.
LEMMA WithOwnType ==
  ASSUME WellFormed, NEW file \in RuleFiles, NEW a \in Agents, NEW decision \in Decision
  PROVE  WithOwn(file, a, decision) \in RuleFiles
<1>1. decision \in Modes
  BY DEF Decision, Modes
<1>2. CASE file.agent[a] # None
  <2>1. file.agent[a] \in Layers
    BY <1>2 DEF RuleFiles
  <2>2. [file.agent[a] EXCEPT !.own = decision] \in Layers
    BY <1>1, <2>1 DEF Layers
  <2> QED
    BY <1>2, <2>2 DEF WithOwn, RuleFiles
<1>3. CASE file.agent[a] = None
  <2>1. [file.top EXCEPT !.own = decision] \in Layers
    BY <1>1 DEF RuleFiles, Layers
  <2> QED
    BY <1>3, <2>1 DEF WithOwn, RuleFiles
<1> QED
  BY <1>2, <1>3

\* The file an answer is saved to is a file, also when it is made for it.
LEMMA FileBeforeType ==
  ASSUME WellFormed, rules \in RuleSets, NEW workspace \in BOOLEAN
  PROVE  FileBefore(workspace) \in RuleFiles
<1>1. NoRules \in Layers
  BY DEF NoRules, Layers, Modes
<1> QED
  BY <1>1 DEF RuleSets, RuleFiles, FileBefore

\* So is its copy with the agent.
LEMMA WithAgentType ==
  ASSUME WellFormed, rules \in RuleSets, NEW file \in RuleFiles, NEW a \in Agents,
         NEW workspace \in BOOLEAN
  PROVE  WithAgent(file, a, workspace) \in RuleFiles
BY EffectiveAgentType DEF WithAgent, RuleFiles

\* Saving an answer as a rule leaves rules.
LEMMA PersistType ==
  ASSUME WellFormed, rules \in RuleSets, NEW a \in Agents, NEW decision \in Decision,
         NEW workspace \in BOOLEAN, persist_capability_approval(a, decision, workspace)
  PROVE  rules' \in RuleSets
<1>1. FileAfter(a, decision, workspace) \in RuleFiles
  BY FileBeforeType, WithAgentType, WithOwnType DEF FileAfter
<1> QED
  BY <1>1, PersistIsFileAfter DEF RuleSets

----------------------------------------------------------------------------
(* Types                                                                   *)

\* Initially.
LEMMA InitHolds ==
  ASSUME WellFormed, Init
  PROVE  IInv
<1>1. TypeOK
  <2>1. rules \in RuleSets
    BY DEF WellFormed, Init
  <2>2. records \in Memories /\ stored \in Memories /\ writes = {}
    BY DEF Init, Memories
  <2>3. /\ issued \in Seq(Agents) /\ Len(issued) <= MaxRequests
        /\ pending \in [Agents -> Ids \cup {None}]
    BY DEF Init, WellFormed
  <2>4. answering \in [Answers -> Answerings] /\ tools \in [Tools -> ToolStates]
    BY DEF Init, Answerings, ToolStates
  <2>5. applied \in [Ids -> Seq(Decision)] /\ used \in [Ids -> Nat]
    BY DEF Init, Ids
  <2> QED
    BY <2>1, <2>2, <2>3, <2>4, <2>5 DEF Init, TypeOK
<1>2. WritersWait /\ IdsAreAsked /\ TokenIsUnique
  BY DEF Init, WritersWait, IdsAreAsked, OfItsAgent, TokenIsUnique
<1>3. EffectsAreCounted /\ UsesAreCounted
  BY DEF Init, EffectsAreCounted, UsesAreCounted, Remembered, Ids
<1> QED
  BY <1>1, <1>2, <1>3 DEF IInv

\* An identifier that was made is one of an agent.
LEMMA AgentOfId ==
  ASSUME WellFormed, TypeOK, NEW id \in DOMAIN issued
  PROVE  id \in Ids /\ id \in Nat /\ issued[id] \in Agents
<1>1. /\ issued \in Seq(Agents) /\ Len(issued) <= MaxRequests /\ MaxRequests \in Nat
      /\ DOMAIN issued = 1..Len(issued)
  BY DEF TypeOK, WellFormed
<1> QED
  BY <1>1 DEF Ids

\* A handler that is not free has an answer to apply.
LEMMA AnsweringType ==
  ASSUME TypeOK, NEW n \in Answers, answering[n].at # "free"
  PROVE  /\ answering[n].id \in Ids /\ answering[n].decision \in Decision
         /\ answering[n].scope \in Scope /\ answering[n].local \in BOOLEAN
         /\ \A x \in {"apply", "writing", "sync"} : [answering[n] EXCEPT !.at = x] \in Answerings
<1>1. answering[n] \in Answerings
  BY DEF TypeOK
<1> QED
  BY <1>1 DEF Answerings

\* Types are kept, one action at a time.
LEMMA WaitType ==
  ASSUME WellFormed, TypeOK, NEW t \in Tools, wait_for_sirix_tool_approval(t)
  PROVE  TypeOK'
<1>1. [at |-> "polling"] \in ToolStates
  BY DEF ToolStates
<1> QED
  BY <1>1 DEF TypeOK, wait_for_sirix_tool_approval

\* A check ends with an error.
LEMMA CheckFailsType ==
  ASSUME WellFormed, TypeOK, NEW t \in Tools, CheckFails(t)
  PROVE  TypeOK'
<1>1. [at |-> "failed"] \in ToolStates /\ [at |-> "writing", then |-> "failed"] \in ToolStates
  BY DEF ToolStates
<1>2. tools' \in [Tools -> ToolStates]
  BY <1>1 DEF TypeOK, CheckFails
<1> QED
  BY <1>2 DEF TypeOK, CheckFails

\* A remembered answer is used (resolve_for_check of approval.rs).
LEMMA ResolveForCheckType ==
  ASSUME WellFormed, TypeOK, NEW t \in Tools, resolve_for_check(t)
  PROVE  TypeOK'
<1> DEFINE a == AgentOf[t]
<1>1. a \in Agents
  BY DEF Agents
<1>2. records[a] \in Records
  BY <1>1 DEF TypeOK, Memories, resolve_for_check
<1>3. records[a].decision \in Decision /\ records[a].id \in Ids
  BY <1>2 DEF Records
<1>4. CASE records[a].scope = "once"
  <2>1. [records EXCEPT ![a] = None] \in Memories
    BY DEF TypeOK, Memories
  <2>2. [by |-> t, records |-> [records EXCEPT ![a] = None]]
          \in [by : Tools \cup Answers, records : Memories]
    BY <2>1
  <2>3. [at |-> "writing", then |-> records[a].decision] \in ToolStates
    BY <1>3 DEF ToolStates
  <2>4. [used EXCEPT ![records[a].id] = @ + 1] \in [Ids -> Nat]
    BY <1>3 DEF TypeOK
  <2>5. /\ records' = [records EXCEPT ![a] = None]
        /\ writes' = writes \cup {[by |-> t, records |-> [records EXCEPT ![a] = None]]}
        /\ tools' = [tools EXCEPT ![t] = [at |-> "writing", then |-> records[a].decision]]
        /\ used' = [used EXCEPT ![records[a].id] = @ + 1]
        /\ UNCHANGED <<rules, stored, pending, issued, answering, applied, failures, restarts>>
    BY <1>4 DEF resolve_for_check
  <2>6. writes' \subseteq [by : Tools \cup Answers, records : Memories]
    BY <2>2, <2>5 DEF TypeOK
  <2>7. tools' \in [Tools -> ToolStates]
    BY <2>3, <2>5 DEF TypeOK
  <2> QED
    BY <2>1, <2>4, <2>5, <2>6, <2>7 DEF TypeOK
<1>5. CASE records[a].scope # "once"
  <2>1. [at |-> records[a].decision] \in ToolStates
    BY <1>3 DEF Decision, ToolStates
  <2>2. /\ tools' = [tools EXCEPT ![t] = [at |-> records[a].decision]]
        /\ UNCHANGED <<rules, records, stored, writes, pending, issued, answering, applied, used,
                       failures, restarts>>
    BY <1>5 DEF resolve_for_check
  <2> QED
    BY <2>1, <2>2 DEF TypeOK
<1> QED
  BY <1>4, <1>5

\* The configuration decides.
LEMMA CheckType ==
  ASSUME WellFormed, TypeOK, NEW t \in Tools, check_approval(t)
  PROVE  TypeOK'
<1>1. AgentOf[t] \in Agents
  BY DEF Agents
<1>2. resolve_capability_mode(AgentOf[t]) \in Modes
  BY <1>1, ModeType DEF TypeOK
<1>3. PICK x \in {"asking", "allow", "deny"} : tools' = [tools EXCEPT ![t] = [at |-> x]]
  BY <1>2 DEF check_approval, Modes
<1>4. [at |-> x] \in ToolStates
  BY DEF ToolStates
<1> QED
  BY <1>3, <1>4 DEF TypeOK, check_approval

\* A request is made.
LEMMA EmitType ==
  ASSUME WellFormed, TypeOK, NEW t \in Tools, emit_approval_request_event(t)
  PROVE  TypeOK'
<1> DEFINE a == AgentOf[t]
<1>1. a \in Agents
  BY DEF Agents
<1>2. [at |-> "polling"] \in ToolStates
  BY DEF ToolStates
<1>3. tools' \in [Tools -> ToolStates]
  BY <1>2 DEF TypeOK, emit_approval_request_event
<1>4. CASE pending[a] # None \/ Len(issued) = MaxRequests
  BY <1>3, <1>4 DEF TypeOK, emit_approval_request_event
<1>5. CASE ~(pending[a] # None \/ Len(issued) = MaxRequests)
  <2>1. /\ issued' = Append(issued, a) /\ pending' = [pending EXCEPT ![a] = Len(issued')]
        /\ UNCHANGED <<rules, records, stored, writes, answering, applied, used, failures,
                       restarts>>
    BY <1>5 DEF emit_approval_request_event
  <2>2. Len(issued) < MaxRequests
    BY <1>5 DEF TypeOK, WellFormed
  <2>3. issued' \in Seq(Agents) /\ Len(issued') = Len(issued) + 1 /\ Len(issued') \in Ids
    BY <1>1, <2>1, <2>2 DEF TypeOK, WellFormed, Ids
  <2>4. pending' \in [Agents -> Ids \cup {None}]
    BY <2>1, <2>3 DEF TypeOK
  <2> QED
    BY <1>3, <2>1, <2>2, <2>3, <2>4 DEF TypeOK, WellFormed
<1> QED
  BY <1>4, <1>5

\* An answer claims its request.
LEMMA ClaimType ==
  ASSUME WellFormed, TypeOK, NEW n \in Answers, NEW id \in DOMAIN issued, NEW d \in Decision,
         NEW s \in Scope, NEW local \in BOOLEAN, Claim(n, id, d, s, local)
  PROVE  TypeOK'
<1>1. id \in Ids
  BY AgentOfId
<1>2. [at |-> "apply", id |-> id, decision |-> d, scope |-> s, local |-> local] \in Answerings
  BY <1>1 DEF Answerings
<1>3. answering' \in [Answers -> Answerings] /\ pending' \in [Agents -> Ids \cup {None}]
  BY <1>2 DEF TypeOK, Claim
<1> QED
  BY <1>3 DEF TypeOK, Claim

\* An answer that takes effect is one more of its request.
LEMMA AppliedType ==
  ASSUME TypeOK, NEW n \in Answers, answering[n].at # "free", Applied(n)
  PROVE  applied' \in [Ids -> Seq(Decision)]
<1>1. answering[n].id \in Ids /\ answering[n].decision \in Decision
  BY AnsweringType
<1>2. Append(applied[answering[n].id], answering[n].decision) \in Seq(Decision)
  BY <1>1 DEF TypeOK
<1> QED
  BY <1>1, <1>2 DEF TypeOK, Applied

\* An answer is remembered.
LEMMA ApplyRecordType ==
  ASSUME WellFormed, TypeOK, NEW n \in Answers, ApplyRecord(n)
  PROVE  TypeOK'
<1> DEFINE c == answering[n]
           record == [decision |-> c.decision, scope |-> c.scope, id |-> c.id]
           memory == [records EXCEPT ![issued[c.id]] = record]
<1>1. c.at # "free" /\ c.scope \in {"once", "session"}
  BY DEF ApplyRecord
<1>2. record \in Records
  BY <1>1, AnsweringType DEF Records
<1>3. memory \in Memories
  BY <1>2 DEF TypeOK, Memories
<1>4. records' = memory /\ writes' = writes \cup {[by |-> n, records |-> memory]}
  BY DEF ApplyRecord, set
<1>5. [by |-> n, records |-> memory] \in [by : Tools \cup Answers, records : Memories]
  BY <1>3
<1>6. writes' \subseteq [by : Tools \cup Answers, records : Memories]
  BY <1>4, <1>5 DEF TypeOK
<1>7. answering' \in [Answers -> Answerings]
  BY <1>1, AnsweringType DEF TypeOK, ApplyRecord
<1>8. applied' \in [Ids -> Seq(Decision)]
  BY <1>1, AppliedType DEF ApplyRecord
<1> QED
  BY <1>3, <1>4, <1>6, <1>7, <1>8 DEF TypeOK, ApplyRecord

\* An answer becomes a rule.
LEMMA ApplyRuleType ==
  ASSUME WellFormed, TypeOK, IdsAreAsked, NEW n \in Answers, ApplyRule(n)
  PROVE  TypeOK'
<1> DEFINE c == answering[n]
<1>1. c.at # "free" /\ c.id \in DOMAIN issued
  BY DEF ApplyRule, IdsAreAsked
<1>2. issued[c.id] \in Agents /\ c.decision \in Decision /\ rules \in RuleSets
  BY <1>1, AgentOfId, AnsweringType DEF TypeOK
<1>3. (c.scope = "workspace") \in BOOLEAN
  OBVIOUS
<1>4. persist_capability_approval(issued[c.id], c.decision, c.scope = "workspace")
  BY DEF ApplyRule
<1>5. rules' \in RuleSets
  BY <1>2, <1>3, <1>4, PersistType
<1>6. answering' \in [Answers -> Answerings]
  BY <1>1, AnsweringType DEF TypeOK, ApplyRule
<1>7. applied' \in [Ids -> Seq(Decision)]
  BY <1>1, AppliedType DEF ApplyRule
<1> QED
  BY <1>5, <1>6, <1>7 DEF TypeOK, ApplyRule

\* A request is given back.
LEMMA RestoreType ==
  ASSUME WellFormed, TypeOK, NEW n \in Answers, answering[n].at # "free", restore_pending(n)
  PROVE  /\ pending' \in [Agents -> Ids \cup {None}] /\ answering' \in [Answers -> Answerings]
         /\ failures' \in Nat
<1>1. answering[n].id \in Ids
  BY AnsweringType
<1>2. [at |-> "free"] \in Answerings
  BY DEF Answerings
<1>3. pending' \in [Agents -> Ids \cup {None}]
  BY <1>1 DEF TypeOK, restore_pending
<1>4. answering' \in [Answers -> Answerings]
  BY <1>2 DEF TypeOK, restore_pending
<1> QED
  BY <1>3, <1>4 DEF TypeOK, restore_pending

\* The rule cannot be saved.
LEMMA PersistFailsType ==
  ASSUME WellFormed, TypeOK, NEW n \in Answers, PersistFails(n)
  PROVE  TypeOK'
<1>1. answering[n].at # "free" /\ restore_pending(n)
  BY DEF PersistFails
<1> QED
  BY <1>1, RestoreType DEF TypeOK, PersistFails

\* The backend is told, or cannot be.
LEMMA SyncType ==
  ASSUME WellFormed, TypeOK, NEW n \in Answers, sync_approval_to_backend(n)
  PROVE  TypeOK'
<1>1. answering[n].at # "free"
  BY DEF sync_approval_to_backend
<1>2. [at |-> "free"] \in Answerings
  BY DEF Answerings
<1>3. CASE answering' = [answering EXCEPT ![n] = [at |-> "free"]] /\ UNCHANGED <<pending,
failures>>
  <2>1. answering' \in [Answers -> Answerings]
    BY <1>2, <1>3 DEF TypeOK
  <2> QED
    BY <1>3, <2>1 DEF TypeOK, sync_approval_to_backend
<1>4. CASE restore_pending(n)
  BY <1>1, <1>4, RestoreType DEF TypeOK, sync_approval_to_backend
<1> QED
  BY <1>3, <1>4 DEF sync_approval_to_backend

\* The file of the remembered answers is written.
LEMMA PersistRecordsType ==
  ASSUME WellFormed, TypeOK, WritersWait, persist_session_records
  PROVE  TypeOK'
<1>1. PICK w \in writes :
        /\ stored' \in {w.records, stored} /\ writes' = writes \ {w}
        /\ tools' = [t \in Tools |-> IF t = w.by THEN [at |-> tools[t].then] ELSE tools[t]]
        /\ answering' = [n \in Answers |-> IF n = w.by THEN [answering[n] EXCEPT !.at = "sync"]
                                           ELSE answering[n]]
        /\ UNCHANGED <<rules, records, pending, issued, applied, used, failures, restarts>>
  BY DEF persist_session_records
<1>2. stored' \in Memories
  BY <1>1 DEF TypeOK
<1>3. tools' \in [Tools -> ToolStates]
  <2>1. ASSUME NEW t \in Tools, t = w.by
        PROVE  [at |-> tools[t].then] \in ToolStates
    <3>1. tools[t] \in ToolStates /\ tools[t].at = "writing"
      BY <2>1 DEF WritersWait, TypeOK
    <3>2. tools[t].then \in Decision \cup {"failed"}
      BY <3>1 DEF ToolStates
    <3> QED
      BY <3>2 DEF Decision, ToolStates
  <2> QED
    BY <1>1, <2>1 DEF TypeOK
<1>4. answering' \in [Answers -> Answerings]
  <2>1. ASSUME NEW n \in Answers, n = w.by
        PROVE  [answering[n] EXCEPT !.at = "sync"] \in Answerings
    <3>1. answering[n].at # "free"
      BY <2>1 DEF WritersWait
    <3> QED
      BY <3>1, AnsweringType
  <2> QED
    BY <1>1, <2>1 DEF TypeOK
<1> QED
  BY <1>1, <1>2, <1>3, <1>4 DEF TypeOK

\* The server stops and starts.
LEMMA RestartType ==
  ASSUME WellFormed, TypeOK, Restart
  PROVE  TypeOK'
<1>1. [at |-> "free"] \in Answerings /\ [at |-> "failed"] \in ToolStates
  BY DEF Answerings, ToolStates
<1>2. tools' \in [Tools -> ToolStates] /\ answering' \in [Answers -> Answerings]
  BY <1>1 DEF TypeOK, Restart
<1>3. restarts' \in Nat /\ pending' \in [Agents -> Ids \cup {None}]
  BY DEF TypeOK, Restart
<1> QED
  BY <1>2, <1>3 DEF TypeOK, Restart

\* Types are kept by every step.
LEMMA TypeStep ==
  ASSUME WellFormed, TypeOK, WritersWait, IdsAreAsked, [Next]_vars
  PROVE  TypeOK'
<1>1. CASE UNCHANGED vars
  BY <1>1 DEF TypeOK, vars
<1>2. ASSUME NEW t \in Tools,
             \/ wait_for_sirix_tool_approval(t) \/ resolve_for_check(t)
             \/ check_approval(t) \/ emit_approval_request_event(t) \/ CheckFails(t)
      PROVE  TypeOK'
  BY <1>2, WaitType, ResolveForCheckType, CheckType, EmitType, CheckFailsType
<1>3. ASSUME NEW n \in Answers, NEW id \in DOMAIN issued, NEW d \in Decision, NEW s \in Scope,
             NEW local \in BOOLEAN, Claim(n, id, d, s, local)
      PROVE  TypeOK'
  BY <1>3, ClaimType
<1>4. ASSUME NEW n \in Answers,
             \/ ApplyRecord(n) \/ ApplyRule(n) \/ PersistFails(n) \/ sync_approval_to_backend(n)
      PROVE  TypeOK'
  BY <1>4, ApplyRecordType, ApplyRuleType, PersistFailsType, SyncType
<1>5. CASE persist_session_records
  BY <1>5, PersistRecordsType
<1>6. CASE Restart
  BY <1>6, RestartType
<1> QED
  BY <1>1, <1>2, <1>3, <1>4, <1>5, <1>6
  DEF Next, resolve_approval, sync_backend_capability_approval_resolution

----------------------------------------------------------------------------
(* The parts of the invariant                                              *)

\* The three ways a handler's part of a step can look: it claims a request,
\* goes on with the one it has, or is free (and may have given it back).
Claims(n, id) ==
  /\ answering[n].at = "free" /\ id \in DOMAIN issued /\ pending[issued[id]] = id
  /\ pending' = [pending EXCEPT ![issued[id]] = None]
  /\ \E d \in Decision, s \in Scope, local \in BOOLEAN :
       answering' = [answering EXCEPT ![n] = [at |-> "apply", id |-> id, decision |-> d,
                                              scope |-> s, local |-> local]]
  /\ UNCHANGED <<rules, records, stored, writes, issued, tools, applied, used, failures, restarts>>

\* Every step is one of these.
LEMMA NextCases ==
  ASSUME [Next]_vars
  PROVE  \/ UNCHANGED vars
         \/ \E t \in Tools : \/ wait_for_sirix_tool_approval(t) \/ resolve_for_check(t)
                             \/ check_approval(t) \/ emit_approval_request_event(t)
                             \/ CheckFails(t)
         \/ \E n \in Answers, id \in DOMAIN issued : Claims(n, id)
         \/ \E n \in Answers : \/ ApplyRecord(n) \/ ApplyRule(n) \/ PersistFails(n)
                               \/ sync_approval_to_backend(n)
         \/ persist_session_records
         \/ Restart
<1>1. ASSUME NEW n \in Answers, NEW id \in DOMAIN issued, NEW d \in Decision, NEW s \in Scope,
             NEW local \in BOOLEAN, Claim(n, id, d, s, local)
      PROVE  Claims(n, id)
  BY <1>1 DEF Claim, Claims, take_pending
<1> QED
  BY <1>1 DEF Next, resolve_approval, sync_backend_capability_approval_resolution

\* WritersWait, one action at a time.
LEMMA WritersStep ==
  ASSUME WellFormed, TypeOK, WritersWait, [Next]_vars
  PROVE  WritersWait'
<1>1. CASE UNCHANGED vars
  BY <1>1 DEF WritersWait, vars
<1>2. ASSUME NEW t \in Tools,
             \/ wait_for_sirix_tool_approval(t) \/ check_approval(t)
             \/ emit_approval_request_event(t)
      PROVE  WritersWait'
  <2>1. /\ tools[t].at # "writing" /\ UNCHANGED <<writes, answering>>
        /\ \A u \in Tools : u # t => tools'[u] = tools[u]
    BY <1>2
    DEF TypeOK, wait_for_sirix_tool_approval, check_approval, emit_approval_request_event
  <2> QED
    BY <2>1 DEF WritersWait
<1>9. ASSUME NEW t \in Tools, CheckFails(t)
      PROVE  WritersWait'
  <2>1. /\ tools'[t].at = "writing" <=> tools[t].at = "writing"
        /\ UNCHANGED <<writes, answering>>
        /\ \A u \in Tools : u # t => tools'[u] = tools[u]
    BY <1>9 DEF TypeOK, CheckFails
  <2> QED
    BY <2>1 DEF WritersWait
<1>3. ASSUME NEW t \in Tools, resolve_for_check(t)
      PROVE  WritersWait'
  <2>1. tools[t].at # "writing" /\ t \notin Answers
    BY <1>3 DEF resolve_for_check, WellFormed
  <2>2. /\ \A u \in Tools : u # t => tools'[u] = tools[u]
        /\ UNCHANGED answering
    BY <1>3 DEF TypeOK, resolve_for_check
  <2>3. CASE writes' = writes
    BY <2>1, <2>2, <2>3 DEF WritersWait
  <2>4. CASE writes' # writes
    <3>1. /\ writes' = writes \cup {[by |-> t, records |-> records']}
          /\ tools'[t].at = "writing"
      BY <1>3, <2>4 DEF TypeOK, resolve_for_check
    <3>2. \A w \in writes : w.by # t
      BY <2>1 DEF WritersWait
    <3> QED
      BY <2>1, <2>2, <3>1, <3>2 DEF WritersWait
  <2> QED
    BY <2>3, <2>4
<1>4. ASSUME NEW n \in Answers, NEW id \in DOMAIN issued, Claims(n, id)
      PROVE  WritersWait'
  BY <1>4 DEF WritersWait, Claims, TypeOK
<1>5. ASSUME NEW n \in Answers, ApplyRule(n) \/ PersistFails(n) \/ sync_approval_to_backend(n)
      PROVE  WritersWait'
  <2>1. /\ answering[n].at # "writing" /\ UNCHANGED <<writes, tools>>
        /\ \A m \in Answers : m # n => answering'[m] = answering[m]
    BY <1>5
    DEF TypeOK, ApplyRule, PersistFails, sync_approval_to_backend, restore_pending
  <2> QED
    BY <2>1 DEF WritersWait
<1>6. ASSUME NEW n \in Answers, ApplyRecord(n)
      PROVE  WritersWait'
  <2>1. answering[n].at # "writing" /\ n \notin Tools
    BY <1>6 DEF ApplyRecord, WellFormed
  <2>2. /\ \A m \in Answers : m # n => answering'[m] = answering[m]
        /\ answering'[n].at = "writing" /\ UNCHANGED tools
        /\ writes' = writes \cup {[by |-> n, records |-> records']}
    <3>1. answering' = [answering EXCEPT ![n] = [answering[n] EXCEPT !.at = "writing"]]
      BY <1>6 DEF ApplyRecord
    <3>2. answering[n] \in Answerings /\ answering[n].at # "free"
      BY <1>6 DEF ApplyRecord, TypeOK
    <3>3. [answering[n] EXCEPT !.at = "writing"].at = "writing"
      BY <3>2 DEF Answerings
    <3> QED
      BY <1>6, <3>1, <3>3 DEF ApplyRecord, TypeOK
  <2>3. \A w \in writes : w.by # n
    BY <2>1 DEF WritersWait
  <2> QED
    BY <2>1, <2>2, <2>3 DEF WritersWait
<1>7. CASE persist_session_records
  <2>1. PICK w \in writes :
          /\ writes' = writes \ {w}
          /\ tools' = [t \in Tools |-> IF t = w.by THEN [at |-> tools[t].then] ELSE tools[t]]
          /\ answering' = [n \in Answers |-> IF n = w.by THEN [answering[n] EXCEPT !.at = "sync"]
                                             ELSE answering[n]]
    BY <1>7 DEF persist_session_records
  <2>2. \A x \in writes' : x \in writes /\ x.by # w.by
    BY <2>1 DEF WritersWait
  <2> QED
    BY <2>1, <2>2 DEF WritersWait
<1>8. CASE Restart
  BY <1>8 DEF Restart, WritersWait
<1> QED
  BY <1>1, <1>2, <1>3, <1>4, <1>5, <1>6, <1>7, <1>8, <1>9, NextCases

\* Identifiers are never taken back.
LEMMA IssuedGrows ==
  ASSUME TypeOK, [Next]_vars
  PROVE  \A id \in DOMAIN issued : id \in DOMAIN issued' /\ issued'[id] = issued[id]
<1>1. CASE issued' = issued
  BY <1>1
<1>2. ASSUME NEW t \in Tools, emit_approval_request_event(t), issued' # issued
      PROVE  \A id \in DOMAIN issued : id \in DOMAIN issued' /\ issued'[id] = issued[id]
  <2>1. issued' = Append(issued, AgentOf[t]) /\ issued \in Seq(Agents) /\ AgentOf[t] \in Agents
    BY <1>2 DEF emit_approval_request_event, TypeOK, Agents
  <2> QED
    BY <2>1
<1>3. \/ issued' = issued
      \/ \E t \in Tools : emit_approval_request_event(t)
  BY NextCases
  DEF vars, wait_for_sirix_tool_approval, CheckFails, resolve_for_check, check_approval, Claims,
      ApplyRecord,
      ApplyRule, PersistFails, sync_approval_to_backend, persist_session_records, Restart
<1> QED
  BY <1>1, <1>2, <1>3

\* What was of its agent remains so.
LEMMA MemoryKept ==
  ASSUME NEW memory, NEW asked, NEW longer, OfItsAgent(memory, asked),
         \A id \in DOMAIN asked : id \in DOMAIN longer /\ longer[id] = asked[id]
  PROVE  OfItsAgent(memory, longer)
BY DEF OfItsAgent

\* A new request is one of its agent, and nothing is known of it.
LEMMA EmitEffect ==
  ASSUME WellFormed, TypeOK, NEW t \in Tools, emit_approval_request_event(t)
  PROVE  /\ UNCHANGED <<rules, records, stored, writes, answering, applied, used, failures,
                        restarts>>
         /\ \A u \in Tools : u # t => tools'[u] = tools[u]
         /\ tools'[t] = [at |-> "polling"]
         /\ \/ UNCHANGED <<issued, pending>>
            \/ \E id \in Ids : /\ id \notin DOMAIN issued
                               /\ DOMAIN issued' = DOMAIN issued \cup {id}
                               /\ \A j \in DOMAIN issued : issued'[j] = issued[j]
                               /\ issued'[id] = AgentOf[t] /\ AgentOf[t] \in Agents
                               /\ pending[AgentOf[t]] = None
                               /\ pending' = [pending EXCEPT ![AgentOf[t]] = id]
<1> DEFINE a == AgentOf[t]
<1>1. a \in Agents /\ issued \in Seq(Agents)
  BY DEF Agents, TypeOK
<1>2. CASE pending[a] # None \/ Len(issued) = MaxRequests
  BY <1>2 DEF emit_approval_request_event, TypeOK
<1>3. CASE ~(pending[a] # None \/ Len(issued) = MaxRequests)
  <2>1. issued' = Append(issued, a) /\ pending' = [pending EXCEPT ![a] = Len(issued')]
    BY <1>3 DEF emit_approval_request_event
  <2>2. Len(issued) \in Nat /\ Len(issued) < MaxRequests /\ MaxRequests \in Nat
    BY <1>1, <1>3 DEF TypeOK, WellFormed
  <2>3. Len(issued') \in Ids /\ Len(issued') = Len(issued) + 1
    BY <1>1, <2>1, <2>2 DEF Ids
  <2>4. /\ Len(issued') \notin DOMAIN issued
        /\ DOMAIN issued' = DOMAIN issued \cup {Len(issued')}
        /\ \A j \in DOMAIN issued : issued'[j] = issued[j]
        /\ issued'[Len(issued')] = a
    BY <1>1, <2>1, <2>2, <2>3
  <2> QED
    BY <1>1, <1>3, <2>1, <2>3, <2>4 DEF emit_approval_request_event, TypeOK
<1> QED
  BY <1>2, <1>3

\* IdsAreAsked, one action at a time.
LEMMA IdsStep ==
  ASSUME WellFormed, TypeOK, WritersWait, IdsAreAsked, [Next]_vars
  PROVE  IdsAreAsked'
<1>1. \A id \in DOMAIN issued : id \in DOMAIN issued' /\ issued'[id] = issued[id]
  BY IssuedGrows
<1>2. /\ OfItsAgent(records, issued') /\ OfItsAgent(stored, issued')
      /\ \A w \in writes : OfItsAgent(w.records, issued')
  BY <1>1, MemoryKept DEF IdsAreAsked
<1>3. CASE UNCHANGED <<issued, pending, answering, records, stored, writes>>
  BY <1>3 DEF IdsAreAsked
<1>4. ASSUME NEW t \in Tools, resolve_for_check(t)
      PROVE  IdsAreAsked'
  <2>1. UNCHANGED <<issued, pending, answering, stored>>
    BY <1>4 DEF resolve_for_check
  <2>2. records' = records \/ records' = [records EXCEPT ![AgentOf[t]] = None]
    BY <1>4 DEF resolve_for_check
  <2>3. OfItsAgent(records', issued')
    BY <1>2, <2>2 DEF OfItsAgent, TypeOK, Memories
  <2>4. \A w \in writes' : w \in writes \/ w.records = records'
    BY <1>4 DEF resolve_for_check
  <2> QED
    BY <1>2, <2>1, <2>3, <2>4 DEF IdsAreAsked
<1>5. ASSUME NEW t \in Tools, emit_approval_request_event(t), ~UNCHANGED <<issued, pending>>
      PROVE  IdsAreAsked'
  <2>1. PICK id \in Ids : /\ DOMAIN issued' = DOMAIN issued \cup {id}
                          /\ issued'[id] = AgentOf[t] /\ AgentOf[t] \in Agents
                          /\ pending' = [pending EXCEPT ![AgentOf[t]] = id]
    BY <1>5, EmitEffect
  <2>2. UNCHANGED <<records, stored, writes, answering>>
    BY <1>5, EmitEffect
  <2>3. \A a \in Agents : pending'[a] # None =>
          pending'[a] \in DOMAIN issued' /\ issued'[pending'[a]] = a
    BY <1>1, <2>1 DEF IdsAreAsked, TypeOK
  <2> QED
    BY <1>1, <1>2, <2>2, <2>3 DEF IdsAreAsked
<1>6. ASSUME NEW n \in Answers, NEW id \in DOMAIN issued, Claims(n, id)
      PROVE  IdsAreAsked'
  <2>1. UNCHANGED <<issued, records, stored, writes>>
    BY <1>6 DEF Claims
  <2>2. \A a \in Agents : pending'[a] # None => pending'[a] = pending[a]
    BY <1>6 DEF Claims, TypeOK
  <2>3. \A m \in Answers : answering'[m].at # "free" =>
          answering'[m].id \in DOMAIN issued
    BY <1>6 DEF Claims, TypeOK, IdsAreAsked
  <2> QED
    BY <1>2, <2>1, <2>2, <2>3 DEF IdsAreAsked
<1>7. ASSUME NEW n \in Answers, ApplyRecord(n)
      PROVE  IdsAreAsked'
  <2> DEFINE c == answering[n]
             record == [decision |-> c.decision, scope |-> c.scope, id |-> c.id]
  <2>1. UNCHANGED <<issued, pending, stored>>
    BY <1>7 DEF ApplyRecord
  <2>2. answering[n].at # "free" /\ answering[n].id \in DOMAIN issued
    BY <1>7 DEF ApplyRecord, IdsAreAsked
  <2>3. records' = [records EXCEPT ![issued[c.id]] = record]
    BY <1>7 DEF ApplyRecord, set
  <2>4. OfItsAgent(records', issued')
    BY <1>2, <2>1, <2>2, <2>3 DEF OfItsAgent, TypeOK, Memories
  <2>5. \A w \in writes' : w \in writes \/ w.records = records'
    BY <1>7 DEF ApplyRecord
  <2>6. \A m \in Answers : answering'[m].at # "free" =>
          answering[m].at # "free" /\ answering'[m].id = answering[m].id
    <3>1. answering' = [answering EXCEPT ![n] = [answering[n] EXCEPT !.at = "writing"]]
      BY <1>7 DEF ApplyRecord
    <3>2. [answering[n] EXCEPT !.at = "writing"].id = answering[n].id
      BY <2>2 DEF TypeOK, Answerings
    <3> QED
      BY <2>2, <3>1, <3>2 DEF TypeOK
  <2> QED
    BY <1>2, <2>1, <2>4, <2>5, <2>6 DEF IdsAreAsked
<1>8. ASSUME NEW n \in Answers, ApplyRule(n)
      PROVE  IdsAreAsked'
  <2>1. UNCHANGED <<issued, pending, stored, records, writes>>
    BY <1>8 DEF ApplyRule
  <2>2. answering[n].at # "free"
    BY <1>8 DEF ApplyRule
  <2>3. \A m \in Answers : answering'[m].at # "free" =>
          answering[m].at # "free" /\ answering'[m].id = answering[m].id
    <3>1. answering' = [answering EXCEPT ![n] = [answering[n] EXCEPT !.at = "sync"]]
      BY <1>8 DEF ApplyRule
    <3>2. [answering[n] EXCEPT !.at = "sync"].id = answering[n].id
      BY <2>2 DEF TypeOK, Answerings
    <3> QED
      BY <2>2, <3>1, <3>2 DEF TypeOK
  <2> QED
    BY <2>1, <2>3 DEF IdsAreAsked
<1>9. ASSUME NEW n \in Answers, PersistFails(n) \/ sync_approval_to_backend(n)
      PROVE  IdsAreAsked'
  <2>1. UNCHANGED <<issued, stored, records, writes>>
    BY <1>9 DEF PersistFails, sync_approval_to_backend
  <2>2. answering[n].at # "free" /\ answering' = [answering EXCEPT ![n] = [at |-> "free"]]
    BY <1>9 DEF PersistFails, sync_approval_to_backend, restore_pending
  <2>3. \/ pending' = pending
        \/ pending' = [pending EXCEPT ![issued[answering[n].id]] = answering[n].id]
    BY <1>9 DEF PersistFails, sync_approval_to_backend, restore_pending
  <2>4. answering[n].id \in DOMAIN issued /\ issued[answering[n].id] \in Agents
    BY <2>2, AgentOfId DEF IdsAreAsked
  <2>5. \A a \in Agents : pending'[a] # None =>
          pending'[a] \in DOMAIN issued /\ issued[pending'[a]] = a
    BY <2>3, <2>4 DEF IdsAreAsked, TypeOK
  <2>6. \A m \in Answers : answering'[m].at # "free" => answering'[m] = answering[m]
    BY <2>2 DEF TypeOK
  <2> QED
    BY <2>1, <2>5, <2>6 DEF IdsAreAsked
<1>10. CASE persist_session_records
  <2>1. PICK w \in writes :
          /\ stored' \in {w.records, stored} /\ writes' = writes \ {w}
          /\ answering' = [n \in Answers |-> IF n = w.by THEN [answering[n] EXCEPT !.at = "sync"]
                                             ELSE answering[n]]
          /\ UNCHANGED <<records, pending, issued>>
    BY <1>10 DEF persist_session_records
  <2>2. \A m \in Answers : answering[m].at # "free" =>
          [answering[m] EXCEPT !.at = "sync"].id = answering[m].id
    BY DEF TypeOK, Answerings
  <2>3. \A m \in Answers : answering[m].at = "free" => m # w.by
    BY <2>1 DEF WritersWait
  <2> QED
    BY <1>2, <2>1, <2>2, <2>3 DEF IdsAreAsked
<1>11. CASE Restart
  <2>1. /\ records' = stored /\ writes' = {} /\ UNCHANGED <<stored, issued>>
        /\ pending' = [a \in Agents |-> None]
        /\ answering' = [n \in Answers |-> [at |-> "free"]]
    BY <1>11 DEF Restart
  <2> QED
    BY <1>2, <2>1 DEF IdsAreAsked
<1> QED
  BY <1>3, <1>4, <1>5, <1>6, <1>7, <1>8, <1>9, <1>10, <1>11, NextCases, EmitEffect
  DEF vars, wait_for_sirix_tool_approval, CheckFails, check_approval

\* A handler that goes on keeps its request, a free one stays free.
LEMMA HandlerGoesOn ==
  ASSUME TypeOK, WritersWait,
         \/ \E n \in Answers : ApplyRecord(n) \/ ApplyRule(n)
         \/ persist_session_records
  PROVE  /\ UNCHANGED <<issued, pending>>
         /\ \A m \in Answers :
              /\ answering'[m].at = "free" <=> answering[m].at = "free"
              /\ answering[m].at # "free" =>
                   /\ answering'[m].id = answering[m].id
                   /\ answering'[m].decision = answering[m].decision
                   /\ answering'[m].at = "apply" => answering[m].at = "apply"
<1>1. \A m \in Answers, x \in {"writing", "sync"} : answering[m].at # "free" =>
        /\ [answering[m] EXCEPT !.at = x].at = x
        /\ [answering[m] EXCEPT !.at = x].id = answering[m].id
        /\ [answering[m] EXCEPT !.at = x].decision = answering[m].decision
  BY DEF TypeOK, Answerings
<1>2. ASSUME NEW n \in Answers, NEW x \in {"writing", "sync"}, answering[n].at # "free",
             answering' = [answering EXCEPT ![n] = [answering[n] EXCEPT !.at = x]]
      PROVE  \A m \in Answers :
              /\ answering'[m].at = "free" <=> answering[m].at = "free"
              /\ answering[m].at # "free" =>
                   /\ answering'[m].id = answering[m].id
                   /\ answering'[m].decision = answering[m].decision
                   /\ answering'[m].at = "apply" => answering[m].at = "apply"
  BY <1>1, <1>2 DEF TypeOK
<1>3. ASSUME NEW n \in Answers, ApplyRecord(n) \/ ApplyRule(n)
      PROVE  /\ UNCHANGED <<issued, pending>> /\ answering[n].at # "free"
             /\ \E x \in {"writing", "sync"} :
                  answering' = [answering EXCEPT ![n] = [answering[n] EXCEPT !.at = x]]
  BY <1>3 DEF ApplyRecord, ApplyRule
<1>4. CASE persist_session_records
  <2>1. PICK w \in writes :
          /\ answering' = [n \in Answers |-> IF n = w.by THEN [answering[n] EXCEPT !.at = "sync"]
                                             ELSE answering[n]]
          /\ UNCHANGED <<pending, issued>>
    BY <1>4 DEF persist_session_records
  <2>2. \A m \in Answers : answering[m].at = "free" => m # w.by
    BY DEF WritersWait
  <2> QED
    BY <1>1, <2>1, <2>2
<1> QED
  BY <1>2, <1>3, <1>4

\* A request that is given back waits again, and its handler is free.
LEMMA GivesBack ==
  ASSUME WellFormed, TypeOK, IdsAreAsked, NEW n \in Answers,
         PersistFails(n) \/ sync_approval_to_backend(n)
  PROVE  /\ answering[n].at \in {"apply", "sync"} /\ answering'[n].at = "free"
         /\ answering[n].id \in DOMAIN issued /\ issued[answering[n].id] \in Agents
         /\ \A m \in Answers : m # n => answering'[m] = answering[m]
         /\ UNCHANGED <<rules, records, stored, writes, issued, tools, applied, used, restarts>>
         /\ \/ UNCHANGED <<pending, failures>>
            \/ /\ pending' = [pending EXCEPT ![issued[answering[n].id]] = answering[n].id]
               /\ failures' = failures + 1
<1>1. answering[n].at \in {"apply", "sync"}
  BY DEF PersistFails, sync_approval_to_backend
<1>2. answering' = [answering EXCEPT ![n] = [at |-> "free"]]
  BY DEF PersistFails, sync_approval_to_backend, restore_pending
<1>3. answering'[n].at = "free" /\ \A m \in Answers : m # n => answering'[m] = answering[m]
  BY <1>2 DEF TypeOK
<1>4. answering[n].id \in DOMAIN issued /\ issued[answering[n].id] \in Agents
  BY <1>1, AgentOfId DEF IdsAreAsked
<1> QED
  BY <1>1, <1>3, <1>4 DEF PersistFails, sync_approval_to_backend, restore_pending

\* The token stays one, one action at a time.
LEMMA TokenStep ==
  ASSUME WellFormed, TypeOK, WritersWait, IdsAreAsked, TokenIsUnique, [Next]_vars
  PROVE  TokenIsUnique'
<1>1. \A id \in DOMAIN issued : id \in Ids /\ id # None /\ issued[id] \in Agents
  BY AgentOfId DEF WellFormed
<1>2. CASE UNCHANGED <<issued, pending, answering>>
  BY <1>2 DEF TokenIsUnique
<1>3. ASSUME NEW t \in Tools, emit_approval_request_event(t), ~UNCHANGED <<issued, pending>>
      PROVE  TokenIsUnique'
  <2>1. PICK id \in Ids : /\ id \notin DOMAIN issued
                          /\ \A j \in DOMAIN issued : issued'[j] = issued[j]
                          /\ issued'[id] = AgentOf[t] /\ AgentOf[t] \in Agents
                          /\ pending' = [pending EXCEPT ![AgentOf[t]] = id]
    BY <1>3, EmitEffect
  <2>2. answering' = answering
    BY <1>3, EmitEffect
  <2>3. \A n \in Answers : answering[n].at # "free" =>
          answering[n].id \in DOMAIN issued /\ answering[n].id # id
    BY <2>1 DEF IdsAreAsked
  <2>4. \A a \in Agents : pending'[a] = pending[a] \/ pending'[a] = id
    BY <2>1 DEF TypeOK
  <2> QED
    BY <1>1, <2>1, <2>2, <2>3, <2>4 DEF TokenIsUnique
<1>4. ASSUME NEW n \in Answers, NEW id \in DOMAIN issued, Claims(n, id)
      PROVE  TokenIsUnique'
  <2>1. /\ answering'[n].at = "apply" /\ answering'[n].id = id /\ answering[n].at = "free"
        /\ \A m \in Answers : m # n => answering'[m] = answering[m]
        /\ UNCHANGED issued
    BY <1>4 DEF Claims, TypeOK
  <2>2. /\ pending'[issued[id]] = None /\ pending[issued[id]] = id
        /\ \A a \in Agents : pending'[a] = pending[a] \/ pending'[a] = None
    BY <1>1, <1>4 DEF Claims, TypeOK
  <2>3. \A m \in Answers : answering[m].at # "free" => answering[m].id # id
    BY <2>2 DEF TokenIsUnique
  <2> QED
    BY <1>1, <2>1, <2>2, <2>3 DEF TokenIsUnique, IdsAreAsked
<1>5. CASE \/ \E n \in Answers : ApplyRecord(n) \/ ApplyRule(n)
           \/ persist_session_records
  BY <1>5, HandlerGoesOn DEF TokenIsUnique
<1>6. ASSUME NEW n \in Answers, PersistFails(n) \/ sync_approval_to_backend(n)
      PROVE  TokenIsUnique'
  <2>1. /\ answering[n].at # "free" /\ answering'[n].at = "free"
        /\ answering[n].id \in DOMAIN issued /\ issued[answering[n].id] \in Agents
        /\ \A m \in Answers : m # n => answering'[m] = answering[m]
        /\ UNCHANGED issued
    BY <1>6, GivesBack
  <2>2. \/ pending' = pending
        \/ pending' = [pending EXCEPT ![issued[answering[n].id]] = answering[n].id]
    BY <1>6, GivesBack
  <2>3. \A a \in Agents : pending'[a] = pending[a] \/ pending'[a] = answering[n].id
    BY <2>1, <2>2 DEF TypeOK
  <2>4. \A m \in Answers : m # n /\ answering[m].at # "free" => answering[m].id # answering[n].id
    BY <2>1 DEF TokenIsUnique
  <2> QED
    BY <1>1, <2>1, <2>3, <2>4 DEF TokenIsUnique, IdsAreAsked
<1>7. CASE Restart
  BY <1>7 DEF Restart, TokenIsUnique
<1> QED
  BY <1>2, <1>3, <1>4, <1>5, <1>6, <1>7, NextCases, EmitEffect
  DEF vars, wait_for_sirix_tool_approval, CheckFails, check_approval, resolve_for_check

\* A step that applies an answer adds it to the answers of its request only.
LEMMA AppliedEffect ==
  ASSUME WellFormed, TypeOK, NEW n \in Answers, ApplyRecord(n) \/ ApplyRule(n)
  PROVE  /\ answering[n].at = "apply" /\ answering[n].id \in Ids
         /\ applied'[answering[n].id] = Append(applied[answering[n].id], answering[n].decision)
         /\ Len(applied'[answering[n].id]) = Len(applied[answering[n].id]) + 1
         /\ \A id \in Ids : id # answering[n].id => applied'[id] = applied[id]
         /\ UNCHANGED <<issued, pending, used, failures, restarts>>
         /\ answering'[n].at # "apply"
         /\ \A m \in Answers : m # n => answering'[m] = answering[m]
<1>1. answering[n].at = "apply"
  BY DEF ApplyRecord, ApplyRule
<1>2. answering[n].id \in Ids /\ answering[n].decision \in Decision
  BY <1>1, AnsweringType
<1>3. applied' = [applied EXCEPT ![answering[n].id] =
                    Append(applied[answering[n].id], answering[n].decision)]
  BY DEF ApplyRecord, ApplyRule, Applied
<1>4. applied[answering[n].id] \in Seq(Decision)
  BY <1>2 DEF TypeOK
<1>5. Len(Append(applied[answering[n].id], answering[n].decision))
        = Len(applied[answering[n].id]) + 1
  BY <1>2, <1>4
<1>6. \E x \in {"writing", "sync"} :
        answering' = [answering EXCEPT ![n] = [answering[n] EXCEPT !.at = x]]
  BY DEF ApplyRecord, ApplyRule
<1>7. \A x \in {"writing", "sync"} : [answering[n] EXCEPT !.at = x].at = x
  BY <1>1 DEF TypeOK, Answerings
<1>8. answering'[n].at # "apply" /\ \A m \in Answers : m # n => answering'[m] = answering[m]
  BY <1>6, <1>7 DEF TypeOK
<1>9. UNCHANGED <<issued, pending, used, failures, restarts>>
  BY DEF ApplyRecord, ApplyRule
<1> QED
  BY <1>1, <1>2, <1>3, <1>5, <1>8, <1>9 DEF TypeOK

\* The answers that took effect are counted, one action at a time.
LEMMA EffectsStep ==
  ASSUME WellFormed, TypeOK, WritersWait, IdsAreAsked, TokenIsUnique, EffectsAreCounted,
         [Next]_vars
  PROVE  EffectsAreCounted'
<1>1. /\ \A id \in DOMAIN issued : id \in Ids /\ id # None /\ issued[id] \in Agents
      /\ failures \in Nat /\ \A id \in Ids : Len(applied[id]) \in Nat
  BY AgentOfId DEF WellFormed, TypeOK
<1>2. CASE UNCHANGED <<issued, pending, answering, applied, failures>>
  BY <1>2 DEF EffectsAreCounted
<1>3. ASSUME NEW t \in Tools, emit_approval_request_event(t), ~UNCHANGED <<issued, pending>>
      PROVE  EffectsAreCounted'
  <2>1. PICK new \in Ids : /\ new \notin DOMAIN issued
                           /\ DOMAIN issued' = DOMAIN issued \cup {new}
                           /\ \A j \in DOMAIN issued : issued'[j] = issued[j]
                           /\ issued'[new] = AgentOf[t] /\ AgentOf[t] \in Agents
                           /\ pending' = [pending EXCEPT ![AgentOf[t]] = new]
    BY <1>3, EmitEffect
  <2>2. UNCHANGED <<answering, applied, failures>>
    BY <1>3, EmitEffect
  <2>3. \A a \in Agents : pending'[a] = pending[a] \/ pending'[a] = new
    BY <2>1 DEF TypeOK
  <2>4. \A id \in Ids : id \in DOMAIN issued' /\ pending'[issued'[id]] = id =>
          Len(applied[id]) <= failures
    <3>1. Len(applied[new]) <= failures
      BY <1>1, <2>1 DEF EffectsAreCounted
    <3> QED
      BY <1>1, <2>1, <2>3, <3>1 DEF EffectsAreCounted
  <2> QED
    BY <2>1, <2>2, <2>4 DEF EffectsAreCounted
<1>4. ASSUME NEW n \in Answers, NEW id \in DOMAIN issued, Claims(n, id)
      PROVE  EffectsAreCounted'
  <2>1. /\ answering'[n].id = id /\ UNCHANGED <<issued, applied, failures>>
        /\ \A m \in Answers : m # n => answering'[m] = answering[m]
    BY <1>4 DEF Claims, TypeOK
  <2>2. pending[issued[id]] = id /\ \A a \in Agents : pending'[a] = pending[a] \/ pending'[a] = None
    BY <1>4 DEF Claims, TypeOK
  <2>3. Len(applied[id]) <= failures
    BY <1>1, <2>2 DEF EffectsAreCounted
  <2> QED
    BY <1>1, <2>1, <2>2, <2>3 DEF EffectsAreCounted
<1>5. ASSUME NEW n \in Answers, ApplyRecord(n) \/ ApplyRule(n)
      PROVE  EffectsAreCounted'
  <2> DEFINE mine == answering[n].id
  <2>1. /\ answering[n].at = "apply" /\ mine \in Ids
        /\ Len(applied'[mine]) = Len(applied[mine]) + 1
        /\ \A id \in Ids : id # mine => applied'[id] = applied[id]
        /\ UNCHANGED <<issued, pending, failures>> /\ answering'[n].at # "apply"
        /\ \A m \in Answers : m # n => answering'[m] = answering[m]
    BY <1>5, AppliedEffect
  <2>2. Len(applied[mine]) <= failures /\ mine \in DOMAIN issued
    BY <2>1 DEF EffectsAreCounted, IdsAreAsked
  <2>3. /\ pending[issued[mine]] # mine
        /\ \A m \in Answers : answering[m].at = "apply" /\ answering[m].id = mine => m = n
    BY <2>1 DEF TokenIsUnique
  <2> QED
    BY <1>1, <2>1, <2>2, <2>3 DEF EffectsAreCounted
<1>6. CASE persist_session_records
  <2>1. UNCHANGED <<applied, failures>>
    BY <1>6 DEF persist_session_records
  <2> QED
    BY <1>6, <2>1, HandlerGoesOn DEF EffectsAreCounted
<1>7. ASSUME NEW n \in Answers, PersistFails(n) \/ sync_approval_to_backend(n)
      PROVE  EffectsAreCounted'
  <2> DEFINE mine == answering[n].id
  <2>1. /\ answering'[n].at = "free" /\ mine \in DOMAIN issued /\ issued[mine] \in Agents
        /\ \A m \in Answers : m # n => answering'[m] = answering[m]
        /\ UNCHANGED <<issued, applied>>
    BY <1>7, GivesBack
  <2>2. CASE UNCHANGED <<pending, failures>>
    BY <2>1, <2>2 DEF EffectsAreCounted
  <2>3. CASE pending' = [pending EXCEPT ![issued[mine]] = mine] /\ failures' = failures + 1
    <3>1. \A id \in Ids : Len(applied[id]) <= failures'
      BY <1>1, <2>3 DEF EffectsAreCounted
    <3> QED
      BY <1>1, <2>1, <2>3, <3>1 DEF EffectsAreCounted
  <2> QED
    BY <1>7, <2>2, <2>3, GivesBack
<1>8. CASE Restart
  <2>1. /\ UNCHANGED <<issued, applied, failures>>
        /\ pending' = [a \in Agents |-> None]
        /\ answering' = [n \in Answers |-> [at |-> "free"]]
    BY <1>8 DEF Restart
  <2> QED
    BY <1>1, <2>1 DEF EffectsAreCounted
<1> QED
  BY <1>2, <1>3, <1>4, <1>5, <1>6, <1>7, <1>8, NextCases, EmitEffect
  DEF vars, wait_for_sirix_tool_approval, CheckFails, check_approval, resolve_for_check

\* The uses of answers are counted, one action at a time.
LEMMA UsesStep ==
  ASSUME WellFormed, TypeOK, IdsAreAsked, UsesAreCounted, [Next]_vars
  PROVE  UsesAreCounted'
<1>1. /\ restarts \in Nat
      /\ \A id \in Ids : Len(applied[id]) \in Nat /\ used[id] \in Nat
  BY DEF TypeOK
<1>2. CASE UNCHANGED <<records, applied, used, restarts>>
  BY <1>2 DEF UsesAreCounted, Remembered
<1>3. ASSUME NEW t \in Tools, resolve_for_check(t), records' # records
      PROVE  UsesAreCounted'
  <2> DEFINE a == AgentOf[t]
             mine == records[a].id
  <2>1. a \in Agents
    BY DEF Agents
  <2>2. /\ records[a] # None /\ records' = [records EXCEPT ![a] = None]
        /\ used' = [used EXCEPT ![mine] = @ + 1]
        /\ UNCHANGED <<applied, restarts>>
    BY <1>3 DEF resolve_for_check
  <2>3. mine \in Ids /\ issued[mine] = a
    BY <2>1, <2>2 DEF TypeOK, Memories, Records, IdsAreAsked, OfItsAgent
  <2>4. \A b \in Agents : records'[b] # None => b # a /\ records'[b] = records[b]
    BY <2>1, <2>2 DEF TypeOK, Memories
  <2>5. \A id \in Ids : Remembered(id)' => Remembered(id) /\ id # mine
    BY <2>3, <2>4 DEF Remembered, IdsAreAsked, OfItsAgent
  <2>6. Remembered(mine)
    BY <2>1, <2>2 DEF Remembered
  <2>7. used'[mine] = used[mine] + 1 /\ \A id \in Ids : id # mine => used'[id] = used[id]
    BY <2>2, <2>3 DEF TypeOK
  <2> QED
    BY <1>1, <2>2, <2>3, <2>5, <2>6, <2>7 DEF UsesAreCounted
<1>4. ASSUME NEW n \in Answers, ApplyRecord(n)
      PROVE  UsesAreCounted'
  <2> DEFINE mine == answering[n].id
  <2>1. /\ mine \in Ids /\ Len(applied'[mine]) = Len(applied[mine]) + 1
        /\ \A id \in Ids : id # mine => applied'[id] = applied[id]
        /\ UNCHANGED <<used, restarts>>
    BY <1>4, AppliedEffect
  <2>2. records' = [records EXCEPT ![issued[mine]] =
                      [decision |-> answering[n].decision, scope |-> answering[n].scope,
                       id |-> mine]]
    BY <1>4 DEF ApplyRecord, set
  <2>3. \A b \in Agents : records'[b] = records[b] \/ records'[b].id = mine
    BY <2>2 DEF TypeOK, Memories
  <2>4. \A id \in Ids : Remembered(id)' => Remembered(id) \/ id = mine
    BY <2>3 DEF Remembered
  <2>5. ASSUME NEW id \in Ids
        PROVE  /\ used'[id] <= Len(applied'[id]) + restarts'
               /\ Remembered(id)' => used'[id] + 1 <= Len(applied'[id]) + restarts'
    <3>1. /\ used'[id] = used[id] /\ restarts' = restarts
          /\ IF id = mine THEN Len(applied'[id]) = Len(applied[id]) + 1
             ELSE Len(applied'[id]) = Len(applied[id])
      BY <2>1
    <3>2. used[id] \in Nat /\ Len(applied[id]) \in Nat /\ restarts \in Nat
      BY <1>1
    <3>3. /\ used[id] <= Len(applied[id]) + restarts
          /\ Remembered(id)' /\ id # mine => used[id] + 1 <= Len(applied[id]) + restarts
      BY <2>4 DEF UsesAreCounted
    <3>4. PICK u \in Nat, l \in Nat, r \in Nat :
            u = used[id] /\ l = Len(applied[id]) /\ r = restarts
      BY <3>2
    <3>5. CASE id = mine
      <4>1. u <= l + r
        BY <3>3, <3>4
      <4>2. u + 1 <= (l + 1) + r
        BY <4>1
      <4>3. used'[id] = u /\ Len(applied'[id]) = l + 1 /\ restarts' = r
        BY <3>1, <3>4, <3>5
      <4>4. QED
        BY <4>1, <4>2, <4>3
    <3>6. CASE id # mine
      <4>1. used'[id] = used[id] /\ Len(applied'[id]) = Len(applied[id]) /\ restarts' = restarts
        BY <3>1, <3>6
      <4>2. QED
        BY <3>3, <3>6, <4>1
    <3>7. QED
      BY <3>5, <3>6
  <2> QED
    BY <2>5 DEF UsesAreCounted
<1>5. ASSUME NEW n \in Answers, ApplyRule(n)
      PROVE  UsesAreCounted'
  <2> DEFINE mine == answering[n].id
  <2>1. /\ mine \in Ids /\ Len(applied'[mine]) = Len(applied[mine]) + 1
        /\ \A id \in Ids : id # mine => applied'[id] = applied[id]
        /\ UNCHANGED <<used, restarts>>
    BY <1>5, AppliedEffect
  <2>2. records' = records
    BY <1>5 DEF ApplyRule
  <2>3. \A id \in Ids : Remembered(id)' => Remembered(id)
    BY <2>2 DEF Remembered
  <2>4. ASSUME NEW id \in Ids
        PROVE  /\ used'[id] <= Len(applied'[id]) + restarts'
               /\ Remembered(id)' => used'[id] + 1 <= Len(applied'[id]) + restarts'
    <3>1. /\ used'[id] = used[id] /\ restarts' = restarts
          /\ \/ Len(applied'[id]) = Len(applied[id])
             \/ Len(applied'[id]) = Len(applied[id]) + 1
      BY <2>1
    <3>2. used[id] \in Nat /\ Len(applied[id]) \in Nat /\ restarts \in Nat
      BY <1>1
    <3>3. /\ used[id] <= Len(applied[id]) + restarts
          /\ Remembered(id)' => used[id] + 1 <= Len(applied[id]) + restarts
      BY <2>3 DEF UsesAreCounted
    <3>4. PICK u \in Nat, l \in Nat, r \in Nat :
            u = used[id] /\ l = Len(applied[id]) /\ r = restarts
      BY <3>2
    <3>5. PICK m \in {l, l + 1} : m = Len(applied'[id])
      BY <3>1, <3>4
    <3>6. u <= l + r => u <= m + r
      BY <3>5
    <3>7. u + 1 <= l + r => u + 1 <= m + r
      BY <3>5
    <3>8. used'[id] = u /\ restarts' = r
      BY <3>1, <3>4
    <3>9. u <= l + r /\ (Remembered(id)' => u + 1 <= l + r)
      BY <3>3, <3>4
    <3>10. QED
      BY <3>5, <3>6, <3>7, <3>8, <3>9
  <2> QED
    BY <2>4 DEF UsesAreCounted
<1>6. CASE Restart
  <2>1. UNCHANGED <<applied, used>> /\ restarts' = restarts + 1
    BY <1>6 DEF Restart
  <2>2. \A id \in Ids : used[id] <= Len(applied[id]) + restarts
    BY DEF UsesAreCounted
  <2>3. ASSUME NEW id \in Ids
        PROVE  /\ used'[id] <= Len(applied'[id]) + restarts'
               /\ used'[id] + 1 <= Len(applied'[id]) + restarts'
    <3>1. /\ used'[id] = used[id] /\ Len(applied'[id]) = Len(applied[id])
          /\ restarts' = restarts + 1
      BY <2>1
    <3>2. used[id] \in Nat /\ Len(applied[id]) \in Nat /\ restarts \in Nat
      BY <1>1
    <3>3. used[id] <= Len(applied[id]) + restarts
      BY <2>2
    <3>4. PICK u \in Nat, l \in Nat, r \in Nat :
            u = used[id] /\ l = Len(applied[id]) /\ r = restarts
      BY <3>2
    <3>5. u <= l + r
      BY <3>3, <3>4
    <3>6. u <= l + (r + 1) /\ u + 1 <= l + (r + 1)
      BY <3>5
    <3>7. used'[id] = u /\ Len(applied'[id]) = l /\ restarts' = r + 1
      BY <3>1, <3>4
    <3> QED
      BY <3>6, <3>7
  <2> QED
    BY <2>3 DEF UsesAreCounted
<1>7. \/ UNCHANGED <<records, applied, used, restarts>>
      \/ \E t \in Tools : resolve_for_check(t) /\ records' # records
      \/ \E n \in Answers : ApplyRecord(n) \/ ApplyRule(n)
      \/ Restart
  <2>1. ASSUME NEW t \in Tools, resolve_for_check(t), records' = records
        PROVE  UNCHANGED <<records, applied, used, restarts>>
    <3>1. AgentOf[t] \in Agents /\ records[AgentOf[t]] # None
      BY <2>1 DEF Agents, resolve_for_check
    <3>2. [records EXCEPT ![AgentOf[t]] = None] # records
      BY <3>1 DEF TypeOK, Memories
    <3> QED
      BY <2>1, <3>2 DEF resolve_for_check
  <2> QED
    BY <2>1, NextCases
    DEF vars, wait_for_sirix_tool_approval, CheckFails, check_approval, emit_approval_request_event, Claims,
        PersistFails, sync_approval_to_backend, persist_session_records
<1> QED
  BY <1>2, <1>3, <1>4, <1>5, <1>6, <1>7

----------------------------------------------------------------------------
(* Theorems                                                                *)

\* The invariant is inductive: whatever fails, crashes or overlaps, in memory
\* and in the file, a request has one answer at a time and an answer for one
\* use is one use.
THEOREM Inductive == WellFormed => (Spec => []IInv)
<1> SUFFICES ASSUME WellFormed PROVE Spec => []IInv
  OBVIOUS
<1>1. Init => IInv
  BY InitHolds
<1>2. IInv /\ [Next]_vars => IInv'
  BY TypeStep, WritersStep, IdsStep, TokenStep, EffectsStep, UsesStep DEF IInv
<1> QED
  BY <1>1, <1>2, PTL DEF Spec

\* Every reachable state is well typed.
THEOREM TypeCorrect == WellFormed => (Spec => []TypeOK)
<1> SUFFICES ASSUME WellFormed PROVE Spec => []TypeOK
  OBVIOUS
<1>1. IInv => TypeOK
  BY DEF IInv
<1> QED
  BY <1>1, Inductive, PTL

\* An answer takes effect once, whichever surfaces give it, unless a failure
\* makes the request wait again, and one for one use admits one call unless a
\* restart finds the file behind the memory (approval.rs, resolve_for_check).
THEOREM AnswerTakesEffectOnceAlways == WellFormed => (Spec => []AnswerTakesEffectOnce)
<1> SUFFICES ASSUME WellFormed PROVE Spec => []AnswerTakesEffectOnce
  OBVIOUS
<1>1. IInv => AnswerTakesEffectOnce
  <2> SUFFICES ASSUME IInv, NEW id \in Ids
               PROVE  Len(applied[id]) <= 1 + failures /\ used[id] <= 1 + restarts + failures
    BY DEF AnswerTakesEffectOnce, Ids
  <2>1. /\ Len(applied[id]) \in Nat /\ used[id] \in Nat /\ failures \in Nat /\ restarts \in Nat
    BY DEF IInv, TypeOK
  <2>2. Len(applied[id]) <= 1 + failures /\ used[id] <= Len(applied[id]) + restarts
    BY DEF IInv, EffectsAreCounted, UsesAreCounted
  <2> QED
    BY <2>1, <2>2
<1> QED
  BY <1>1, Inductive, PTL

----------------------------------------------------------------------------
(* What allows was granted                                                 *)

\* The configuration that is loaded knows every agent, whatever is saved.
LEMMA KnownStep ==
  ASSUME WellFormed, TypeOK, IdsAreAsked, AgentsKnown, [Next]_vars
  PROVE  AgentsKnown'
<1>1. CASE rules' = rules
  BY <1>1 DEF AgentsKnown
<1>2. ASSUME NEW n \in Answers, ApplyRule(n)
      PROVE  AgentsKnown'
  <2> DEFINE a == issued[answering[n].id]
             d == answering[n].decision
             workspace == answering[n].scope = "workspace"
  <2>1. a \in Agents /\ rules \in RuleSets
    BY <1>2, AgentOfId DEF ApplyRule, IdsAreAsked, TypeOK
  <2>2. rules' = IF workspace THEN [rules EXCEPT !.workspace = FileAfter(a, d, workspace)]
                 ELSE [rules EXCEPT !.global = FileAfter(a, d, workspace)]
    BY <1>2, PersistIsFileAfter DEF ApplyRule
  <2>3. CASE workspace
    BY <2>1, <2>2, <2>3 DEF AgentsKnown, RuleSets
  <2>4. CASE ~workspace
    <3>1. rules.global.agent[a] # None /\ rules.global.agent[a] \in Layers
      BY <2>1 DEF AgentsKnown, RuleSets, RuleFiles
    <3>2. FileAfter(a, d, workspace) = [rules.global EXCEPT !.agent[a].own = d]
      BY <2>4, <3>1 DEF FileAfter, FileBefore, WithAgent, WithOwn
    <3>3. [rules.global.agent[a] EXCEPT !.own = d] # None
      <4>1. d \in Modes
        BY <1>2, AnsweringType DEF ApplyRule, Decision, Modes
      <4>2. [rules.global.agent[a] EXCEPT !.own = d] \in Layers
        BY <3>1, <4>1 DEF Layers
      <4> QED
        BY <4>2 DEF WellFormed
    <3>4. rules'.global = [rules.global EXCEPT !.agent[a].own = d]
      BY <2>1, <2>2, <2>4, <3>2 DEF RuleSets
    <3> QED
      BY <2>1, <3>3, <3>4 DEF AgentsKnown, RuleSets, RuleFiles
  <2> QED
    BY <2>3, <2>4
<1>3. rules' = rules \/ \E n \in Answers : ApplyRule(n)
  BY NextCases
  DEF vars, wait_for_sirix_tool_approval, CheckFails, resolve_for_check, check_approval,
      emit_approval_request_event, Claims, ApplyRecord, PersistFails, sync_approval_to_backend,
      persist_session_records, Restart
<1> QED
  BY <1>1, <1>2, <1>3

\* What was granted stays so.
LEMMA GrantedGrows ==
  ASSUME WellFormed, TypeOK, IdsAreAsked, [Next]_vars, NEW a, Granted(a)
  PROVE  Granted(a)'
<1>1. PICK id \in DOMAIN issued : /\ issued[id] = a
                                  /\ \E i \in DOMAIN applied[id] : applied[id][i] = "allow"
  BY DEF Granted
<1>2. id \in DOMAIN issued' /\ issued'[id] = a /\ id \in Ids
  BY <1>1, IssuedGrows, AgentOfId
<1>3. PICK i \in DOMAIN applied[id] : applied[id][i] = "allow"
  BY <1>1
<1>4. i \in DOMAIN applied'[id] /\ applied'[id][i] = "allow"
  <2>1. CASE applied' = applied
    BY <1>3, <2>1
  <2>2. ASSUME NEW n \in Answers, ApplyRecord(n) \/ ApplyRule(n)
        PROVE  i \in DOMAIN applied'[id] /\ applied'[id][i] = "allow"
    <3>1. \/ applied'[id] = applied[id]
          \/ applied'[id] = Append(applied[id], answering[n].decision)
      BY <1>2, <2>2, AppliedEffect
    <3>2. applied[id] \in Seq(Decision)
      BY <1>2 DEF TypeOK
    <3> QED
      BY <1>3, <3>1, <3>2
  <2>3. applied' = applied \/ \E n \in Answers : ApplyRecord(n) \/ ApplyRule(n)
    BY NextCases
    DEF vars, wait_for_sirix_tool_approval, CheckFails, resolve_for_check, check_approval,
        emit_approval_request_event, Claims, PersistFails, sync_approval_to_backend,
        persist_session_records, Restart
  <2> QED
    BY <2>1, <2>2, <2>3
<1> QED
  BY <1>2, <1>4 DEF Granted

\* An answer that allows grants its agent, in the step that applies it.
LEMMA ApplyGrants ==
  ASSUME WellFormed, TypeOK, IdsAreAsked, NEW n \in Answers, ApplyRecord(n) \/ ApplyRule(n),
         answering[n].decision = "allow", NEW a, a = issued[answering[n].id]
  PROVE  Granted(a)'
<1> DEFINE mine == answering[n].id
<1>1. /\ answering[n].at = "apply" /\ mine \in Ids /\ issued' = issued
      /\ applied'[mine] = Append(applied[mine], "allow")
  BY AppliedEffect
<1>2. mine \in DOMAIN issued /\ applied[mine] \in Seq(Decision)
  BY <1>1 DEF IdsAreAsked, TypeOK
<1>3. /\ Len(applied[mine]) + 1 \in DOMAIN applied'[mine]
      /\ applied'[mine][Len(applied[mine]) + 1] = "allow"
  BY <1>1, <1>2
<1> QED
  BY <1>1, <1>2, <1>3 DEF Granted

\* A file keeps its grants when more is granted.
LEMMA FileKept ==
  ASSUME NEW file \in RuleFiles, FileGranted(file),
         \A a \in Agents : Granted(a) => Granted(a)'
  PROVE  /\ Strict(file.top)
         /\ \A a \in Agents : file.agent[a] # None =>
              /\ file.agent[a].mode # "allow" /\ file.agent[a].broad # "allow"
              /\ file.agent[a].own = "allow" => Granted(a)'
BY DEF FileGranted, RuleGranted

\* A layer with the answer as its rule for the capability is a layer.
LEMMA OwnLayer ==
  ASSUME NEW layer \in Layers, NEW d \in Decision
  PROVE  /\ [layer EXCEPT !.own = d] \in Layers /\ [layer EXCEPT !.own = d].own = d
         /\ [layer EXCEPT !.own = d].mode = layer.mode
         /\ [layer EXCEPT !.own = d].broad = layer.broad
BY DEF Layers, Decision, Modes

\* What an answer saved as a rule leaves, where every agent is known: the
\* file as it was, with the effective agent, whose rule is the answer.
LEMMA FileAfterIs ==
  ASSUME WellFormed, rules \in RuleSets, AgentsKnown, NEW a \in Agents, NEW d \in Decision,
         NEW workspace \in BOOLEAN
  PROVE  \E base \in {FileBefore(workspace).agent[a], EffectiveAgent(a)} :
           /\ base \in Layers /\ base # None
           /\ FileAfter(a, d, workspace).top = FileBefore(workspace).top
           /\ FileAfter(a, d, workspace).agent[a] = [base EXCEPT !.own = d]
           /\ \A b \in Agents : b # a =>
                FileAfter(a, d, workspace).agent[b] = FileBefore(workspace).agent[b]
<1> DEFINE file == FileBefore(workspace)
           with == WithAgent(file, a, workspace)
           base == with.agent[a]
<1>1. file \in RuleFiles /\ with \in RuleFiles
  BY FileBeforeType, WithAgentType
<1>2. EffectiveAgent(a) \in Layers /\ EffectiveAgent(a) # None
  BY EffectiveAgentType DEF AgentsKnown, EffectiveAgent
<1>3. base \in {file.agent[a], EffectiveAgent(a)} /\ base # None
  <2>1. CASE workspace /\ file.agent[a] = None
    <3>1. with = [file EXCEPT !.agent[a] = EffectiveAgent(a)]
      BY <2>1 DEF WithAgent
    <3>2. base = EffectiveAgent(a)
      BY <1>1, <3>1 DEF RuleFiles
    <3> QED
      BY <1>2, <3>2
  <2>2. CASE ~workspace
    <3>1. with = file /\ file = rules.global
      BY <2>2 DEF WithAgent, FileBefore
    <3> QED
      BY <3>1 DEF AgentsKnown
  <2>3. CASE workspace /\ file.agent[a] # None
    <3>1. with = file
      BY <2>3 DEF WithAgent
    <3> QED
      BY <2>3, <3>1
  <2> QED
    BY <2>1, <2>2, <2>3
<1>4. base \in Layers
  BY <1>1, <1>3 DEF RuleFiles
<1>5. with.top = file.top /\ \A b \in Agents : b # a => with.agent[b] = file.agent[b]
  BY <1>1 DEF WithAgent, RuleFiles
<1>6. FileAfter(a, d, workspace) = [with EXCEPT !.agent[a].own = d]
  BY <1>3 DEF FileAfter, WithOwn
<1>7. /\ FileAfter(a, d, workspace).top = with.top
      /\ FileAfter(a, d, workspace).agent[a] = [base EXCEPT !.own = d]
      /\ \A b \in Agents : b # a => FileAfter(a, d, workspace).agent[b] = with.agent[b]
  BY <1>1, <1>6 DEF RuleFiles
<1> QED
  BY <1>3, <1>4, <1>5, <1>7

\* The rules grant only what somebody granted, one action at a time.
LEMMA RulesStep ==
  ASSUME WellFormed, TypeOK, IdsAreAsked, AgentsKnown, RulesGranted, [Next]_vars
  PROVE  RulesGranted'
<1> DEFINE Kept(layer, b) == /\ layer.mode # "allow" /\ layer.broad # "allow"
                             /\ layer.own = "allow" => Granted(b)'
           FileIs(file) == /\ Strict(file.top)
                           /\ \A b \in Agents : file.agent[b] # None => Kept(file.agent[b], b)
<1>1. \A b \in Agents : Granted(b) => Granted(b)'
  BY GrantedGrows
<1>2. /\ rules \in RuleSets /\ rules.global \in RuleFiles
      /\ rules.workspace # None => rules.workspace \in RuleFiles
  BY DEF TypeOK, RuleSets
<1>3. FileIs(rules.global) /\ (rules.workspace # None => FileIs(rules.workspace))
  BY <1>1 DEF RulesGranted, FileGranted, RuleGranted
<1>4. CASE rules' = rules
  BY <1>3, <1>4 DEF RulesGranted, FileGranted, RuleGranted
<1>5. ASSUME NEW n \in Answers, ApplyRule(n)
      PROVE  RulesGranted'
  <2>1. PICK a \in Agents, d \in Decision, workspace \in BOOLEAN :
          /\ a = issued[answering[n].id] /\ d = answering[n].decision
          /\ workspace = (answering[n].scope = "workspace")
    BY <1>5, AgentOfId, AnsweringType DEF ApplyRule, IdsAreAsked
  <2>2. d = "allow" => Granted(a)'
    BY <1>5, <2>1, ApplyGrants
  <2>3. rules' = IF workspace THEN [rules EXCEPT !.workspace = FileAfter(a, d, workspace)]
                 ELSE [rules EXCEPT !.global = FileAfter(a, d, workspace)]
    BY <1>5, <2>1, PersistIsFileAfter DEF ApplyRule
  <2>4. FileIs(FileBefore(workspace))
    <3>1. CASE FileBefore(workspace) = [top |-> NoRules, agent |-> [x \in Agents |-> None]]
      BY <3>1 DEF Strict, NoRules, WellFormed, Modes
    <3>2. CASE FileBefore(workspace) # [top |-> NoRules, agent |-> [x \in Agents |-> None]]
      BY <1>3, <3>2 DEF FileBefore
    <3> QED
      BY <3>1, <3>2
  <2>5. EffectiveAgent(a) # None => Kept(EffectiveAgent(a), a)
    BY <1>3 DEF EffectiveAgent
  <2>6. PICK base \in {FileBefore(workspace).agent[a], EffectiveAgent(a)} :
           /\ base \in Layers /\ base # None
           /\ FileAfter(a, d, workspace).top = FileBefore(workspace).top
           /\ FileAfter(a, d, workspace).agent[a] = [base EXCEPT !.own = d]
           /\ \A b \in Agents : b # a =>
                FileAfter(a, d, workspace).agent[b] = FileBefore(workspace).agent[b]
    BY <1>2, FileAfterIs
  <2>7. Kept([base EXCEPT !.own = d], a)
    BY <2>2, <2>4, <2>5, <2>6, OwnLayer
  <2>8. FileIs(FileAfter(a, d, workspace))
    BY <2>4, <2>6, <2>7
  <2>9. CASE workspace
    <3>1. /\ rules'.workspace = FileAfter(a, d, workspace)
          /\ rules'.global = rules.global
      BY <1>2, <2>3, <2>9 DEF RuleSets
    <3> QED
      BY <1>3, <2>8, <3>1 DEF RulesGranted, FileGranted, RuleGranted
  <2>10. CASE ~workspace
    <3>1. /\ rules'.global = FileAfter(a, d, workspace)
          /\ rules'.workspace = rules.workspace
      BY <1>2, <2>3, <2>10 DEF RuleSets
    <3> QED
      BY <1>3, <2>8, <3>1 DEF RulesGranted, FileGranted, RuleGranted
  <2> QED
    BY <2>9, <2>10
<1>6. rules' = rules \/ \E n \in Answers : ApplyRule(n)
  BY NextCases
  DEF vars, wait_for_sirix_tool_approval, CheckFails, resolve_for_check, check_approval,
      emit_approval_request_event, Claims, ApplyRecord, PersistFails, sync_approval_to_backend,
      persist_session_records, Restart
<1> QED
  BY <1>4, <1>5, <1>6

\* A configuration that allows by itself nothing says allow of granted agents.
LEMMA ModeGranted ==
  ASSUME WellFormed, TypeOK, AgentsKnown, RulesGranted, NEW a \in Agents,
         resolve_capability_mode(a) = "allow"
  PROVE  Granted(a)
<1> DEFINE agent == EffectiveAgent(a)
           merged == merge_capability_rules(rules.global.top, agent)
<1>1. agent # None /\ RuleGranted(agent, a)
  BY DEF AgentsKnown, RulesGranted, FileGranted, EffectiveAgent
<1>2. Strict(rules.global.top) /\ (rules.workspace # None => Strict(rules.workspace.top))
  BY DEF RulesGranted, FileGranted
<1>3. /\ merged.mode # "allow" /\ merged.broad # "allow"
      /\ merged.own = "allow" => Granted(a)
  BY <1>1, <1>2 DEF merge_capability_rules, Strict, RuleGranted
<1>4. CASE rules.workspace = None
  <2>1. resolve_named_capability_mode(merged) = "allow"
    BY <1>1, <1>4 DEF resolve_capability_mode
  <2> QED
    BY <1>3, <2>1 DEF resolve_named_capability_mode
<1>5. CASE rules.workspace # None
  <2> DEFINE whole == merge_capability_rules(merged, rules.workspace.top)
  <2>1. resolve_named_capability_mode(whole) = "allow"
    BY <1>1, <1>5 DEF resolve_capability_mode
  <2>2. /\ whole.mode # "allow" /\ whole.broad # "allow"
        /\ whole.own = "allow" => Granted(a)
    BY <1>2, <1>3, <1>5 DEF merge_capability_rules, Strict
  <2> QED
    BY <2>1, <2>2 DEF resolve_named_capability_mode
<1> QED
  BY <1>4, <1>5

\* Whatever allows was granted, one action at a time.
LEMMA AllowsStep ==
  ASSUME WellFormed, TypeOK, WritersWait, IdsAreAsked, AgentsKnown, AllowsAreGranted, [Next]_vars
  PROVE  AllowsAreGranted'
<1> DEFINE KeptIn(memory) ==
             \A a \in Agents : memory[a] # None /\ memory[a].decision = "allow" => Granted(a)'
           ToolIs(state, t) ==
             /\ state.at = "allow" => Granted(AgentOf[t])'
             /\ state.at = "writing" /\ state.then = "allow" => Granted(AgentOf[t])'
<1>1. \A a \in Agents : Granted(a) => Granted(a)'
  BY GrantedGrows
<1>2. \A t \in Tools : AgentOf[t] \in Agents
  BY DEF Agents
<1>3. /\ KeptIn(records) /\ KeptIn(stored) /\ \A w \in writes : KeptIn(w.records)
      /\ \A t \in Tools : ToolIs(tools[t], t)
  BY <1>1, <1>2 DEF AllowsAreGranted, GrantedIn
<1>4. RulesGranted'
  BY RulesStep DEF AllowsAreGranted
<1>5. ASSUME /\ KeptIn(records') /\ KeptIn(stored') /\ \A w \in writes' : KeptIn(w.records)
             /\ \A t \in Tools : ToolIs(tools'[t], t)
      PROVE  AllowsAreGranted'
  BY <1>4, <1>5 DEF AllowsAreGranted, GrantedIn
<1>6. CASE UNCHANGED <<records, stored, writes, tools>>
  BY <1>3, <1>5, <1>6
<1>7. ASSUME NEW t \in Tools, wait_for_sirix_tool_approval(t) \/ emit_approval_request_event(t)
      PROVE  AllowsAreGranted'
  <2>1. /\ UNCHANGED <<records, stored, writes>>
        /\ \A u \in Tools : tools'[u] = tools[u] \/ tools'[u] = [at |-> "polling"]
    BY <1>7 DEF wait_for_sirix_tool_approval, emit_approval_request_event, TypeOK
  <2> QED
    BY <1>3, <1>5, <2>1
<1>13. ASSUME NEW t \in Tools, CheckFails(t)
       PROVE  AllowsAreGranted'
  <2>1. /\ UNCHANGED <<records, stored, writes>>
        /\ \A u \in Tools : \/ tools'[u] = tools[u] \/ tools'[u] = [at |-> "failed"]
                           \/ tools'[u] = [at |-> "writing", then |-> "failed"]
    BY <1>13 DEF CheckFails, TypeOK
  <2> QED
    BY <1>3, <1>5, <2>1
<1>8. ASSUME NEW t \in Tools, check_approval(t)
      PROVE  AllowsAreGranted'
  <2>1. UNCHANGED <<records, stored, writes>>
    BY <1>8 DEF check_approval
  <2>2. PICK mode : /\ mode = resolve_capability_mode(AgentOf[t])
                    /\ tools' = [tools EXCEPT ![t] = [at |-> IF mode = "ask" THEN "asking"
                                                             ELSE mode]]
    BY <1>8 DEF check_approval
  <2>3. mode \in Modes
    BY <1>2, <2>2, ModeType DEF TypeOK
  <2>4. mode = "allow" => Granted(AgentOf[t])'
    BY <1>1, <1>2, <2>2, ModeGranted DEF AllowsAreGranted
  <2>5. /\ \A u \in Tools : u # t => tools'[u] = tools[u]
        /\ tools'[t] = [at |-> IF mode = "ask" THEN "asking" ELSE mode]
    BY <2>2 DEF TypeOK
  <2>6. ToolIs(tools'[t], t)
    BY <2>3, <2>4, <2>5 DEF Modes
  <2> QED
    BY <1>3, <1>5, <2>1, <2>5, <2>6
<1>9. ASSUME NEW t \in Tools, resolve_for_check(t)
      PROVE  AllowsAreGranted'
  <2> DEFINE a == AgentOf[t]
  <2>1. /\ records[a] # None /\ a \in Agents /\ UNCHANGED stored
        /\ \A u \in Tools : u # t => tools'[u] = tools[u]
    BY <1>2, <1>9 DEF resolve_for_check, TypeOK
  <2>2. records[a].decision = "allow" => Granted(a)'
    BY <1>3, <2>1
  <2>3. \/ tools'[t] = [at |-> "writing", then |-> records[a].decision]
        \/ tools'[t] = [at |-> records[a].decision]
    BY <1>9 DEF resolve_for_check, TypeOK
  <2>4. records[a].decision \in Decision
    BY <2>1 DEF TypeOK, Memories, Records
  <2>5. ToolIs(tools'[t], t)
    BY <2>2, <2>3, <2>4 DEF Decision
  <2>6. KeptIn(records')
    <3>1. records' = records \/ records' = [records EXCEPT ![a] = None]
      BY <1>9 DEF resolve_for_check
    <3>2. \A b \in Agents : records'[b] # None => records'[b] = records[b]
      BY <3>1 DEF TypeOK, Memories
    <3> QED
      BY <1>3, <3>2
  <2>7. \A w \in writes' : w \in writes \/ w.records = records'
    BY <1>9 DEF resolve_for_check
  <2> QED
    BY <1>3, <1>5, <2>1, <2>5, <2>6, <2>7
<1>10. ASSUME NEW n \in Answers, ApplyRecord(n)
       PROVE  AllowsAreGranted'
  <2>1. /\ UNCHANGED <<stored, tools>>
        /\ \A w \in writes' : w \in writes \/ w.records = records'
    BY <1>10 DEF ApplyRecord
  <2>2. PICK a : a = issued[answering[n].id]
    OBVIOUS
  <2>3. answering[n].decision = "allow" => Granted(a)'
    BY <1>10, <2>2, ApplyGrants
  <2>4. records' = [records EXCEPT ![a] = [decision |-> answering[n].decision,
                                           scope |-> answering[n].scope, id |-> answering[n].id]]
    BY <1>10, <2>2 DEF ApplyRecord, set
  <2>5. \A b \in Agents : \/ records'[b] = records[b]
                          \/ b = a /\ records'[b].decision = answering[n].decision
    BY <2>4 DEF TypeOK, Memories
  <2>6. KeptIn(records')
    BY <1>3, <2>3, <2>5
  <2> QED
    BY <1>3, <1>5, <2>1, <2>6
<1>11. CASE persist_session_records
  <2>1. PICK w \in writes :
          /\ stored' \in {w.records, stored} /\ writes' = writes \ {w}
          /\ tools' = [t \in Tools |-> IF t = w.by THEN [at |-> tools[t].then] ELSE tools[t]]
          /\ UNCHANGED records
    BY <1>11 DEF persist_session_records
  <2>2. ASSUME NEW t \in Tools PROVE ToolIs(tools'[t], t)
    <3>1. CASE t = w.by
      <4>1. tools[t].at = "writing" /\ tools'[t] = [at |-> tools[t].then]
        BY <2>1, <3>1 DEF WritersWait
      <4>2. tools[t].then \in Decision \cup {"failed"}
        BY <4>1 DEF TypeOK, ToolStates
      <4> QED
        BY <1>3, <4>1, <4>2 DEF Decision
    <3>2. CASE t # w.by
      BY <1>3, <2>1, <3>2
    <3> QED
      BY <3>1, <3>2
  <2> QED
    BY <1>3, <1>5, <2>1, <2>2
<1>12. CASE Restart
  <2>1. /\ records' = stored /\ writes' = {} /\ UNCHANGED stored
        /\ \A t \in Tools : tools'[t] = tools[t] \/ tools'[t] = [at |-> "failed"]
    BY <1>12 DEF Restart
  <2> QED
    BY <1>3, <1>5, <2>1
<1> QED
  BY <1>6, <1>7, <1>8, <1>9, <1>10, <1>11, <1>12, <1>13, NextCases
  DEF vars, Claims, ApplyRule, PersistFails, sync_approval_to_backend

\* A configuration without a rule that allows starts with nothing granted.
LEMMA AllowsInit ==
  ASSUME WellFormed, KnowsAgents, AllowsNothing, Init
  PROVE  AgentsKnown /\ AllowsAreGranted
<1>1. AgentsKnown
  BY DEF Init, KnowsAgents, AgentsKnown
<1>2. RulesGranted
  BY DEF Init, AllowsNothing, RulesGranted, FileGranted, RuleGranted, Strict
<1>3. /\ GrantedIn(records) /\ GrantedIn(stored) /\ \A w \in writes : GrantedIn(w.records)
      /\ \A t \in Tools : tools[t].at = "idle"
  BY DEF Init, GrantedIn
<1> QED
  BY <1>1, <1>2, <1>3 DEF AllowsAreGranted

\* Where the configuration knows every agent and allows nothing by itself, a
\* tool call is let through only after an answer that allows the same agent
\* took effect, whatever is remembered, saved, used up or found after a
\* restart (approval.rs, resolve_for_check; config.rs, the merged rules).
THEOREM AllowWasGrantedAlways ==
  WellFormed /\ KnowsAgents /\ AllowsNothing => (Spec => []AllowWasGranted)
<1> SUFFICES ASSUME WellFormed, KnowsAgents, AllowsNothing PROVE Spec => []AllowWasGranted
  OBVIOUS
<1> DEFINE GInv == AgentsKnown /\ AllowsAreGranted
<1>1. Init => GInv
  BY AllowsInit
<1>2. IInv /\ GInv /\ [Next]_vars => GInv'
  BY KnownStep, AllowsStep DEF IInv
<1>3. GInv => AllowWasGranted
  BY DEF AllowsAreGranted, Granted, AllowWasGranted
<1> QED
  BY <1>1, <1>2, <1>3, Inductive, PTL DEF Spec

----------------------------------------------------------------------------
(* An answer for the workspace                                             *)

\* An answer saved for the workspace is the rule there, as long as the whole
\* workspace has no rule of its own for the capability.
LEMMA WorkspaceRuleDecides ==
  ASSUME WellFormed, TypeOK, IdsAreAsked, AgentsKnown, NEW n \in Answers, ApplyRule(n),
         answering[n].scope = "workspace",
         rules.workspace = None \/ rules.workspace.top.own = None,
         NEW a, a = issued[answering[n].id]
  PROVE  resolve_capability_mode(a)' = answering[n].decision
<1>1. PICK d \in Decision, workspace \in BOOLEAN :
        d = answering[n].decision /\ workspace = TRUE /\ a \in Agents
  BY AgentOfId, AnsweringType DEF ApplyRule, IdsAreAsked
<1>2. rules' = [rules EXCEPT !.workspace = FileAfter(a, d, workspace)] /\ rules \in RuleSets
  BY <1>1, PersistIsFileAfter DEF ApplyRule, TypeOK
<1>3. PICK base \in {FileBefore(workspace).agent[a], EffectiveAgent(a)} :
        /\ base \in Layers /\ base # None
        /\ FileAfter(a, d, workspace).top = FileBefore(workspace).top
        /\ FileAfter(a, d, workspace).agent[a] = [base EXCEPT !.own = d]
        /\ \A b \in Agents : b # a =>
             FileAfter(a, d, workspace).agent[b] = FileBefore(workspace).agent[b]
  <2>1. a \in Agents /\ rules \in RuleSets
    BY <1>1, <1>2
  <2> QED
    BY <2>1, FileAfterIs, SMTT(30)
<1>4. FileAfter(a, d, workspace) \in RuleFiles
  BY <1>1, <1>2, FileBeforeType, WithAgentType, WithOwnType DEF FileAfter
<1>5. PICK file \in RuleFiles : file = FileAfter(a, d, workspace) /\ file # None
  BY <1>4 DEF WellFormed
<1>6. rules'.workspace = file /\ rules'.global = rules.global
  BY <1>2, <1>5 DEF RuleSets
<1>7. file.agent[a].own = d /\ file.agent[a] \in Layers /\ file.agent[a] # None
  <2>1. file.agent[a] = [base EXCEPT !.own = d]
    BY <1>5, <1>3
  <2>2. d \in Decision /\ base \in Layers
    BY <1>1, <1>3
  <2>3. [base EXCEPT !.own = d].own = d /\ [base EXCEPT !.own = d] \in Layers
    BY <2>2, OwnLayer
  <2> QED
    BY <2>1, <2>3 DEF WellFormed
<1>8. file.top.own = None
  <2>1. file.top = FileBefore(TRUE).top
    BY <1>1, <1>5, <1>3
  <2> QED
    BY <2>1 DEF FileBefore, NoRules
<1>9. d # None
  BY <1>1 DEF WellFormed, Decision, Modes
<1>10. EffectiveAgent(a)' = file.agent[a]
  BY <1>6, <1>5, <1>7 DEF EffectiveAgent
<1> DEFINE agent == merge_capability_rules(rules.global.top, file.agent[a])
           whole == merge_capability_rules(agent, file.top)
<1>11. whole.own = d
  BY <1>7, <1>8, <1>9 DEF merge_capability_rules
<1>12. resolve_capability_mode(a)' = resolve_named_capability_mode(whole)
  BY <1>6, <1>5, <1>7, <1>10 DEF resolve_capability_mode
<1> QED
  BY <1>1, <1>9, <1>11, <1>12 DEF resolve_named_capability_mode

\* Where every agent is known, an answer for the workspace decides the next
\* check there, unless a rule of the whole workspace names the capability
\* (ai.rs, persist_capability_approval).
THEOREM WorkspaceAnswerDecidesAlways ==
  WellFormed /\ KnowsAgents => (Spec => WorkspaceAnswerDecides)
<1> SUFFICES ASSUME WellFormed, KnowsAgents PROVE Spec => WorkspaceAnswerDecides
  OBVIOUS
<1>1. Init => AgentsKnown
  BY DEF Init, KnowsAgents, AgentsKnown
<1>2. IInv /\ AgentsKnown /\ [Next]_vars => AgentsKnown'
  BY KnownStep DEF IInv
<1>3. IInv /\ AgentsKnown /\ [Next]_vars => [WorkspaceAnswerStep]_vars
  <2> SUFFICES ASSUME IInv, AgentsKnown, [Next]_vars, NEW n \in Answers,
                      answering[n].at = "apply", answering'[n].at = "sync",
                      answering[n].scope = "workspace",
                      rules.workspace = None \/ rules.workspace.top.own = None
               PROVE  resolve_capability_mode(issued[answering[n].id])' = answering[n].decision
    BY DEF WorkspaceAnswerStep
  <2>1. ApplyRule(n)
    <3>1. ~UNCHANGED answering
      OBVIOUS
    <3>2. \A m \in Answers, id \in DOMAIN issued : ~Claims(m, id)
      BY DEF Claims, IInv, TypeOK
    <3>3. \A m \in Answers : m # n =>
            ~(ApplyRecord(m) \/ ApplyRule(m) \/ PersistFails(m) \/ sync_approval_to_backend(m))
      BY AppliedEffect, GivesBack DEF IInv
    <3>4. ~ApplyRecord(n) /\ ~PersistFails(n) /\ ~sync_approval_to_backend(n)
      BY GivesBack DEF ApplyRecord, IInv
    <3>5. ~persist_session_records
      BY DEF persist_session_records, WritersWait, IInv
    <3>6. ~Restart
      BY DEF Restart
    <3> QED
      BY <3>1, <3>2, <3>3, <3>4, <3>5, <3>6, NextCases
      DEF vars, wait_for_sirix_tool_approval, CheckFails, resolve_for_check, check_approval,
          emit_approval_request_event
  <2>2. issued'[answering'[n].id] = issued[answering[n].id]
    BY <2>1, HandlerGoesOn DEF IInv
  <2>3. PICK a : a = issued[answering[n].id]
    OBVIOUS
  <2>4. resolve_capability_mode(a)' = answering[n].decision
    BY <2>1, <2>3, WorkspaceRuleDecides DEF IInv
  <2> QED
    BY <2>2, <2>3, <2>4
<1> QED
  BY <1>1, <1>2, <1>3, Inductive, PTL DEF Spec, WorkspaceAnswerDecides

=============================================================================
