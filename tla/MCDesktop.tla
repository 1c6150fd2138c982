------------------------------- MODULE MCDesktop -------------------------------
(***************************************************************************)
(* TLC instances of the desktop server's approvals of capabilities, shell   *)
(* rules, terminals and attachments. A behaviour runs one of them, `part`:  *)
(*   "agents"    two tool calls of two agents,                             *)
(*   "polling"   one call whose answers also fail,                         *)
(*   "shell"     the shell rules,                                          *)
(*   "terminal"  a terminal from its creation to its end,                  *)
(*   "stream"    an attached program, a lagging socket, three chunks,      *)
(*   "stranger"  two chunks and an event of another terminal,              *)
(*   "echo"      two chunks and a request that is announced twice,         *)
(*   "prompt"    two requests at the prompt of an attached program,        *)
(*   "screen"    a screen that is written, and its viewer,                 *)
(*   "resized"   a screen that is also resized meanwhile.                  *)
(* The variables of the others are None, those of the capabilities, whose   *)
(* fairness is stated, as they are when nothing was asked, and those of     *)
(* TerminalLifecycle, which this module extends, as they are initially.     *)
(***************************************************************************)
EXTENDS TerminalLifecycle, Integers

CONSTANTS t1, MaxRequests, MaxHandled

VARIABLES part,
          rules, remembered, stored, writes, pending, issued, answering, tools, applied, used,
          failures, restarts,
          ruleFiles, sessionRules, policy, runtimeMode, handling, handled, loose,
          latest, first, unsent, alive, requests, socket, receiver, lagged, inbox, program,
          attached_once, prompt, submitted, shown, held, whole, torn, strangers, echoes, lost,
          script, sync, out, res, bus, asks, view, resizes, leaves, others,
          older, crossed, missed

capabilityVars == <<rules, remembered, stored, writes, pending, issued, answering, tools, applied,
                    used, failures, restarts>>
shellVars == <<ruleFiles, sessionRules, policy, runtimeMode, handling, handled, loose>>
attachVars == <<latest, first, unsent, alive, requests, socket, receiver, lagged, inbox, program,
                attached_once, prompt, submitted, shown, held, whole, torn, strangers, echoes,
                lost>>
screenVars == <<script, sync, out, res, bus, asks, view, resizes, leaves, others, older, crossed,
                missed>>
mcVars == <<part, capabilityVars, shellVars, vars, attachVars, screenVars>>

----------------------------------------------------------------------------
(* Values                                                                  *)

Asks == [mode |-> "ask", own |-> None, broad |-> None]
BroadAsks == [Asks EXCEPT !.broad = "ask"]
OfTwo == [w1 |-> "a1", w2 |-> "a2"]
TwoRules == {[global |-> [top |-> Asks, agent |-> [a \in {"a1", "a2"} |-> Asks]],
              workspace |-> [top |-> BroadAsks, agent |-> [a1 |-> Asks, a2 |-> None]]]}
OfOne == [w1 |-> "a1"]
OneRules == {[global |-> [top |-> Asks, agent |-> [a1 |-> Asks]],
              workspace |-> [top |-> BroadAsks, agent |-> [a1 |-> a]]] : a \in {None, Asks}}

Prefix == <<"a", "b", "c">>
Commands == {SubSeq(Prefix, 1, n) : n \in 1..3}
AgentRules == [mode |-> "ask", allow |-> {SubSeq(Prefix, 1, 1)}, deny |-> {}]
Settings == {[mode |-> "allow", allow |-> {SubSeq(Prefix, 1, 2), SubSeq(Prefix, 1, 1)},
              deny |-> {Prefix}]}
DefaultDeny == {SubSeq(Prefix, 1, 2)}
Handlers == {"h1", "h2"}
PolicySessions == {"q1"}

RequestScopes == [r1 |-> <<"once", "workspace">>, r2 |-> <<"once">>]
RequestCandidates == [r1 |-> <<"p1", "p2">>, r2 |-> <<>>]

Wide == [rows |-> 2, narrow |-> FALSE]
Narrow == [rows |-> 2, narrow |-> TRUE]
Tall == [rows |-> 3, narrow |-> FALSE]
Programs == {<<"line", "text", "line">>, <<"line", "feed", "feed">>, <<"line", "wipe", "reset">>,
             <<"line", "line", "drop", "line">>, <<"line", "enter", "text", "leave">>}

Two == INSTANCE CapabilityApproval WITH
          Tools <- {"w1", "w2"}, AgentOf <- OfTwo, Rules <- TwoRules, Answers <- {"n1"},
          Mirrored <- TRUE, MaxFailures <- 0, MaxRestarts <- 1, records <- remembered
One == INSTANCE CapabilityApproval WITH
          Tools <- {"w1"}, AgentOf <- OfOne, Rules <- OneRules, Answers <- {"n1"},
          Mirrored <- TRUE, MaxFailures <- 1, MaxRestarts <- 1, records <- remembered
OfShell == INSTANCE ShellRules
Attached == INSTANCE CliAttach WITH
          Requests <- {"r2"}, Shell <- {}, Scopes <- RequestScopes,
          Candidates <- RequestCandidates, Keys <- {"enter"}, Chunks <- 3, Capacity <- 2,
          ReplayCap <- 2, MaxStrangers <- 0, MaxEchoes <- 0, MaxFailures <- 0, failures <- lost
Strange == INSTANCE CliAttach WITH
          Requests <- {"r2"}, Shell <- {}, Scopes <- RequestScopes,
          Candidates <- RequestCandidates, Keys <- {"enter"}, Chunks <- 2, Capacity <- 2,
          ReplayCap <- 2, MaxStrangers <- 1, MaxEchoes <- 0, MaxFailures <- 0, failures <- lost
Echo == INSTANCE CliAttach WITH
          Requests <- {"r2"}, Shell <- {}, Scopes <- RequestScopes,
          Candidates <- RequestCandidates, Keys <- {"down", "enter"}, Chunks <- 2, Capacity <- 2,
          ReplayCap <- 2, MaxStrangers <- 0, MaxEchoes <- 1, MaxFailures <- 0, failures <- lost
Prompt == INSTANCE CliAttach WITH
          Requests <- {"r1", "r2"}, Shell <- {"r1"}, Scopes <- RequestScopes,
          Candidates <- RequestCandidates, Keys <- {"enter", "p"}, Chunks <- 1,
          Capacity <- 2, ReplayCap <- 2, MaxStrangers <- 0, MaxEchoes <- 0, MaxFailures <- 1,
          failures <- lost
Screen == INSTANCE ScreenHistory WITH
          Scripts <- Programs, Sizes <- {}, First <- Wide, Cap <- 4, Preview <- 2,
          CacheMax <- 3, Prefetch <- 1, ScrollChunk <- 2, Capacity <- 4, MaxResizes <- 0,
          MaxLeaves <- 1, MaxOthers <- 1
Resized == INSTANCE ScreenHistory WITH
          Scripts <- {<<"line">>}, Sizes <- {Narrow, Tall}, First <- Wide, Cap <- 4, Preview <- 2,
          CacheMax <- 3, Prefetch <- 1, ScrollChunk <- 2, Capacity <- 4, MaxResizes <- 1,
          MaxLeaves <- 1, MaxOthers <- 0

----------------------------------------------------------------------------
NoShell == /\ ruleFiles = None /\ sessionRules = None /\ policy = None /\ runtimeMode = None
           /\ handling = None /\ handled = None /\ loose = None
NoAttach == /\ latest = None /\ first = None /\ unsent = None /\ alive = None /\ requests = None
            /\ socket = None /\ receiver = None /\ lagged = None /\ inbox = None
            /\ program = None /\ attached_once = None /\ prompt = None /\ submitted = None
            /\ shown = None /\ held = None /\ whole = None /\ torn = None /\ strangers = None
            /\ echoes = None /\ lost = None
NoScreen == /\ script = None /\ sync = None /\ out = None /\ res = None /\ bus = None
            /\ asks = None /\ view = None /\ resizes = None /\ leaves = None /\ others = None
            /\ older = None /\ crossed = None /\ missed = None

NoCapability == One!Init /\ rules = CHOOSE r \in OneRules : TRUE

MCInit ==
  \/ part = "agents" /\ Two!Init /\ NoShell /\ Init /\ NoAttach /\ NoScreen
  \/ part = "polling" /\ One!Init /\ NoShell /\ Init /\ NoAttach /\ NoScreen
  \/ part = "shell" /\ OfShell!Init /\ NoCapability /\ Init /\ NoAttach /\ NoScreen
  \/ part = "terminal" /\ Init /\ NoCapability /\ NoShell /\ NoAttach /\ NoScreen
  \/ part = "stream" /\ Attached!Init /\ NoCapability /\ NoShell /\ Init /\ NoScreen
  \/ part = "stranger" /\ Strange!Init /\ NoCapability /\ NoShell /\ Init /\ NoScreen
  \/ part = "echo" /\ Echo!Init /\ NoCapability /\ NoShell /\ Init /\ NoScreen
  \/ part = "prompt" /\ Prompt!Init /\ NoCapability /\ NoShell /\ Init /\ NoScreen
  \/ part = "screen" /\ Screen!Init /\ NoCapability /\ NoShell /\ Init /\ NoAttach
  \/ part = "resized" /\ Resized!Init /\ NoCapability /\ NoShell /\ Init /\ NoAttach

MCNext ==
  \/ /\ part = "agents" /\ Two!Next
     /\ UNCHANGED <<part, shellVars, vars, attachVars, screenVars>>
  \/ /\ part = "polling" /\ One!Next
     /\ UNCHANGED <<part, shellVars, vars, attachVars, screenVars>>
  \/ /\ part = "shell" /\ OfShell!Next
     /\ UNCHANGED <<part, capabilityVars, vars, attachVars, screenVars>>
  \/ /\ part = "terminal" /\ Next
     /\ UNCHANGED <<part, capabilityVars, shellVars, attachVars, screenVars>>
  \/ /\ part = "stream" /\ Attached!Next
     /\ UNCHANGED <<part, capabilityVars, shellVars, vars, screenVars>>
  \/ /\ part = "stranger" /\ Strange!Next
     /\ UNCHANGED <<part, capabilityVars, shellVars, vars, screenVars>>
  \/ /\ part = "echo" /\ Echo!Next
     /\ UNCHANGED <<part, capabilityVars, shellVars, vars, screenVars>>
  \/ /\ part = "prompt" /\ Prompt!Next
     /\ UNCHANGED <<part, capabilityVars, shellVars, vars, screenVars>>
  \/ /\ part = "screen" /\ Screen!Next
     /\ UNCHANGED <<part, capabilityVars, shellVars, vars, attachVars>>
  \/ /\ part = "resized" /\ Resized!Next
     /\ UNCHANGED <<part, capabilityVars, shellVars, vars, attachVars>>

(* Only properties of "polling" need fairness.                             *)
MCSpec == MCInit /\ [][MCNext]_mcVars /\ One!Fairness

(* Only the screen.                                                        *)
ScreenSpec == MCInit /\ part = "screen" /\ [][MCNext]_mcVars

----------------------------------------------------------------------------
(* Properties of the parts; NothingLeaks and RowsAgree are those of         *)
(* TerminalLifecycle                                                       *)

(* An answer takes effect once, one for one use once (CapabilityApproval). *)
AnswerTakesEffectOnce == /\ part = "agents" => Two!AnswerTakesEffectOnce
                         /\ part = "polling" => One!AnswerTakesEffectOnce
(* A call that passes was allowed (CapabilityApproval).                    *)
AllowWasGranted == /\ part = "agents" => Two!AllowWasGranted
                   /\ part = "polling" => One!AllowWasGranted
(* An answer for the workspace decides there (CapabilityApproval).         *)
WorkspaceAnswerDecides == [][/\ part = "agents" => Two!WorkspaceAnswerStep
                            /\ part = "polling" => One!WorkspaceAnswerStep]_mcVars
(* Merging the rule files is what their layers say (ShellRules).           *)
MergeIsLayered == part = "shell" => OfShell!MergeIsLayered
(* A command denied for the session stays denied (ShellRules).             *)
SessionDenialHolds == part = "shell" => OfShell!SessionDenialHolds
(* An attached program shows the output in order (CliAttach).              *)
OutputInOrder == /\ part = "stream" => Attached!OutputInOrder
                 /\ part = "stranger" => Strange!OutputInOrder
                 /\ part = "echo" => Echo!OutputInOrder
(* What is shown at the prompt belongs together (CliAttach).               *)
PromptHoldsTogether == /\ part = "stranger" => Strange!PromptHoldsTogether
                       /\ part = "echo" => Echo!PromptHoldsTogether
                       /\ part = "prompt" => Prompt!PromptHoldsTogether
(* Once all has arrived a viewer shows the server's screen (ScreenHistory). *)
ViewConverges == /\ part = "screen" => Screen!ViewConverges
                 /\ part = "resized" => Resized!ViewConverges
(* The lines a viewer has are of the current generation (ScreenHistory).   *)
OneGeneration == /\ part = "screen" => Screen!OneGeneration
                 /\ part = "resized" => Resized!OneGeneration
(* A viewer that missed nothing has every line (ScreenHistory).            *)
HistoryWhole == part = "screen" => Screen!HistoryWhole
=============================================================================
