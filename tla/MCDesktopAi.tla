------------------------------ MODULE MCDesktopAi ------------------------------
(***************************************************************************)
(* TLC instances of the modules about the desktop server's AI side.  A     *)
(* behaviour runs one of them, `part`; the variables of the others are     *)
(* None, those of AiSession, which this module extends, as they are when    *)
(* no session runs:                                                        *)
(*   "store"    the configuration on disk, global and of a workspace,      *)
(*   "session"  sessions, their files and the requests they make,          *)
(*   "mirror"   shell approvals of a session mirrored to the backend       *)
(*              (run shell_local has the sessions without a mirror).       *)
(***************************************************************************)
EXTENDS AiSession, TLC

CONSTANTS r1, r2, MaxEvents,
          s1, s2, t1, t2, k1, k2

VARIABLES part,
          disk, saves, alone, saved, events,
          pending, resolved, rule, caller, mirror, overlay, queue, local, stream, connected,
          receiver, phone, failures, refused, acked, submitted

storeVars == <<disk, saves, alone, saved, events>>
mirrorVars == <<pending, resolved, rule, caller, mirror, overlay, queue, local, stream,
                connected, receiver, phone, failures, refused, acked, submitted>>
mcVars == <<part, storeVars, vars, mirrorVars>>

----------------------------------------------------------------------------
(* Values                                                                  *)

NamesInOrder == <<"codex", "default-agent", "dev", "gpt5", "openai", "ops", "p1", "p2">>
P1 == Provider("p1", TRUE, <<Model("m1", TRUE, TRUE, None)>>)
P1Off == [P1 EXCEPT !.enabled = FALSE]
P2 == Provider("p2", TRUE, <<Model("m0", FALSE, TRUE, None), Model("m1", TRUE, TRUE, {}),
                             Model("m2", TRUE, TRUE, {"high"})>>)
Ops == AgentConfig("ops", "", "")
Dev == [AgentConfig("dev", "p1", "m1") EXCEPT !.stock = FALSE]
DevOff == [Dev EXCEPT !.enabled = FALSE]

Requests == {r1, r2}
Presets == <<Ops>>
Files == {None,
          [legacy |-> [model |-> "m1", provider |-> "p1", close |-> TRUE,
                       providers |-> <<P1Off, P2>>]],
          SirixConfig("default-agent", FALSE, <<P1>>,
                      <<[AgentConfig("default-agent", "p1", "m1") EXCEPT !.enabled = FALSE]>>)}
Payloads == {SirixConfig("", TRUE, <<P1Off, P2>>, <<DevOff>>), SirixConfig("", FALSE, <<>>, <<>>)}
WorkspacePayloads == {SirixConfig("", FALSE, <<>>, <<>>),
                      SirixConfig("dev", FALSE, <<>>, <<DevOff>>)}

DevTwo == [Dev EXCEPT !.fallback = <<"p2", "m2">>, !.sub_agent_ids = {"ops"}]
ConfigA == SirixConfig("codex", FALSE, <<P1, P2>>,
                       <<AgentConfig("codex", "p2", "m1"), DevTwo, Ops>>)
ThreeConfigs == {ConfigA,
            SirixConfig("codex", FALSE, <<P2>>,
                        <<AgentConfig("codex", "p2", "m1"), [Ops EXCEPT !.enabled = FALSE]>>),
            SirixConfig("codex", FALSE, <<>>, <<AgentConfig("codex", "p2", "m1")>>)}
Windows == [m0 |-> 10, m1 |-> 20, m2 |-> 10]
Fifteen == {15}

Store == INSTANCE ConfigStore
Mirror == INSTANCE ShellApproval WITH
              Requests <- {"shell"}, Endpoints <- {"tui", "ui"}, Tui <- "tui",
              Mirrored <- TRUE, Capacity <- 2, MaxFailures <- 1

----------------------------------------------------------------------------
NoStore == /\ disk = None /\ saves = None /\ alone = None /\ saved = None
           /\ events = None
NoSession == Init /\ config = ConfigA /\ live = {t1}
NoMirror == /\ pending = None /\ resolved = None /\ rule = None /\ caller = None
            /\ mirror = None /\ overlay = None /\ queue = None /\ local = None
            /\ stream = None /\ connected = None /\ receiver = None /\ phone = None
            /\ failures = None /\ refused = None /\ acked = None /\ submitted = None

StoreInit == part = "store" /\ Store!Init /\ NoSession /\ NoMirror
MirrorInit == part = "mirror" /\ Mirror!Init /\ NoStore /\ NoSession

(* One session already runs, as dev.                                       *)
SessionInit ==
    LET launch == LaunchConfig(ConfigA, "dev") IN
    /\ part = "session" /\ NoStore /\ NoMirror
    /\ config = ConfigA /\ live = {t1}
    /\ sessions = [s \in Sessions |-> IF s = s1 THEN t1 ELSE None]
    /\ terminal_index = [t \in Terminals |-> IF t = t1 THEN s1 ELSE None]
    /\ provider_index = [s \in Sessions |-> IF s = s1 THEN Routing(launch) ELSE None]
    /\ files = [s \in Sessions |-> IF s # s1 THEN None ELSE LaunchFiles(ConfigA, launch)]
    /\ remote = {} /\ served = 0 /\ crossed = {}
    /\ calls = [k \in Calls |-> None]

MCNext ==
    \/ part = "store" /\ Store!Next /\ UNCHANGED <<part, vars, mirrorVars>>
    \/ part = "session" /\ Next /\ UNCHANGED <<part, storeVars, mirrorVars>>
    \/ part = "mirror" /\ Mirror!Next /\ UNCHANGED <<part, storeVars, vars>>

MCSpec == (StoreInit \/ SessionInit \/ MirrorInit) /\ [][MCNext]_mcVars
FairSessionSpec == SessionInit /\ [][MCNext]_mcVars /\ Fairness

Symmetry == Permutations({r1, r2}) \cup Permutations({s1, s2}) \cup Permutations({t1, t2})
            \cup Permutations({k1, k2})

----------------------------------------------------------------------------
(* Properties of the parts; those of the sessions are AiSession's          *)

(* A launch finds an agent and a model, whatever saves left (ConfigStore). *)
LaunchPossible == part = "store" => Store!LaunchPossible
(* What was saved is loaded, and saved again the same (ConfigStore).       *)
SavedIsLoaded == part = "store" => Store!SavedIsLoaded
(* A mirrored request disappears only for a scope it does not offer         *)
(* (ShellApproval).                                                         *)
NeverStranded == part = "mirror" => Mirror!NeverStranded
=============================================================================
