--------------------------- MODULE ShellApproval ---------------------------
(***************************************************************************)
(* The approval of one AI session's shell commands.  The agent's terminal  *)
(* interface (TUI) registers a request with the desktop server and polls   *)
(* for its resolution; the desktop's own windows, command-line prompts and *)
(* the TUI's overlay may answer it through the desktop server; for a       *)
(* session mirrored to the backend the phone may answer it there.          *)
(*                                                                         *)
(* The registry keeps `pending` and `resolved` under two locks and every   *)
(* operation takes them one after the other, so a step of this module is   *)
(* one critical section, one write of the rules, one call to the backend,  *)
(* or one turn of the TUI's event loop.                                    *)
(*                                                                         *)
(* The command, the prefixes and the wording are left out.  A lasting      *)
(* scope (session, workspace, global) differs from "once" in that it saves *)
(* a rule.  The handlers of the desktop server run to their end; a restart *)
(* of it loses the registry and is not modelled.                           *)
(***************************************************************************)
EXTENDS Integers, Sequences

CONSTANTS
  Requests,        \* identifiers of shell commands the agent asks about
  Endpoints,       \* local callers of resolve; Tui is one of them
  Tui,             \* the agent's own terminal interface
  Mirrored,        \* record.mirrored_to_backend
  Capacity,        \* capacity of the desktop's event bus (256 in the code)
  MaxFailures,     \* bound: failed writes and calls, answers with a scope the
                   \* request does not offer, and lost connections
  None             \* no decision, and no request

ASSUME TuiAssumption == Tui \in Endpoints
ASSUME ModeAssumption == Mirrored \in BOOLEAN
ASSUME BoundsAssumption == Capacity \in Nat \ {0} /\ MaxFailures \in Nat
ASSUME NoneAssumption == None \notin {"allow", "deny", "abort"} /\ None \notin Requests

VARIABLES
  pending,    \* ShellApprovalRegistry.pending_requests
  resolved,   \* ShellApprovalRegistry.resolved_requests
  rule,       \* the lasting rule saved on behalf of a request
  caller,     \* the resolve handler of each endpoint
  mirror,     \* the TUI's task that registers a request and then polls
  overlay,    \* the TUI's own prompt for a request
  queue,      \* the TUI's event queue
  local,      \* TUI: locally_resolved_sirix_shell_approvals
  stream,     \* events on their way from the backend to the desktop server
  connected,  \* whether that stream is up
  receiver,   \* the desktop's event loop, between two critical sections
  phone,      \* requests the phone was told about and has not answered
  failures,   \* failures so far
  refused,    \* history: requests answered with a scope they do not offer
  acked,      \* history: decisions some endpoint was told had succeeded
  submitted   \* history: what the TUI handed to the agent, in order; the agent
              \* takes the first (take_resolution), the rest is an error message

registry == <<pending, resolved>>
tui == <<mirror, overlay, queue, local, submitted>>
backend == <<stream, connected, phone>>
vars == <<pending, resolved, rule, caller, mirror, overlay, queue, local,
          stream, connected, receiver, phone, failures, refused, acked, submitted>>

-----------------------------------------------------------------------------
(* Data *)

Decision == {"allow", "deny"}

\* ReviewDecision: the TUI's user may also stop the agent's turn.
Told == Decision \cup {"abort"}

Scope == {"once", "lasting"}

CallerPC ==
  {"idle", "persist", "sync", "settle", "store", "restore", "reinsert"}

Caller ==
  {c \in [pc : CallerPC, req : Requests \cup {None},
          decision : Decision \cup {None}, scope : Scope] :
     c.pc # "idle" => c.req \in Requests /\ c.decision \in Decision}

IdleCaller == [pc |-> "idle", req |-> None, decision |-> None, scope |-> "once"]

\* What the backend publishes to the desktop: a request (no decision yet) or
\* the resolution of one.
Event == [req : Requests, decision : Decision \cup {None}]

Receiver == [busy : BOOLEAN, event : Event \cup {None}]

\* AppEvent::SubmitSirixExecApproval, where `sync` marks an answer of the
\* overlay, and AppEvent::SubmitThreadOp for an abort.
TuiEvent ==
  {m \in [req : Requests, decision : Told, sync : BOOLEAN] :
     m.decision = "abort" => ~m.sync}

MirrorPC == {"unsent", "unregistered", "insert", "post", "poll", "done", "lost"}

Overlay == {"open", "answered", "aborted", "closed"}

At(e, pc) == caller[e].pc = pc
Step(e, pc) == caller' = [caller EXCEPT ![e].pc = pc]
Release(e) == caller' = [caller EXCEPT ![e] = IdleCaller]

Holds(e, r) == ~At(e, "idle") /\ caller[e].req = r

MayFail == failures < MaxFailures /\ failures' = failures + 1

Init ==
  /\ pending = {}
  /\ resolved = [r \in Requests |-> None]
  /\ rule = [r \in Requests |-> None]
  /\ caller = [e \in Endpoints |-> IdleCaller]
  /\ mirror = [r \in Requests |-> "unsent"]
  /\ overlay = [r \in Requests |-> "open"]
  /\ queue = <<>>
  /\ local = {}
  /\ stream = <<>>
  /\ connected = Mirrored
  /\ receiver = [busy |-> FALSE, event |-> None]
  /\ phone = {}
  /\ failures = 0
  /\ refused = {}
  /\ acked = [r \in Requests |-> {}]
  /\ submitted = [r \in Requests |-> <<>>]

\* publish_desktop_event: dropped when nobody listens; a socket that has
\* fallen a whole buffer behind is closed and what it had not read is lost.
Publish(event) ==
  IF ~connected
  THEN UNCHANGED <<stream, connected>>
  ELSE IF Len(stream) < Capacity
       THEN stream' = Append(stream, event) /\ UNCHANGED connected
       ELSE stream' = <<>> /\ connected' = FALSE

-----------------------------------------------------------------------------
(* Registering a request: create_session_shell_approval_request, called by *)
(* the task that the TUI starts for every command it must ask about.       *)

UpsertClear(r) ==
  /\ mirror[r] = "unsent"
  /\ resolved' = [resolved EXCEPT ![r] = None]
  /\ mirror' = [mirror EXCEPT ![r] = "insert"]
  /\ UNCHANGED <<pending, rule, caller, overlay, queue, local, backend,
                 receiver, failures, refused, acked, submitted>>

\* The local event is sent here: from now on the endpoints know the request.
UpsertInsert(r) ==
  /\ mirror[r] = "insert"
  /\ pending' = pending \cup {r}
  /\ mirror' = [mirror EXCEPT ![r] = IF Mirrored THEN "post" ELSE "poll"]
  /\ UNCHANGED <<resolved, rule, caller, overlay, queue, local, backend,
                 receiver, failures, refused, acked, submitted>>

\* sync_shell_approval_request_to_backend; a failure is logged and ignored.
\* The backend publishes to the phone and, also, back to the desktop.
PostRequest(r) ==
  /\ mirror[r] = "post"
  /\ mirror' = [mirror EXCEPT ![r] = "poll"]
  /\ \/ /\ Publish([req |-> r, decision |-> None])
        /\ phone' = phone \cup {r}
        /\ UNCHANGED failures
     \/ MayFail /\ UNCHANGED backend
  /\ UNCHANGED <<registry, rule, caller, overlay, queue, local, receiver,
                 refused, acked, submitted>>

\* The call that registers a request fails before it is handled, and the
\* task ends; one whose answer is lost ends like PollFails.
CreateFails(r) ==
  /\ mirror[r] = "unsent"
  /\ MayFail
  /\ mirror' = [mirror EXCEPT ![r] = "unregistered"]
  /\ UNCHANGED <<registry, rule, caller, overlay, queue, local, backend,
                 receiver, refused, acked, submitted>>

-----------------------------------------------------------------------------
(* Answering a request: resolve_shell_approval_inner.                      *)

\* Mutant: the request is read now and removed when the answer is stored.
ClaimByReading(e, r, d, scope) ==
  /\ e # Tui
  /\ At(e, "idle")
  /\ r \in pending
  /\ caller' = [caller EXCEPT ![e] = [pc |-> "persist", req |-> r,
                                      decision |-> d, scope |-> scope]]
  /\ UNCHANGED <<registry, rule, tui, backend, receiver, failures, refused, acked>>

\* take_pending.  An endpoint that finds nothing gets a conflict and nothing
\* changes.  (The TUI's call is HandleLocal below.)
Claim(e, r, d, scope) ==
  /\ e # Tui
  /\ At(e, "idle")
  /\ r \in pending
  /\ pending' = pending \ {r}
  /\ caller' = [caller EXCEPT ![e] = [pc |-> "persist", req |-> r,
                                      decision |-> d, scope |-> scope]]
  /\ UNCHANGED <<resolved, rule, tui, backend, receiver, failures, refused, acked>>

\* A scope the request does not offer is refused after take_pending, and the
\* request is not restored.  (The prompts list the scopes it offers; another
\* caller of the interface need not.)
ClaimUnoffered(e, r) ==
  /\ e # Tui
  /\ At(e, "idle")
  /\ r \in pending
  /\ MayFail
  /\ pending' = pending \ {r}
  /\ refused' = refused \cup {r}
  /\ UNCHANGED <<resolved, rule, caller, tui, backend, receiver, acked>>

\* Mutant: a failed write returns its error without restoring the request.
PersistOrGiveUp(e) ==
  /\ At(e, "persist")
  /\ LET c == caller[e] IN
       \/ /\ rule' = IF c.scope = "lasting"
                     THEN [rule EXCEPT ![c.req] = c.decision] ELSE rule
          /\ Step(e, IF Mirrored THEN "sync" ELSE "settle")
          /\ UNCHANGED failures
       \/ /\ c.scope = "lasting"
          /\ MayFail
          /\ Release(e)
          /\ UNCHANGED rule
  /\ UNCHANGED <<registry, tui, backend, receiver, refused, acked>>

\* Mutant: the rule is written even when the write reports an error.
PersistAnyway(e) ==
  /\ At(e, "persist")
  /\ LET c == caller[e] IN
       /\ rule' = IF c.scope = "lasting"
                  THEN [rule EXCEPT ![c.req] = c.decision] ELSE rule
       /\ \/ Step(e, IF Mirrored THEN "sync" ELSE "settle") /\ UNCHANGED failures
          \/ c.scope = "lasting" /\ MayFail /\ Step(e, "restore")
  /\ UNCHANGED <<registry, tui, backend, receiver, refused, acked>>

\* normalize_shell_prefix_for_resolution and persist_shell_rule_for_scope.
Persist(e) ==
  /\ At(e, "persist")
  /\ LET c == caller[e] IN
       \/ /\ rule' = IF c.scope = "lasting"
                     THEN [rule EXCEPT ![c.req] = c.decision] ELSE rule
          /\ Step(e, IF Mirrored THEN "sync" ELSE "settle")
          /\ UNCHANGED failures
       \/ /\ c.scope = "lasting"
          /\ MayFail
          /\ Step(e, "restore")
          /\ UNCHANGED rule
  /\ UNCHANGED <<registry, tui, backend, receiver, refused, acked>>

\* sync_shell_approval_to_backend.  The call may fail before or after the
\* backend has published the resolution; while nobody is signed in it
\* succeeds without being made.
Sync(e) ==
  /\ At(e, "sync")
  /\ \/ /\ Publish([req |-> caller[e].req, decision |-> caller[e].decision])
        /\ Step(e, "settle")
        /\ UNCHANGED failures
     \/ /\ Publish([req |-> caller[e].req, decision |-> caller[e].decision])
        /\ Step(e, "restore")
        /\ MayFail
     \/ /\ UNCHANGED <<stream, connected>>
        /\ Step(e, "restore") \/ Step(e, "settle")
        /\ MayFail
  /\ UNCHANGED <<registry, rule, tui, phone, receiver, refused, acked>>

\* ShellApprovalRegistry::resolve, its first lock.
Settle(e) ==
  /\ At(e, "settle")
  /\ pending' = pending \ {caller[e].req}
  /\ Step(e, "store")
  /\ UNCHANGED <<resolved, rule, tui, backend, receiver, failures, refused, acked>>

\* Its second lock, and the answer to the endpoint.  The TUI hands the
\* decision to the agent when its call has succeeded.
Store(e) ==
  /\ At(e, "store")
  /\ LET r == caller[e].req
         d == caller[e].decision
     IN /\ resolved' = [resolved EXCEPT ![r] = d]
        /\ acked' = [acked EXCEPT ![r] = @ \cup {d}]
        /\ submitted' = IF e = Tui
                        THEN [submitted EXCEPT ![r] = Append(@, d)]
                        ELSE submitted
  /\ Release(e)
  /\ UNCHANGED <<pending, rule, mirror, overlay, queue, local, backend,
                 receiver, failures, refused>>

\* restore_pending, lock by lock; the endpoint is answered with an error.
\* The TUI then reports the error, and its overlay is already gone.
RestoreClear(e) ==
  /\ At(e, "restore")
  /\ resolved' = [resolved EXCEPT ![caller[e].req] = None]
  /\ Step(e, "reinsert")
  /\ UNCHANGED <<pending, rule, tui, backend, receiver, failures, refused, acked>>

RestoreInsert(e) ==
  /\ At(e, "reinsert")
  /\ pending' = pending \cup {caller[e].req}
  /\ Release(e)
  /\ UNCHANGED <<resolved, rule, tui, backend, receiver, failures, refused, acked>>

-----------------------------------------------------------------------------
(* The mirror: the desktop's event loop applies what the backend publishes *)
(* (sync_backend_shell_approval_request and .._resolution), the phone      *)
(* answers at the backend (resolve_ai_approval), which checks nothing.     *)

\* A request is upserted and a resolution is stored whatever the registry
\* holds; each in two critical sections, of which this is the first.
Receive ==
  /\ ~receiver.busy
  /\ stream # <<>>
  /\ receiver' = [busy |-> TRUE, event |-> Head(stream)]
  /\ stream' = Tail(stream)
  /\ LET event == Head(stream) IN
       IF event.decision = None
       THEN resolved' = [resolved EXCEPT ![event.req] = None] /\ UNCHANGED pending
       ELSE pending' = pending \ {event.req} /\ UNCHANGED resolved
  /\ UNCHANGED <<rule, caller, tui, connected, phone, failures, refused, acked>>

Apply ==
  /\ receiver.busy
  /\ receiver' = [busy |-> FALSE, event |-> None]
  /\ LET event == receiver.event IN
       IF event.decision = None
       THEN pending' = pending \cup {event.req} /\ UNCHANGED resolved
       ELSE /\ resolved' = [resolved EXCEPT ![event.req] = event.decision]
            /\ UNCHANGED pending
  /\ UNCHANGED <<rule, caller, tui, backend, failures, refused, acked>>

\* The phone's prompt goes away some time after another endpoint's answer
\* was published; until then, however late that is, its user may answer.
PhoneAnswer(r, d) ==
  /\ r \in phone
  /\ phone' = phone \ {r}
  /\ Publish([req |-> r, decision |-> d])
  /\ acked' = [acked EXCEPT ![r] = @ \cup {d}]
  /\ UNCHANGED <<registry, rule, caller, tui, receiver, failures, refused>>

Disconnect ==
  /\ connected
  /\ MayFail
  /\ connected' = FALSE
  /\ stream' = <<>>
  /\ UNCHANGED <<registry, rule, caller, tui, receiver, phone, refused, acked>>

\* On reconnecting, pending share sessions are fetched again, approvals not.
Reconnect ==
  /\ Mirrored
  /\ ~connected
  /\ ~receiver.busy
  /\ connected' = TRUE
  /\ UNCHANGED <<registry, rule, caller, tui, stream, receiver, phone,
                 failures, refused, acked>>

-----------------------------------------------------------------------------
(* The agent's TUI: its poller, its overlay and its event loop, which is   *)
(* blocked while it waits for an answer of the desktop server.             *)

\* Mutant: polling ends with the first reply, whether it is an answer or not.
PollGivesUp(r) ==
  /\ mirror[r] = "poll"
  /\ mirror' = [mirror EXCEPT ![r] = "done"]
  /\ queue' = IF resolved[r] = None THEN queue
              ELSE Append(queue, [req |-> r, decision |-> resolved[r],
                                  sync |-> FALSE])
  /\ UNCHANGED <<registry, rule, caller, overlay, local, backend, receiver,
                 failures, refused, acked, submitted>>

\* wait_for_session_shell_approval: the first resolution it sees is final.
Poll(r) ==
  /\ mirror[r] = "poll"
  /\ resolved[r] # None
  /\ mirror' = [mirror EXCEPT ![r] = "done"]
  /\ queue' = Append(queue, [req |-> r, decision |-> resolved[r], sync |-> FALSE])
  /\ UNCHANGED <<registry, rule, caller, overlay, local, backend, receiver,
                 failures, refused, acked, submitted>>

\* An error of a poll, or of the call that registered the request after the
\* server has stored it, ends the task: nobody waits for the resolution.
PollFails(r) ==
  /\ mirror[r] = "poll"
  /\ MayFail
  /\ mirror' = [mirror EXCEPT ![r] = "lost"]
  /\ UNCHANGED <<registry, rule, caller, overlay, queue, local, backend,
                 receiver, refused, acked, submitted>>

OverlayAnswer(r, d) ==
  /\ overlay[r] = "open"
  /\ overlay' = [overlay EXCEPT ![r] = "answered"]
  /\ queue' = Append(queue, [req |-> r, decision |-> d, sync |-> TRUE])
  /\ UNCHANGED <<registry, rule, caller, mirror, local, backend, receiver,
                 failures, refused, acked, submitted>>

\* Ctrl-C or Esc on the prompt: the agent is to be told without asking the
\* desktop server, and the prompts queued behind this one go away.
OverlayAbort(r) ==
  /\ overlay[r] = "open"
  /\ \E behind \in SUBSET {q \in Requests \ {r} : overlay[q] = "open"} :
       overlay' = [q \in Requests |-> IF q = r THEN "aborted"
                                     ELSE IF q \in behind THEN "closed"
                                     ELSE overlay[q]]
  /\ queue' = Append(queue, [req |-> r, decision |-> "abort", sync |-> FALSE])
  /\ UNCHANGED <<registry, rule, caller, mirror, local, backend, receiver,
                 failures, refused, acked, submitted>>

\* SubmitThreadOp: the mark of local answers is neither read nor set.
HandleAbort ==
  /\ At(Tui, "idle")
  /\ queue # <<>>
  /\ Head(queue).decision = "abort"
  /\ submitted' = [submitted EXCEPT ![Head(queue).req] = Append(@, "abort")]
  /\ queue' = Tail(queue)
  /\ UNCHANGED <<registry, rule, caller, mirror, overlay, local, backend,
                 receiver, failures, refused, acked>>

\* SubmitSirixExecApproval with sync_resolution: the request is marked as
\* answered here first, and the mark stays when the answer comes too late
\* (the prompt is dismissed and nothing is submitted) or fails.
HandleLocal(scope) ==
  /\ At(Tui, "idle")
  /\ queue # <<>>
  /\ Head(queue).sync
  /\ LET r == Head(queue).req IN
       /\ local' = local \cup {r}
       /\ pending' = pending \ {r}
       /\ caller' = IF r \in pending
                    THEN [caller EXCEPT ![Tui] =
                            [pc |-> "persist", req |-> r,
                             decision |-> Head(queue).decision, scope |-> scope]]
                    ELSE caller
  /\ queue' = Tail(queue)
  /\ UNCHANGED <<resolved, rule, mirror, overlay, backend, receiver, failures,
                 refused, acked, submitted>>

\* Mutant: the mark is not looked at.
HandleEveryResolution ==
  /\ At(Tui, "idle")
  /\ queue # <<>>
  /\ ~Head(queue).sync /\ Head(queue).decision # "abort"
  /\ LET r == Head(queue).req IN
       /\ overlay' = [overlay EXCEPT ![r] = IF @ = "open" THEN "closed" ELSE @]
       /\ submitted' = [submitted EXCEPT ![r] = Append(@, Head(queue).decision)]
  /\ queue' = Tail(queue)
  /\ UNCHANGED <<registry, rule, caller, mirror, local, backend, receiver,
                 failures, refused, acked>>

\* SubmitSirixExecApproval of the poller: skipped once for a request that is
\* marked as answered here, else handed to the agent.
HandleResolution ==
  /\ At(Tui, "idle")
  /\ queue # <<>>
  /\ ~Head(queue).sync /\ Head(queue).decision # "abort"
  /\ LET r == Head(queue).req IN
       IF r \in local
       THEN local' = local \ {r} /\ UNCHANGED <<overlay, submitted>>
       ELSE /\ overlay' = [overlay EXCEPT ![r] = IF @ = "open" THEN "closed" ELSE @]
            /\ submitted' = [submitted EXCEPT ![r] = Append(@, Head(queue).decision)]
            /\ UNCHANGED local
  /\ queue' = Tail(queue)
  /\ UNCHANGED <<registry, rule, caller, mirror, backend, receiver, failures,
                 refused, acked>>

-----------------------------------------------------------------------------
Register(r) == UpsertClear(r) \/ UpsertInsert(r) \/ PostRequest(r)

Advance(e) ==
  \/ Persist(e) \/ Sync(e) \/ Settle(e) \/ Store(e)
  \/ RestoreClear(e) \/ RestoreInsert(e)

Choices ==
  \/ \E e \in Endpoints, r \in Requests, d \in Decision, scope \in Scope :
       Claim(e, r, d, scope)
  \/ \E e \in Endpoints, r \in Requests : ClaimUnoffered(e, r)
  \/ \E r \in Requests, d \in Decision : PhoneAnswer(r, d) \/ OverlayAnswer(r, d)
  \/ \E r \in Requests : OverlayAbort(r)

TuiLoop ==
  \/ HandleResolution
  \/ HandleAbort
  \/ \E scope \in Scope : HandleLocal(scope)

Next ==
  \/ \E r \in Requests : Register(r) \/ CreateFails(r) \/ Poll(r) \/ PollFails(r)
  \/ \E e \in Endpoints : Advance(e)
  \/ Choices
  \/ TuiLoop
  \/ Receive \/ Apply \/ Disconnect \/ Reconnect

Spec == Init /\ [][Next]_vars

\* What runs between the TUI and the desktop server on one machine comes to
\* its end: the registering and the polling, the handlers, and the TUI's event
\* loop.  Users may never answer.  Calls to the backend have no time limit,
\* and nothing is assumed of them, nor of the stream.
Fairness ==
  /\ \A r \in Requests : WF_vars(mirror[r] # "post" /\ Register(r)) /\ WF_vars(Poll(r))
  /\ \A e \in Endpoints : WF_vars(~At(e, "sync") /\ Advance(e))
  /\ WF_vars(TuiLoop)

FairSpec == Spec /\ Fairness

-----------------------------------------------------------------------------
(* Properties *)

\* Types: the shape of every variable.
TypeOK ==
  /\ pending \subseteq Requests
  /\ resolved \in [Requests -> Decision \cup {None}]
  /\ rule \in [Requests -> Decision \cup {None}]
  /\ caller \in [Endpoints -> Caller]
  /\ mirror \in [Requests -> MirrorPC]
  /\ overlay \in [Requests -> Overlay]
  /\ queue \in Seq(TuiEvent)
  /\ local \subseteq Requests
  /\ stream \in Seq(Event)
  /\ connected \in BOOLEAN
  /\ receiver \in Receiver
  /\ receiver.busy => receiver.event \in Event
  /\ phone \subseteq Requests
  /\ failures \in 0..MaxFailures
  /\ refused \subseteq Requests
  /\ acked \in [Requests -> SUBSET Decision]
  /\ submitted \in [Requests -> Seq(Told)]

Registered(r) == mirror[r] \notin {"unsent", "unregistered", "insert"}

Accounted(r) ==
  \/ r \in pending
  \/ resolved[r] # None
  \/ \E e \in Endpoints : Holds(e, r)
  \/ receiver.busy /\ receiver.event.req = r

\* A registered request can still be answered, is being answered, or has an
\* answer, at every point between two locks and after every failed write or
\* call (the restore paths of resolve_shell_approval_inner, upsert_pending and
\* resolve).  Only an answer with a scope that the request does not offer makes
\* it disappear (ai.rs:1225-1230).
NeverStranded ==
  \A r \in Requests : Registered(r) /\ r \notin refused => Accounted(r)

\* Of all the endpoints that answer a request, those told that they succeeded
\* decided the same (take_pending's claim; its comment, approval.rs:233-237).
OneDecision ==
  \A r \in Requests : \A d1, d2 \in acked[r] : d1 = d2

\* What the agent is told is what the successful endpoint decided; or its own
\* user has stopped it, which no other endpoint can.
AgentObeys ==
  \A r \in Requests : \A i \in 1..Len(submitted[r]) :
    IF submitted[r][i] = "abort" THEN overlay[r] = "aborted"
    ELSE acked[r] = {submitted[r][i]}

\* A lasting rule saved on behalf of a request says what the request was
\* resolved with, although the rule is written before the resolution is.
RuleMatchesResolution ==
  \A r \in Requests :
    rule[r] # None /\ resolved[r] # None => rule[r] = resolved[r]

\* Once stored, a resolution is neither changed nor taken back.
ResolutionFinal ==
  [][\A r \in Requests : resolved[r] # None => resolved'[r] = resolved[r]]_vars

\* When an endpoint's answer has succeeded, the agent is eventually told (or
\* stopped), unless its user answers at the overlay as well (an answer there
\* that fails or comes too late makes the TUI drop the event of the other's
\* answer) or one of the polls has failed, for polling is not taken up again.
DecisionReachesAgent ==
  \A r \in Requests :
    acked[r] # {} ~>
      submitted[r] # <<>> \/ overlay[r] = "answered" \/ mirror[r] = "lost"

-----------------------------------------------------------------------------
\* Without a mirror, the registry, its callers and the TUI together implement
\* the one decision of OneShotDecision: at every step a request is decided for
\* the first time, the agent is told the decision for the first time, its user
\* stops it, or nothing happens that an endpoint or the agent could tell.
OneShot == INSTANCE OneShotDecision
             WITH chosen <- resolved, acknowledged <- acked, obeyed <- submitted

ImplementsOneShot == OneShot!Spec

=============================================================================
