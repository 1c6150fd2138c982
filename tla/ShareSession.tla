---------------------------- MODULE ShareSession ----------------------------
(***************************************************************************)
(* The life of screen-share sessions in the backend server: the rows of    *)
(* `share_sessions` and `connection_requests`, the HTTP handlers that      *)
(* change them and the background task that ends expired pauses.           *)
(*                                                                         *)
(* No handler opens a transaction: each reads a row once, decides on that  *)
(* copy, and then issues one unconditional UPDATE after another.  A step   *)
(* of this module is therefore one database statement of one handler, and  *)
(* the steps of different handlers interleave.  `handler[h].row` is the    *)
(* copy a handler carries from its SELECT to its UPDATE.                   *)
(*                                                                         *)
(* Left out, because no property here tells it apart: which screen and     *)
(* which quality a session shows (switch_screen and update_quality write   *)
(* the copied state and deadline back, and that is kept), the text of the  *)
(* session_events rows (only that the INSERT may fail and so skip the      *)
(* publishing after it), and the payload of published messages.            *)
(***************************************************************************)
EXTENDS Integers, FiniteSets

CONSTANTS
  Sessions,      \* session identifiers that may be created
  Handlers,      \* HTTP requests that may be in flight at once
  PauseWindow,   \* the keep-alive of a pause (3 minutes in the code)
  MaxClock,      \* bound: the last instant of the model's clock
  MaxFailures,   \* bound: how many database errors and crashes may happen
  Null           \* SQL NULL, and "no session" of an idle handler

ASSUME PauseWindowAssumption == PauseWindow \in Nat \ {0}
ASSUME BoundsAssumption == MaxClock \in Nat /\ MaxFailures \in Nat
ASSUME NullAssumption == Null \notin Nat /\ Null \notin Sessions

VARIABLES
  clock,       \* Utc::now(), in units of the model
  share,       \* share_sessions: the state and pause_deadline_at columns
  request,     \* connection_requests.status
  handler,     \* the handlers in flight
  sweep,       \* sessions the sweeper has ended and not yet announced
  subscribed,  \* whether the desktop's event stream is connected
  known,       \* sessions whose identifier has been published to the phone
  failures,    \* database errors and crashes so far
  granted,     \* history: sessions for which an approval took effect
  applied,     \* history: how many decisions took effect (counted up to 2)
  lease        \* history: the instant until which the last effective pause
               \*          promised to keep the session

env == <<clock, subscribed, failures>>
history == <<granted, applied, lease>>
vars == <<clock, share, request, handler, sweep, subscribed, known, failures,
          granted, applied, lease>>

-----------------------------------------------------------------------------
(* Data *)

SessionState ==
  {"pending_approval", "connecting", "streaming", "paused", "terminated"}

RequestStatus == {"requested", "accepted", "rejected"}

Row == [state : SessionState \cup {"absent"}, deadline : Nat \cup {Null}]

NoRow == [state |-> "absent", deadline |-> Null]

Exists(s) == share[s].state # "absent"

HandlerPC ==
  {"idle", "insert_session", "route", "unroute_request", "unroute_session",
   "write_decision", "write_verdict", "write_control", "promote", "announce"}

\* What a handler carries between two of its statements: the session it is
\* about, the row it will write, the verdict it will write to the request,
\* and (for a pause) the lease it promises.
Handler ==
  {x \in [pc : HandlerPC, sid : Sessions \cup {Null}, row : Row,
          verdict : RequestStatus \cup {"none"}, lease : Nat] :
     x.pc # "idle" => x.sid \in Sessions}

Idle == [pc |-> "idle", sid |-> Null, row |-> NoRow, verdict |-> "none",
         lease |-> 0]

At(h, pc) == handler[h].pc = pc
Goto(h, pc) == handler' = [handler EXCEPT ![h].pc = pc]
Start(h, pc, s, row, verdict, until) ==
  handler' = [handler EXCEPT ![h] = [pc |-> pc, sid |-> s, row |-> row,
                                     verdict |-> verdict, lease |-> until]]

\* `UPDATE share_sessions SET state = .. WHERE id = ..`
SetState(s, st) == share' = [share EXCEPT ![s].state = st]
SetRequest(s, status) == request' = [request EXCEPT ![s] = status]

Init ==
  /\ clock = 0
  /\ share = [s \in Sessions |-> NoRow]
  /\ request = [s \in Sessions |-> "none"]
  /\ handler = [h \in Handlers |-> Idle]
  /\ sweep = {}
  /\ subscribed \in BOOLEAN
  /\ known = {}
  /\ failures = 0
  /\ granted = [s \in Sessions |-> FALSE]
  /\ applied = [s \in Sessions |-> 0]
  /\ lease = [s \in Sessions |-> 0]

-----------------------------------------------------------------------------
(* create_connection_request: the request row, the session row, the event  *)
(* to the desktop, and the rejection when no desktop listens.              *)

\* `auto` is the device's auto_approve_screen_share column; identifiers are
\* fresh, so no second handler ever creates the same session.
InsertRequest(h, s) ==
  /\ At(h, "idle")
  /\ request[s] = "none"
  /\ \E auto \in BOOLEAN :
       LET status == IF auto THEN "accepted" ELSE "requested"
           st == IF auto THEN "connecting" ELSE "pending_approval"
       IN /\ SetRequest(s, status)
          /\ Start(h, "insert_session", s,
                   [state |-> st, deadline |-> Null], status, 0)
  /\ UNCHANGED <<env, history, share, sweep, known>>

InsertSession(h) ==
  LET s == handler[h].sid IN
  /\ At(h, "insert_session")
  /\ share' = [share EXCEPT ![s] = handler[h].row]
  /\ granted' = [granted EXCEPT ![s] = handler[h].verdict = "accepted"]
  /\ Goto(h, "route")
  /\ UNCHANGED <<env, request, sweep, known, applied, lease>>

\* The session_events INSERTs and the publication to the desktop, which
\* returns the number of subscribers.
Route(h) ==
  /\ At(h, "route")
  /\ IF handler[h].verdict = "requested" /\ ~subscribed
       THEN Goto(h, "unroute_request")
       ELSE Goto(h, "announce")
  /\ UNCHANGED <<env, history, share, request, sweep, known>>

UnrouteRequest(h) ==
  /\ At(h, "unroute_request")
  /\ SetRequest(handler[h].sid, "rejected")
  /\ Goto(h, "unroute_session")
  /\ UNCHANGED <<env, history, share, sweep, known>>

UnrouteSession(h) ==
  /\ At(h, "unroute_session")
  /\ SetState(handler[h].sid, "terminated")
  /\ Goto(h, "announce")
  /\ UNCHANGED <<env, history, request, sweep, known>>

-----------------------------------------------------------------------------
(* decide_session, called by the desktop server.                           *)

\* Mutant: the check for an undecided row is dropped.
SelectAnyForDecision(h, s, verdict) ==
  /\ At(h, "idle")
  /\ Exists(s)
  /\ Start(h, "write_decision", s, NoRow, verdict, 0)
  /\ UNCHANGED <<env, history, share, request, sweep, known>>

\* Mutant: the request is written before the session, so that a failure in
\* between leaves an accepted request of a session nobody granted.
SelectVerdictFirst(h, s, verdict) ==
  /\ At(h, "idle")
  /\ share[s].state = "pending_approval"
  /\ Start(h, "write_verdict", s, NoRow, verdict, 0)
  /\ UNCHANGED <<env, history, share, request, sweep, known>>

\* The SELECT and the checks on what it returned: only a pending row is
\* decided; the same outcome is answered applied=false and every other state
\* is a conflict, and neither changes anything.
SelectForDecision(h, s, verdict) ==
  /\ At(h, "idle")
  /\ share[s].state = "pending_approval"
  /\ Start(h, "write_decision", s, NoRow, verdict, 0)
  /\ UNCHANGED <<env, history, share, request, sweep, known>>

WriteDecision(h) ==
  LET s == handler[h].sid
      approve == handler[h].verdict = "accepted"
  IN
  /\ At(h, "write_decision")
  /\ SetState(s, IF approve THEN "connecting" ELSE "terminated")
  /\ granted' = [granted EXCEPT ![s] = @ \/ approve]
  /\ applied' = [applied EXCEPT ![s] = IF @ < 2 THEN @ + 1 ELSE @]
  /\ Goto(h, "write_verdict")
  /\ UNCHANGED <<env, request, sweep, known, lease>>

WriteVerdict(h) ==
  /\ At(h, "write_verdict")
  /\ SetRequest(handler[h].sid, handler[h].verdict)
  /\ Goto(h, "announce")
  /\ UNCHANGED <<env, history, share, sweep, known>>

-----------------------------------------------------------------------------
(* mutate_session: pause, resume, terminate, switch_screen and             *)
(* update_quality, called by the phone that owns the session.              *)

\* Mutant: pausing forgets to set the deadline.
MutatedNoDeadline(op, old) ==
  CASE op = "pause"     -> [state |-> "paused", deadline |-> old.deadline]
    [] op = "resume"    -> [state |-> "streaming", deadline |-> Null]
    [] op = "terminate" -> [state |-> "terminated", deadline |-> Null]
    [] OTHER            -> old

\* Mutant: the keep-alive is subtracted instead of added.
MutatedBackwards(op, old) ==
  CASE op = "pause"     -> [state |-> "paused",
                            deadline |-> clock - PauseWindow]
    [] op = "resume"    -> [state |-> "streaming", deadline |-> Null]
    [] op = "terminate" -> [state |-> "terminated", deadline |-> Null]
    [] OTHER            -> old

\* The row each mutator computes from the copy `old`.  None looks at the
\* state it finds.
Mutated(op, old) ==
  CASE op = "pause"     -> [state |-> "paused",
                            deadline |-> clock + PauseWindow]
    [] op = "resume"    -> [state |-> "streaming", deadline |-> Null]
    [] op = "terminate" -> [state |-> "terminated", deadline |-> Null]
    [] OTHER            -> old

Mutators == {"pause", "resume", "terminate", "switch_screen",
             "update_quality"}

\* resume_session's closure answers an error once the deadline has passed,
\* before the UPDATE.
MutatorAllowed(op, old) ==
  op = "resume" /\ old.deadline # Null => old.deadline >= clock

\* Bound: a pause is only asked for while its deadline fits the clock.
PauseFits(op) == op = "pause" => clock + PauseWindow <= MaxClock

SelectForControl(h, s, op) ==
  /\ At(h, "idle")
  /\ s \in known
  /\ Exists(s)
  /\ PauseFits(op)
  /\ MutatorAllowed(op, share[s])
  /\ Start(h, "write_control", s, Mutated(op, share[s]), "none",
           IF op = "pause" THEN clock + PauseWindow ELSE 0)
  /\ UNCHANGED <<env, history, share, request, sweep, known>>

\* The UPDATE writes every column from the copy.
WriteControl(h) ==
  LET s == handler[h].sid IN
  /\ At(h, "write_control")
  /\ share' = [share EXCEPT ![s] = handler[h].row]
  /\ lease' = [lease EXCEPT ![s] = IF handler[h].lease = 0
                                     THEN @ ELSE handler[h].lease]
  /\ Goto(h, "announce")
  /\ UNCHANGED <<env, request, sweep, known, granted, applied>>

-----------------------------------------------------------------------------
(* relay_signal.  A pending or terminated session is a conflict.  Offers,  *)
(* candidates and the phone's answers are relayed and change no row; the   *)
(* desktop's answer promotes a session that was connecting when the        *)
(* handler read it.                                                        *)

\* Mutant: the answer promotes any session that is not over.
SelectAnyForAnswer(h, s) ==
  /\ At(h, "idle")
  /\ share[s].state \notin {"absent", "terminated"}
  /\ Start(h, "promote", s, NoRow, "none", 0)
  /\ UNCHANGED <<env, history, share, request, sweep, known>>

SelectForAnswer(h, s) ==
  /\ At(h, "idle")
  /\ share[s].state = "connecting"
  /\ Start(h, "promote", s, NoRow, "none", 0)
  /\ UNCHANGED <<env, history, share, request, sweep, known>>

Promote(h) ==
  /\ At(h, "promote")
  /\ share' = [share EXCEPT ![handler[h].sid] =
                 [state |-> "streaming", deadline |-> Null]]
  /\ Goto(h, "announce")
  /\ UNCHANGED <<env, history, request, sweep, known>>

-----------------------------------------------------------------------------
(* How a handler ends: the last event row and the publications, or a       *)
(* database error (or a crash of the server), which leaves what it wrote.  *)

Announce(h) ==
  /\ At(h, "announce")
  /\ known' = known \cup {handler[h].sid}
  /\ handler' = [handler EXCEPT ![h] = Idle]
  /\ UNCHANGED <<env, history, share, request, sweep>>

Fail(h) ==
  /\ ~At(h, "idle")
  /\ failures < MaxFailures
  /\ failures' = failures + 1
  /\ handler' = [handler EXCEPT ![h] = Idle]
  /\ UNCHANGED <<clock, subscribed, history, share, request, sweep, known>>

Restart ==
  /\ failures < MaxFailures
  /\ failures' = failures + 1
  /\ handler' = [h \in Handlers |-> Idle]
  /\ sweep' = {}
  /\ subscribed' = FALSE
  /\ UNCHANGED <<clock, history, share, request, known>>

-----------------------------------------------------------------------------
(* terminate_expired_paused_sessions: one UPDATE .. RETURNING, then an     *)
(* event row and two publications per returned session; an error gives up  *)
(* the rest of the batch, and the loop goes round again.                   *)

\* Mutant: the sweeper takes every paused session with a deadline.
PausedAtAll(s) ==
  /\ share[s].state = "paused"
  /\ share[s].deadline # Null

Expired(s) ==
  /\ share[s].state = "paused"
  /\ share[s].deadline # Null
  /\ share[s].deadline <= clock

\* Mutant: the background task ends with its first error.
SweepUntilError ==
  LET batch == {s \in Sessions : Expired(s)} IN
  /\ sweep = {}
  /\ failures = 0
  /\ batch # {}
  /\ share' = [s \in Sessions |->
                 IF s \in batch
                   THEN [state |-> "terminated", deadline |-> Null]
                   ELSE share[s]]
  /\ sweep' = batch
  /\ UNCHANGED <<env, history, request, handler, known>>

SweepUpdate ==
  LET batch == {s \in Sessions : Expired(s)} IN
  /\ sweep = {}
  /\ batch # {}
  /\ share' = [s \in Sessions |->
                 IF s \in batch
                   THEN [state |-> "terminated", deadline |-> Null]
                   ELSE share[s]]
  /\ sweep' = batch
  /\ UNCHANGED <<env, history, request, handler, known>>

SweepAnnounce(s) ==
  /\ s \in sweep
  /\ sweep' = sweep \ {s}
  /\ UNCHANGED <<env, history, share, request, handler, known>>

SweepFail ==
  /\ sweep # {}
  /\ failures < MaxFailures
  /\ failures' = failures + 1
  /\ sweep' = {}
  /\ UNCHANGED <<clock, subscribed, history, share, request, handler, known>>

-----------------------------------------------------------------------------
(* The environment: time passes, and the desktop's stream comes and goes.  *)

Tick ==
  /\ clock < MaxClock
  /\ clock' = clock + 1
  /\ UNCHANGED <<subscribed, failures, history, share, request, handler,
                 sweep, known>>

Subscription ==
  /\ subscribed' = ~subscribed
  /\ UNCHANGED <<clock, failures, history, share, request, handler, sweep,
                 known>>

-----------------------------------------------------------------------------
HandlerStep(h) ==
  \/ InsertSession(h)
  \/ Route(h)
  \/ UnrouteRequest(h)
  \/ UnrouteSession(h)
  \/ WriteDecision(h)
  \/ WriteVerdict(h)
  \/ WriteControl(h)
  \/ Promote(h)
  \/ Announce(h)

HandlerStart(h) ==
  \E s \in Sessions :
    \/ InsertRequest(h, s)
    \/ \E verdict \in {"accepted", "rejected"} :
         SelectForDecision(h, s, verdict)
    \/ \E op \in Mutators : SelectForControl(h, s, op)
    \/ SelectForAnswer(h, s)

Sweeper == SweepUpdate \/ SweepFail \/ \E s \in Sessions : SweepAnnounce(s)

Next ==
  \/ \E h \in Handlers : HandlerStart(h) \/ HandlerStep(h) \/ Fail(h)
  \/ Restart
  \/ Sweeper
  \/ Tick
  \/ Subscription

Spec == Init /\ [][Next]_vars

\* Time passes, and the sweeper is a loop of its own: each round ends, and
\* the next follows ten seconds later whatever the round returned.
Fairness ==
  /\ WF_vars(Tick)
  /\ WF_vars(SweepUpdate)
  /\ \A s \in Sessions : WF_vars(SweepAnnounce(s))

FairSpec == Spec /\ Fairness

-----------------------------------------------------------------------------
(* Properties *)

TypeOK ==
  /\ clock \in Nat
  /\ share \in [Sessions -> Row]
  /\ request \in [Sessions -> RequestStatus \cup {"none"}]
  /\ handler \in [Handlers -> Handler]
  /\ sweep \subseteq Sessions
  /\ subscribed \in BOOLEAN
  /\ known \subseteq Sessions
  /\ failures \in Nat
  /\ granted \in [Sessions -> BOOLEAN]
  /\ applied \in [Sessions -> 0..2]
  /\ lease \in [Sessions -> Nat]

\* A paused session carries a deadline, whatever the handlers in flight did:
\* the sweeper selects on `pause_deadline_at IS NOT NULL`, so a paused row
\* without one would be kept for ever.
PausedHasDeadline ==
  \A s \in Sessions : share[s].state = "paused" => share[s].deadline # Null

\* A session is connecting, and about to be promoted to streaming by the
\* desktop's answer, only if an approval took effect for it, although copies
\* of the row are written back by handlers that read it earlier.
ConnectingWasApproved ==
  /\ \A s \in Sessions : share[s].state = "connecting" => granted[s]
  /\ \A h \in Handlers : At(h, "promote") => granted[handler[h].sid]

\* The two tables agree on approval although they are written by separate
\* statements: where a session row exists, an accepted request means that the
\* session was granted, at every point where a failure may cut a handler off.
AcceptedWasGranted ==
  \A s \in Sessions :
    Exists(s) /\ request[s] = "accepted" => granted[s]

\* At most one decision of the desktop takes effect on a session
\* (api-contracts.md: a repeated decision answers applied=false).
DecisionAppliedOnce == \A s \in Sessions : applied[s] <= 1

\* The verdict on a request is final: an accepted request is never rejected,
\* and a rejected one is accepted only after a failure has torn the rejection
\* of an unroutable request (request written, session still pending).
VerdictFinal ==
  [][\A s \in Sessions :
       /\ request[s] = "accepted" => request'[s] = "accepted"
       /\ request[s] = "rejected" /\ failures = 0
            => request'[s] = "rejected"]_vars

\* The sweeper ends a session only when the keep-alive that the last
\* effective pause promised is over (api-contracts.md: the session is kept
\* for three minutes after the phone went to the background).
KeepAlive ==
  [][\A s \in sweep' \ sweep : lease[s] <= clock]_vars

\* No session stays paused on one deadline for ever: it is resumed, paused
\* anew, terminated, or the sweeper comes to it once the deadline has passed,
\* whatever errors earlier rounds of the sweeper met.
PauseEnds ==
  \A s \in Sessions, d \in PauseWindow..MaxClock :
    LET pause == [state |-> "paused", deadline |-> d]
    IN  share[s] = pause ~> share[s] # pause

\* api-contracts.md, section 6: `requested | pending_approval -> connecting
\* -> streaming`: nothing streams that was not approved.
StreamingWasApproved ==
  \A s \in Sessions : share[s].state = "streaming" => granted[s]
=============================================================================
