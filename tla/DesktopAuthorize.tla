-------------------------- MODULE DesktopAuthorize --------------------------
(***************************************************************************)
(* How a phone's request to see the screen is decided.                     *)
(*                                                                         *)
(* The backend stores the session and publishes the request to the event   *)
(* stream of the desktop server.  The event loop of the desktop server     *)
(* handles one message at a time: it approves by itself, refuses because   *)
(* nobody is there, or asks the desktop app and waits; then it posts the   *)
(* decision, several times if need be.  When it has (re)connected it first *)
(* fetches the sessions still pending, so that a request published while   *)
(* it was away is not lost.                                                *)
(*                                                                         *)
(* What the phone does with a session later on, and the other statements   *)
(* of the backend's handlers, are in ShareSession.  Left out: messages of  *)
(* other kinds, which wait in the same stream; the 32 sessions a fetch is  *)
(* limited to and their order; a crash of the backend; the rest of a       *)
(* handler of the backend that its caller waits for no longer.             *)
(***************************************************************************)
EXTENDS Integers, Sequences

CONSTANTS
  Sessions,     \* sessions the phone may ask for
  Attempts,     \* how often a decision is posted (3 in the code)
  MaxFailures,  \* bound: calls to the backend that fail, and its handlers
  MaxDrops,     \* bound: losses of the event stream and restarts
  None          \* no session, no answer

ASSUME AttemptsAssumption == Attempts \in Nat \ {0}
ASSUME BoundsAssumption == MaxFailures \in Nat /\ MaxDrops \in Nat
ASSUME NoneAssumption == None \notin Sessions /\ None \notin {"approve", "reject"}

VARIABLES
  row,        \* backend: share_sessions.state
  routing,    \* backend: where create_connection_request is for a session
  stream,     \* events published to the desktop server and not yet read
  up,         \* the websocket they come by, as the backend sees it
  stale,      \* whether the backend still counts a subscriber that is gone
  loop,       \* the desktop server's event loop
  armed,      \* pending_authorizations: sessions with a sender in the map
  answer,     \* what the channel of the wait in progress holds
  background, \* tasks that post an approval: how many of each kind
  auto,       \* runtime.auto_approve_screen_share
  app,        \* the local websocket of the desktop app
  dialogs,    \* pendingRequests of the app
  failures,   \* calls that failed so far
  drops,      \* streams lost and restarts so far
  said,       \* history: what the user answered about a session
  waived,     \* history: sessions handled while auto-approval was on
  ended,      \* history: sessions ended by the phone or as unroutable
  abandoned   \* history: sessions whose handling was cut off by a call

backend == <<row, routing>>
link == <<stream, up, stale, drops>>
desk == <<app, dialogs, auto>>
history == <<said, waived, ended, abandoned>>
vars == <<row, routing, stream, up, stale, loop, armed, answer, background, auto, app,
          dialogs, failures, drops, said, waived, ended, abandoned>>

-----------------------------------------------------------------------------
(* Data *)

Decision == {"approve", "reject"}

\* session.requested, of which only the session and auto_approved matter.
Event == [sid : Sessions, auto : BOOLEAN]

\* `todo` holds the fetched sessions still to be handled, `left` the attempts
\* a post in progress still has.
LoopPC ==
  {"offline", "fetch", "reading", "check", "await", "arm", "ask", "wait",
   "expired", "post", "deciding", "stuck"}

Loop ==
  {l \in [pc : LoopPC, sid : Sessions \cup {None}, todo : SUBSET Sessions,
          verdict : Decision \cup {None}, left : 0..Attempts] :
     /\ l.pc \notin {"offline", "fetch", "reading", "stuck"} => l.sid \in Sessions
     /\ l.pc \in {"post", "deciding"} => l.verdict \in Decision /\ l.left > 0}

\* A task of the background: its session, the attempts it has left, and whether
\* the backend has read the session for the attempt it is making.
Task == Sessions \X (1..Attempts) \X {"post", "deciding"}

At(pc) == loop.pc = pc
Goto(pc) == loop' = [loop EXCEPT !.pc = pc]

LoopAt(pc, s, todo) ==
  [pc |-> pc, sid |-> s, todo |-> todo, verdict |-> None, left |-> 0]

Offline == LoopAt("offline", None, {})
Stuck == LoopAt("stuck", None, {})

\* The next of some sessions is handled; when there is none, the stream is read.
Handle(todo) ==
  IF todo = {}
  THEN loop' = LoopAt("reading", None, {})
  ELSE \E s \in todo : loop' = LoopAt("check", s, todo \ {s})

Done == Handle(loop.todo)

Submit(verdict) ==
  loop' = [loop EXCEPT !.pc = "post", !.verdict = verdict, !.left = Attempts]

MayFail == failures < MaxFailures /\ failures' = failures + 1

Init ==
  /\ row = [s \in Sessions |-> "absent"]
  /\ routing = [s \in Sessions |-> "none"]
  /\ stream = <<>>
  /\ up = "down"
  /\ stale = FALSE
  /\ loop = Offline
  /\ armed = {}
  /\ answer = None
  /\ background = [t \in Task |-> 0]
  /\ auto = FALSE
  /\ app = "off"
  /\ dialogs = {}
  /\ failures = 0
  /\ drops = 0
  /\ said = [s \in Sessions |-> {}]
  /\ waived = {}
  /\ ended = {}
  /\ abandoned = {}

-----------------------------------------------------------------------------
(* The backend and the phone: create_connection_request, whose rows are    *)
(* written before the request is published, and terminate_session.         *)

Create(s) ==
  /\ row[s] = "absent"
  /\ \E granted \in BOOLEAN :
       /\ row' = [row EXCEPT ![s] = IF granted THEN "connecting" ELSE "pending"]
       /\ routing' = [routing EXCEPT ![s] = IF granted THEN "announce" ELSE "route"]
       /\ waived' = IF granted THEN waived \cup {s} ELSE waived
  /\ UNCHANGED <<link, loop, armed, answer, background, desk, failures, said,
                 ended, abandoned>>

\* publish_desktop_event returns how many subscribers there are, one that is
\* gone included.  What only that one took is lost; if the stream is being
\* opened again and the fetch is over, nothing will make up for it.
Route(s) ==
  /\ routing[s] \in {"route", "announce"}
  /\ stream' = IF up = "on"
               THEN Append(stream, [sid |-> s, auto |-> routing[s] = "announce"])
               ELSE stream
  /\ routing' = [routing EXCEPT ![s] =
                   IF up = "on" \/ stale \/ @ = "announce" THEN "done" ELSE "unroutable"]
  /\ abandoned' = IF stale /\ up = "opening" /\ ~At("fetch")
                  THEN abandoned \cup {s} ELSE abandoned
  /\ UNCHANGED <<row, up, stale, drops, loop, armed, answer, background, desk,
                 failures, said, waived, ended>>

\* reject_unroutable_request updates the row whatever it holds by now.
Unroute(s) ==
  /\ routing[s] = "unroutable"
  /\ routing' = [routing EXCEPT ![s] = "done"]
  /\ row' = [row EXCEPT ![s] = "terminated"]
  /\ ended' = ended \cup {s}
  /\ UNCHANGED <<link, loop, armed, answer, background, desk, failures, said,
                 waived, abandoned>>

\* A statement of create_connection_request fails after its rows are stored
\* (one of the events it writes, or of the rejection).
CutOff(s) ==
  /\ routing[s] \in {"route", "announce", "unroutable"}
  /\ MayFail
  /\ routing' = [routing EXCEPT ![s] = "done"]
  /\ abandoned' = abandoned \cup {s}
  /\ UNCHANGED <<row, link, loop, armed, answer, background, desk, said, waived,
                 ended>>

Terminate(s) ==
  /\ routing[s] = "done"
  /\ row[s] \in {"pending", "connecting"}
  /\ row' = [row EXCEPT ![s] = "terminated"]
  /\ ended' = ended \cup {s}
  /\ UNCHANGED <<routing, link, loop, armed, answer, background, desk,
                 failures, said, waived, abandoned>>

\* serve_socket subscribes when the websocket is already open.
Subscribe ==
  /\ up = "opening"
  /\ up' = "on"
  /\ UNCHANGED <<backend, stream, stale, drops, loop, armed, answer, background,
                 desk, failures, history>>

\* The stream breaks: what was sent last is lost, and the backend may not notice.
Lose ==
  /\ up # "down"
  /\ drops < MaxDrops
  /\ drops' = drops + 1
  /\ up' = "down"
  /\ stale' \in BOOLEAN
  /\ stale => stale'

Drop ==
  /\ Lose
  /\ stream' \in {SubSeq(stream, 1, n) : n \in 0..Len(stream)}
  /\ UNCHANGED <<backend, loop, armed, answer, background, desk, failures,
                 history>>

\* The subscriber that is gone is noticed when a send to it fails.
Notice ==
  /\ stale
  /\ stale' = FALSE
  /\ UNCHANGED <<backend, stream, up, drops, loop, armed, answer, background,
                 desk, failures, history>>

\* The desktop server restarts: its memory is lost, and its connections.
Restart ==
  /\ Lose
  /\ stream' = <<>>
  /\ loop' = Offline
  /\ armed' = {}
  /\ answer' = None
  /\ background' = [t \in Task |-> 0]
  /\ auto' = FALSE
  /\ app' = "off"
  /\ UNCHANGED <<backend, dialogs, failures, history>>

-----------------------------------------------------------------------------
(* Posting a decision: submit_session_decision and decide_session.         *)

Outcome(v) == IF v = "approve" THEN "connecting" ELSE "terminated"

\* Mutant: a decision is carried out whatever the state of the session.
ReadAnyway(s, v, result) ==
  /\ result = "deciding"
  /\ row' = row
  /\ UNCHANGED failures

\* The call arrives and the session is read: a pending one will be decided, a
\* decision that is repeated succeeds, one that contradicts fails.
ReadRow(s, v, result) ==
  /\ row' = row
  /\ \/ /\ result = CASE row[s] = "pending" -> "deciding"
                       [] row[s] = Outcome(v) -> "ok"
                       [] OTHER -> "failed"
        /\ UNCHANGED failures
     \/ result = "failed" /\ MayFail

\* The decision is stored, whatever the session has become meanwhile.
WriteRow(s, v, result) ==
  LET decided == [row EXCEPT ![s] = Outcome(v)] IN
  \/ result = "ok" /\ row' = decided /\ UNCHANGED failures
  \/ result = "failed" /\ row' \in {row, decided} /\ MayFail

PostStep(phase, s, v, result) ==
  \/ phase = "post" /\ ReadRow(s, v, result)
  \/ phase = "deciding" /\ WriteRow(s, v, result)

\* A call that is never answered may have stored the decision or not.
NoAnswer(phase, s, v) ==
  row' \in {row} \cup (IF phase = "deciding" THEN {[row EXCEPT ![s] = Outcome(v)]} ELSE {})

\* A session that is still pending after the last attempt is left to itself.
GiveUp(s) ==
  abandoned' = IF row'[s] = "pending" THEN abandoned \cup {s} ELSE abandoned

-----------------------------------------------------------------------------
(* The event loop: connecting.                                             *)

\* Mutant: the pending sessions are not fetched after connecting.
ConnectOnly ==
  /\ At("offline")
  /\ up' = "opening"
  /\ Goto("reading")
  /\ UNCHANGED <<backend, stream, stale, drops, armed, answer, background, desk,
                 failures, history>>

Connect ==
  /\ At("offline")
  /\ up' = "opening"
  /\ Goto("fetch")
  /\ UNCHANGED <<backend, stream, stale, drops, armed, answer, background, desk,
                 failures, history>>

\* sync_pending_sessions: a fetch that fails is not repeated.
Fetch ==
  /\ At("fetch")
  /\ LET pending == {s \in Sessions : row[s] = "pending"} IN
       \/ Handle(pending) /\ UNCHANGED <<failures, abandoned>>
       \/ /\ MayFail
          /\ Handle({})
          /\ abandoned' = abandoned \cup pending
  /\ UNCHANGED <<backend, link, armed, answer, background, desk, said, waived,
                 ended>>

\* A request the backend has granted already needs no decision.
Read ==
  /\ At("reading")
  /\ stream # <<>>
  /\ stream' = Tail(stream)
  /\ loop' = IF Head(stream).auto THEN loop
             ELSE [loop EXCEPT !.pc = "check", !.sid = Head(stream).sid]
  /\ UNCHANGED <<backend, up, stale, drops, armed, answer, background, desk, failures,
                 history>>

Disconnected ==
  /\ At("reading")
  /\ up = "down"
  /\ stream = <<>>
  /\ loop' = Offline
  /\ UNCHANGED <<backend, link, armed, answer, background, desk, failures,
                 history>>

\* Connecting and the calls to the backend have no time limit, the backend may
\* not be reached any more, and a stream whose other end is gone without a word
\* is never found to be broken: nothing else is handled from then on.
Stall ==
  /\ \/ loop.pc \in {"offline", "fetch", "post", "deciding"}
     \/ At("reading") /\ up = "down" /\ stream = <<>>
  /\ loop' = Stuck
  /\ NoAnswer(loop.pc, loop.sid, loop.verdict)
  /\ UNCHANGED <<routing, link, armed, answer, background, desk, failures, history>>

-----------------------------------------------------------------------------
(* The event loop: handle_session_requested.                               *)

\* With auto-approval on, a task of its own posts the approval.  The socket
\* of a command line program is counted until it attaches to a terminal, so
\* that the app may be missed and its absence not noticed.
Check ==
  LET s == loop.sid IN
  /\ At("check")
  /\ IF auto
     THEN /\ background' = [background EXCEPT ![<<s, Attempts, "post">>] = @ + 1]
          /\ waived' = waived \cup {s}
          /\ Done
     ELSE /\ Goto("arm") \/ (app = "off" /\ Goto("await"))
          /\ UNCHANGED <<background, waived>>
  /\ UNCHANGED <<backend, link, armed, answer, desk, failures, said, 
                 ended, abandoned>>

\* wait_for_desktop_client_connection looks until its five seconds are over.
Await ==
  /\ At("await")
  /\ Goto("arm") \/ (app = "off" /\ Submit("reject"))
  /\ UNCHANGED <<backend, link, armed, answer, background, desk, failures,
                 history>>

Arm ==
  /\ At("arm")
  /\ armed' = armed \cup {loop.sid}
  /\ answer' = None
  /\ Goto("ask")
  /\ UNCHANGED <<backend, link, background, desk, failures, history>>

\* The app ignores a request it is already showing.  Without the app, the
\* send fails unless some other local socket takes it.
Ask ==
  LET s == loop.sid IN
  /\ At("ask")
  /\ IF app = "listening"
     THEN /\ dialogs' = dialogs \cup {s}
          /\ Goto("wait")
          /\ UNCHANGED armed
     ELSE /\ \/ Goto("wait") /\ UNCHANGED armed
             \/ Submit("reject") /\ armed' = armed \ {s}
          /\ UNCHANGED dialogs
  /\ UNCHANGED <<backend, link, answer, background, app, auto, failures, said,
                 waived, ended, abandoned>>

Answered ==
  /\ At("wait")
  /\ answer # None
  /\ Submit(answer)
  /\ UNCHANGED <<backend, link, armed, answer, background, desk, failures,
                 history>>

Timeout ==
  /\ At("wait")
  /\ answer = None
  /\ Goto("expired")
  /\ UNCHANGED <<backend, link, armed, answer, background, desk, failures,
                 history>>

\* Mutant: silence is taken for consent.
ExpireApproving ==
  /\ At("expired")
  /\ armed' = armed \ {loop.sid}
  /\ Submit("approve")
  /\ UNCHANGED <<backend, link, answer, background, desk, failures, history>>

\* Mutant: the sender stays in the map.
ExpireKeeping ==
  /\ At("expired")
  /\ Submit("reject")
  /\ UNCHANGED <<backend, link, armed, answer, background, desk, failures,
                 history>>

Expire ==
  /\ At("expired")
  /\ armed' = armed \ {loop.sid}
  /\ Submit("reject")
  /\ UNCHANGED <<backend, link, answer, background, desk, failures, history>>

\* Mutant: the last attempt is repeated as well.
PostAgain ==
  /\ loop.pc \in {"post", "deciding"}
  /\ \E result \in {"deciding", "ok", "failed"} :
       /\ PostStep(loop.pc, loop.sid, loop.verdict, result)
       /\ CASE result = "deciding" -> Goto("deciding")
            [] result = "ok" -> Done
            [] OTHER -> loop' = [loop EXCEPT !.pc = "post", !.left = @ - 1]
  /\ UNCHANGED <<routing, link, armed, answer, background, desk, history>>

\* submit_session_decision_with_retry; the error of the last attempt is logged.
Post ==
  LET s == loop.sid IN
  /\ loop.pc \in {"post", "deciding"}
  /\ \E result \in {"deciding", "ok", "failed"} :
       /\ PostStep(loop.pc, s, loop.verdict, result)
       /\ CASE result = "deciding" -> Goto("deciding") /\ UNCHANGED abandoned
            [] result = "ok" -> Done /\ UNCHANGED abandoned
            [] result = "failed" /\ loop.left > 1 ->
                 /\ loop' = [loop EXCEPT !.pc = "post", !.left = @ - 1]
                 /\ UNCHANGED abandoned
            [] OTHER -> Done /\ GiveUp(s)
  /\ UNCHANGED <<routing, link, armed, answer, background, desk, said, waived,
                 ended>>

\* One of the tasks of Check, with n attempts left.
BackgroundPost(s, n, phase) ==
  LET rest == [background EXCEPT ![<<s, n, phase>>] = @ - 1] IN
  /\ background[<<s, n, phase>>] > 0
  /\ \E result \in {"deciding", "ok", "failed"} :
       /\ PostStep(phase, s, "approve", result)
       /\ CASE result = "deciding" ->
                 /\ background' = [rest EXCEPT ![<<s, n, "deciding">>] = @ + 1]
                 /\ UNCHANGED abandoned
            [] result = "ok" -> background' = rest /\ UNCHANGED abandoned
            [] result = "failed" /\ n > 1 ->
                 /\ background' = [rest EXCEPT ![<<s, n - 1, "post">>] = @ + 1]
                 /\ UNCHANGED abandoned
            [] OTHER -> background' = rest /\ GiveUp(s)
  /\ UNCHANGED <<routing, link, loop, armed, answer, desk, said, waived, 
                 ended>>

BackgroundStall(s, n, phase) ==
  /\ background[<<s, n, phase>>] > 0
  /\ background' = [background EXCEPT ![<<s, n, phase>>] = @ - 1]
  /\ NoAnswer(phase, s, "approve")
  /\ GiveUp(s)
  /\ UNCHANGED <<routing, link, loop, armed, answer, desk, failures, said, waived,
                 ended>>

-----------------------------------------------------------------------------
(* The desktop app and its user.                                           *)

\* handle_socket counts the connection before it subscribes.
AppConnect ==
  /\ app = "off"
  /\ app' = "counted"
  /\ UNCHANGED <<backend, link, loop, armed, answer, background, auto, dialogs,
                 failures, history>>

AppSubscribe ==
  /\ app = "counted"
  /\ app' = "listening"
  /\ UNCHANGED <<backend, link, loop, armed, answer, background, auto, dialogs,
                 failures, history>>

\* Dialogs outlive the connection, but not the app.
AppLeave ==
  /\ app = "listening"
  /\ app' = "off"
  /\ dialogs' \in {dialogs, {}}
  /\ UNCHANGED <<backend, link, loop, armed, answer, background, auto,
                 failures, history>>

\* By the app's websocket or by PUT /settings.
SetAutoApprove ==
  /\ auto' = ~auto
  /\ UNCHANGED <<backend, link, loop, armed, answer, background, app, dialogs,
                 failures, history>>

\* AuthorizeResponse: the sender is taken from the map; what it sends is lost
\* if the wait is over.  A dialog stays open after its wait has timed out, and
\* an answer to it is acknowledged like any other.
Respond(s, d) ==
  /\ app = "listening"
  /\ s \in dialogs
  /\ dialogs' = dialogs \ {s}
  /\ said' = [said EXCEPT ![s] = @ \cup {d}]
  /\ armed' = armed \ {s}
  /\ answer' = IF s \in armed /\ loop.pc \in {"ask", "wait"} THEN d ELSE answer
  /\ UNCHANGED <<backend, link, loop, background, auto, app, failures, waived,
                 ended, abandoned>>

-----------------------------------------------------------------------------
LoopStep ==
  \/ Connect \/ Fetch \/ Read \/ Disconnected
  \/ Check \/ Await \/ Arm \/ Ask \/ Answered \/ Timeout \/ Expire
  \/ Post

Phone == \E s \in Sessions : Create(s) \/ Terminate(s)

User ==
  \/ AppConnect \/ AppSubscribe \/ AppLeave \/ SetAutoApprove
  \/ \E s \in Sessions, d \in Decision : Respond(s, d)

Next ==
  \/ LoopStep
  \/ \E s \in Sessions, n \in 1..Attempts, phase \in {"post", "deciding"} :
       BackgroundPost(s, n, phase) \/ BackgroundStall(s, n, phase)
  \/ \E s \in Sessions : Route(s) \/ Unroute(s) \/ CutOff(s)
  \/ Phone
  \/ User
  \/ Subscribe \/ Drop \/ Notice \/ Restart \/ Stall

Spec == Init /\ [][Next]_vars

\* The event loop, its tasks and the backend's handlers go on until one of
\* them fails or waits for ever (CutOff, Stall, BackgroundStall); the waits for
\* the app and for its user have timeouts.  Neither the user nor the phone ever
\* has to do anything.
FairSpec ==
  /\ Spec
  /\ WF_vars(LoopStep)
  /\ WF_vars(Subscribe)
  /\ \A s \in Sessions :
       /\ WF_vars(Route(s) \/ Unroute(s))
       /\ WF_vars(\E n \in 1..Attempts, phase \in {"post", "deciding"} :
                    BackgroundPost(s, n, phase))

-----------------------------------------------------------------------------
(* Properties *)

\* Types: the shape of every variable.
TypeOK ==
  /\ row \in [Sessions -> {"absent", "pending", "connecting", "terminated"}]
  /\ routing \in [Sessions -> {"none", "route", "announce", "unroutable", "done"}]
  /\ stream \in Seq(Event)
  /\ up \in {"down", "opening", "on"}
  /\ stale \in BOOLEAN
  /\ loop \in Loop
  /\ armed \subseteq Sessions
  /\ answer \in Decision \cup {None}
  /\ background \in [Task -> Nat]
  /\ auto \in BOOLEAN
  /\ app \in {"off", "counted", "listening"}
  /\ dialogs \subseteq Sessions
  /\ failures \in 0..MaxFailures
  /\ drops \in 0..MaxDrops
  /\ said \in [Sessions -> SUBSET Decision]
  /\ waived \subseteq Sessions
  /\ ended \subseteq Sessions
  /\ abandoned \subseteq Sessions

\* Without auto-approval a session is connecting, and an approval is on its
\* way, only if the user approved that very session, although waits time out,
\* answers come late, and decisions are posted again and again.
UserDecides ==
  /\ \A s \in Sessions :
       row[s] = "connecting" => s \in waived \/ "approve" \in said[s]
  /\ loop.pc \in {"post", "deciding"} /\ loop.verdict = "approve"
       => "approve" \in said[loop.sid]
  /\ \A t \in Task : background[t] > 0 => t[1] \in waived

\* No answer outlives the wait it was given for: the map holds at most the
\* sender of the wait in progress, and an answer in its channel was given by
\* the user about that session.
AnswerMeetsItsWait ==
  /\ \A s \in armed : loop.pc \in {"ask", "wait", "expired"} /\ loop.sid = s
  /\ loop.pc \in {"ask", "wait"} /\ answer # None => answer \in said[loop.sid]

\* The user's approval stands: a refusal that is posted for the same session
\* later (of a second dialog that nobody answers, say) never ends it.  Only the
\* phone and the rejection of an unroutable request do.  Where auto-approval
\* was on as well, two tasks decide at once and the property is not claimed.
ApprovalStands ==
  [][\A s \in Sessions :
       row[s] = "connecting" /\ row'[s] = "terminated"
         => s \in ended' \cup waived]_vars

\* A request is decided, whatever is lost with the event stream, unless storing
\* it or the fetch after connecting failed, every attempt to post the decision
\* did, or the event loop waits for an end of the stream or an answer of the
\* backend that never comes.
RequestIsDecided ==
  \A s \in Sessions :
    row[s] = "pending" ~> row[s] # "pending" \/ s \in abandoned \/ At("stuck")
=============================================================================
