------------------------- MODULE ShareSessionProofs -------------------------
(* Proofs about ShareSession, for every set of sessions and of handlers and *)
(* every value of the bounds.  The safety invariants are not inductive: a   *)
(* handler carries a copy of a row, and what it will write must be as sound *)
(* as what is stored.  `IInv` says that of every handler in flight.  What   *)
(* holds for one handler at a time on a session is proved from `SerialInv`. *)
EXTENDS ShareSession, TLAPS

\* A paused row carries its deadline, in the table and in every copy.
PausesAreSound ==
  /\ PausedHasDeadline
  /\ \A h \in Handlers :
       handler[h].row.state = "paused" => handler[h].row.deadline # Null

\* Whatever a handler may still write that says "connecting" or "accepted",
\* or promote, is about a granted session.
WritesAreGranted ==
  \A h \in Handlers :
    /\ At(h, "write_control") /\ handler[h].row.state = "connecting"
         => granted[handler[h].sid]
    /\ At(h, "write_verdict") /\ handler[h].verdict = "accepted"
         => granted[handler[h].sid]

\* A session being created is the business of one handler: until its row is
\* there, its request holds the status that handler wrote.
CreationIsExclusive ==
  /\ \A s \in Sessions : Exists(s) => request[s] # "none"
  /\ \A h \in Handlers :
       /\ ~At(h, "idle") => request[handler[h].sid] # "none"
       /\ At(h, "insert_session") =>
            /\ ~Exists(handler[h].sid)
            /\ request[handler[h].sid] = handler[h].verdict
            /\ handler[h].row.state = "connecting"
                 => handler[h].verdict = "accepted"
            /\ handler[h].row.state # "absent"
            /\ \A g \in Handlers :
                 ~At(g, "idle") /\ handler[g].sid = handler[h].sid => g = h
       /\ ~At(h, "idle") /\ ~At(h, "insert_session") => Exists(handler[h].sid)
       /\ At(h, "write_control") => handler[h].row.state # "absent"
       /\ At(h, "write_decision") \/ At(h, "write_verdict")
            => handler[h].verdict \in {"accepted", "rejected"}

IInv ==
  /\ TypeOK
  /\ PausesAreSound
  /\ ConnectingWasApproved
  /\ AcceptedWasGranted
  /\ WritesAreGranted
  /\ CreationIsExclusive

-----------------------------------------------------------------------------
(* Type correctness                                                        *)

\* What Start and Goto leave in a handler's slot is a handler.
LEMMA StartType ==
  ASSUME NEW h \in Handlers, handler \in [Handlers -> Handler],
         NEW pc \in HandlerPC, NEW s \in Sessions, NEW row \in Row,
         NEW verdict \in RequestStatus \cup {"none"}, NEW until \in Nat,
         Start(h, pc, s, row, verdict, until)
  PROVE  handler' \in [Handlers -> Handler]
  BY DEF Start, Handler

LEMMA GotoType ==
  ASSUME NEW h \in Handlers, handler \in [Handlers -> Handler],
         NEW pc \in HandlerPC, ~At(h, "idle"), Goto(h, pc)
  PROVE  handler' \in [Handlers -> Handler]
<1>1. handler[h] \in Handler /\ handler[h].sid \in Sessions
  BY DEF Handler, At
<1>2. [handler[h] EXCEPT !.pc = pc] \in Handler
  BY <1>1 DEF Handler
<1>3. handler' = [handler EXCEPT ![h] = [handler[h] EXCEPT !.pc = pc]]
  BY DEF Goto
<1> QED BY <1>2, <1>3

LEMMA IdleType == Idle \in Handler
  BY DEF Idle, Handler, HandlerPC, NoRow, Row, SessionState

\* The state column may be replaced, and the whole row.
LEMMA SetStateType ==
  ASSUME NEW s \in Sessions, share \in [Sessions -> Row],
         NEW st \in SessionState, SetState(s, st)
  PROVE  share' \in [Sessions -> Row]
<1>1. [share[s] EXCEPT !.state = st] \in Row
  BY DEF Row
<1>2. share' = [share EXCEPT ![s] = [share[s] EXCEPT !.state = st]]
  BY DEF SetState
<1> QED BY <1>1, <1>2

LEMMA InitType == Init => TypeOK
<1> SUFFICES ASSUME Init PROVE TypeOK
  OBVIOUS
<1>1. NoRow \in Row
  BY DEF NoRow, Row
<1>2. handler \in [Handlers -> Handler]
  BY IdleType DEF Init
<1> QED BY <1>1, <1>2 DEF Init, TypeOK

LEMMA TypeStep == TypeOK /\ [Next]_vars => TypeOK'
<1> SUFFICES ASSUME TypeOK, [Next]_vars PROVE TypeOK'
  OBVIOUS
<1> USE DEF TypeOK, env, history
<1>1. ASSUME NEW h \in Handlers, HandlerStart(h) PROVE TypeOK'
  <2>1. ASSUME NEW s \in Sessions, InsertRequest(h, s) PROVE TypeOK'
    <3>1. PICK auto \in BOOLEAN :
            LET status == IF auto THEN "accepted" ELSE "requested"
                st == IF auto THEN "connecting" ELSE "pending_approval"
            IN /\ SetRequest(s, status)
               /\ Start(h, "insert_session", s,
                        [state |-> st, deadline |-> Null], status, 0)
      BY <2>1 DEF InsertRequest
    <3>2. handler' \in [Handlers -> Handler]
      BY <3>1, StartType DEF HandlerPC, Row, SessionState, RequestStatus
    <3>3. request' \in [Sessions -> RequestStatus \cup {"none"}]
      BY <3>1 DEF SetRequest, RequestStatus
    <3> QED BY <2>1, <3>2, <3>3 DEF InsertRequest
  <2>2. ASSUME NEW s \in Sessions, NEW verdict \in {"accepted", "rejected"},
               SelectForDecision(h, s, verdict)
        PROVE  TypeOK'
    <3>1. handler' \in [Handlers -> Handler]
      BY <2>2, StartType
         DEF SelectForDecision, HandlerPC, NoRow, Row, RequestStatus
    <3> QED BY <2>2, <3>1 DEF SelectForDecision
  <2>3. ASSUME NEW s \in Sessions, NEW op \in Mutators,
               SelectForControl(h, s, op)
        PROVE  TypeOK'
    <3>1. clock + PauseWindow \in Nat
      BY PauseWindowAssumption
    <3>2. Mutated(op, share[s]) \in Row
      BY <3>1 DEF Mutated, Row, SessionState
    <3>3. handler' \in [Handlers -> Handler]
      BY <2>3, <3>1, <3>2, StartType DEF SelectForControl, HandlerPC
    <3> QED BY <2>3, <3>3 DEF SelectForControl
  <2>4. ASSUME NEW s \in Sessions, SelectForAnswer(h, s) PROVE TypeOK'
    <3>1. handler' \in [Handlers -> Handler]
      BY <2>4, StartType
         DEF SelectForAnswer, HandlerPC, NoRow, Row, RequestStatus
    <3> QED BY <2>4, <3>1 DEF SelectForAnswer
  <2> QED BY <1>1, <2>1, <2>2, <2>3, <2>4 DEF HandlerStart
<1>2. ASSUME NEW h \in Handlers, HandlerStep(h) PROVE TypeOK'
  <2>0. handler[h] \in Handler /\ (~At(h, "idle") => handler[h].sid \in Sessions)
    BY DEF At, Handler
  <2>1. CASE InsertSession(h)
    <3>1. handler' \in [Handlers -> Handler]
      BY <2>1, GotoType DEF InsertSession, At, HandlerPC
    <3>2. handler[h].row \in Row
      BY <2>0 DEF Handler
    <3> QED BY <2>1, <3>1, <3>2 DEF InsertSession
  <2>2. CASE Route(h)
    <3>1. handler' \in [Handlers -> Handler]
      BY <2>2, GotoType DEF Route, At, HandlerPC
    <3> QED BY <2>2, <3>1 DEF Route
  <2>3. CASE UnrouteRequest(h)
    <3>1. handler' \in [Handlers -> Handler]
      BY <2>3, GotoType DEF UnrouteRequest, At, HandlerPC
    <3> QED BY <2>3, <3>1 DEF UnrouteRequest, SetRequest, RequestStatus
  <2>4. CASE UnrouteSession(h)
    <3>1. handler' \in [Handlers -> Handler]
      BY <2>4, GotoType DEF UnrouteSession, At, HandlerPC
    <3>2. handler[h].sid \in Sessions
      BY <2>0, <2>4 DEF UnrouteSession, At
    <3>3. share' \in [Sessions -> Row]
      BY <2>4, <3>2, SetStateType DEF UnrouteSession, SessionState
    <3> QED BY <2>4, <3>1, <3>3 DEF UnrouteSession
  <2>5. CASE WriteDecision(h)
    <3>1. handler' \in [Handlers -> Handler]
      BY <2>5, GotoType DEF WriteDecision, At, HandlerPC
    <3>2. handler[h].sid \in Sessions
      BY <2>0, <2>5 DEF WriteDecision, At
    <3>3. share' \in [Sessions -> Row]
      BY <2>5, <3>2, SetStateType DEF WriteDecision, SessionState
    <3>4. applied' \in [Sessions -> 0..2] /\ granted' \in [Sessions -> BOOLEAN]
      BY <2>5, <3>2 DEF WriteDecision
    <3> QED BY <2>5, <3>1, <3>3, <3>4 DEF WriteDecision
  <2>6. CASE WriteVerdict(h)
    <3>1. handler' \in [Handlers -> Handler]
      BY <2>6, GotoType DEF WriteVerdict, At, HandlerPC
    <3>2. handler[h].verdict \in RequestStatus \cup {"none"}
      BY <2>0 DEF Handler
    <3> QED BY <2>6, <3>1, <3>2 DEF WriteVerdict, SetRequest
  <2>7. CASE WriteControl(h)
    <3>1. handler' \in [Handlers -> Handler]
      BY <2>7, GotoType DEF WriteControl, At, HandlerPC
    <3>2. handler[h].row \in Row /\ handler[h].lease \in Nat
      BY <2>0 DEF Handler
    <3> QED BY <2>7, <3>1, <3>2 DEF WriteControl
  <2>8. CASE Promote(h)
    <3>1. handler' \in [Handlers -> Handler]
      BY <2>8, GotoType DEF Promote, At, HandlerPC
    <3>2. [state |-> "streaming", deadline |-> Null] \in Row
      BY DEF Row, SessionState
    <3> QED BY <2>8, <3>1, <3>2 DEF Promote
  <2>9. CASE Announce(h)
    <3>1. handler[h].sid \in Sessions
      BY <2>0, <2>9 DEF Announce, At
    <3> QED BY <2>9, <3>1, IdleType DEF Announce
  <2> QED BY <1>2, <2>1, <2>2, <2>3, <2>4, <2>5, <2>6, <2>7, <2>8, <2>9
          DEF HandlerStep
<1>3. ASSUME NEW h \in Handlers, Fail(h) PROVE TypeOK'
  BY <1>3, IdleType DEF Fail
<1>4. CASE Restart
  <2>1. subscribed' \in BOOLEAN
    BY <1>4 DEF Restart
  <2>2. failures' \in Nat /\ handler' \in [Handlers -> Handler]
    BY <1>4, IdleType DEF Restart
  <2> QED BY <1>4, <2>1, <2>2 DEF Restart
<1>5. CASE Sweeper
  <2>1. CASE SweepUpdate
    <3>1. [state |-> "terminated", deadline |-> Null] \in Row
      BY DEF Row, SessionState
    <3> QED BY <2>1, <3>1 DEF SweepUpdate
  <2> QED BY <1>5, <2>1 DEF Sweeper, SweepFail, SweepAnnounce
<1>6. CASE Tick
  BY <1>6 DEF Tick
<1>7. CASE Subscription
  BY <1>7 DEF Subscription
<1>8. CASE UNCHANGED vars
  BY <1>8 DEF vars
<1> QED BY <1>1, <1>2, <1>3, <1>4, <1>5, <1>6, <1>7, <1>8 DEF Next

\* Every reachable state is well typed.
THEOREM TypeCorrect == Spec => []TypeOK
  BY InitType, TypeStep, PTL DEF Spec

-----------------------------------------------------------------------------
(* Pauses carry their deadline                                             *)

LEMMA PausesStep ==
  ASSUME TypeOK, PausesAreSound, [Next]_vars
  PROVE  PausesAreSound'
<1> USE DEF TypeOK, PausesAreSound, PausedHasDeadline, env, history
<1>0. /\ \A s \in Sessions : share[s] \in Row
      /\ \A h \in Handlers : handler[h] \in Handler
  OBVIOUS
<1>1. ASSUME NEW h \in Handlers, HandlerStart(h) PROVE PausesAreSound'
  <2>1. ASSUME NEW s \in Sessions, InsertRequest(h, s) PROVE PausesAreSound'
    BY <2>1 DEF InsertRequest, Start
  <2>2. ASSUME NEW s \in Sessions, NEW verdict \in {"accepted", "rejected"},
               SelectForDecision(h, s, verdict)
        PROVE  PausesAreSound'
    BY <2>2 DEF SelectForDecision, Start, NoRow
  <2>3. ASSUME NEW s \in Sessions, NEW op \in Mutators,
               SelectForControl(h, s, op)
        PROVE  PausesAreSound'
    <3>1. clock + PauseWindow # Null
      BY PauseWindowAssumption, NullAssumption
    <3>2. LET row == Mutated(op, share[s])
          IN  row.state = "paused" => row.deadline # Null
      BY <3>1 DEF Mutated
    <3> QED BY <2>3, <3>2 DEF SelectForControl, Start
  <2>4. ASSUME NEW s \in Sessions, SelectForAnswer(h, s)
        PROVE  PausesAreSound'
    BY <2>4 DEF SelectForAnswer, Start, NoRow
  <2> QED BY <1>1, <2>1, <2>2, <2>3, <2>4 DEF HandlerStart
<1>2. ASSUME NEW h \in Handlers, HandlerStep(h) PROVE PausesAreSound'
  <2>0. /\ handler[h] \in Handler
        /\ \A pc : Goto(h, pc) =>
             \A g \in Handlers : handler'[g].row = handler[g].row
    BY DEF Goto, Handler
  <2>1. CASE InsertSession(h)
    BY <2>1, <2>0 DEF InsertSession
  <2>2. CASE Route(h)
    BY <2>2, <2>0 DEF Route
  <2>3. CASE UnrouteRequest(h)
    BY <2>3, <2>0 DEF UnrouteRequest
  <2>4. CASE UnrouteSession(h)
    BY <2>4, <2>0 DEF UnrouteSession, SetState, Row
  <2>5. CASE WriteDecision(h)
    BY <2>5, <2>0 DEF WriteDecision, SetState, Row
  <2>6. CASE WriteVerdict(h)
    BY <2>6, <2>0 DEF WriteVerdict
  <2>7. CASE WriteControl(h)
    BY <2>7, <2>0 DEF WriteControl
  <2>8. CASE Promote(h)
    BY <2>8, <2>0 DEF Promote
  <2>9. CASE Announce(h)
    BY <2>9 DEF Announce, Idle, NoRow
  <2> QED BY <1>2, <2>1, <2>2, <2>3, <2>4, <2>5, <2>6, <2>7, <2>8, <2>9
          DEF HandlerStep
<1>3. ASSUME NEW h \in Handlers, Fail(h) PROVE PausesAreSound'
  BY <1>3 DEF Fail, Idle, NoRow
<1>4. CASE Restart
  BY <1>4 DEF Restart, Idle, NoRow
<1>5. CASE Sweeper
  BY <1>5 DEF Sweeper, SweepUpdate, SweepFail, SweepAnnounce
<1>6. CASE Tick
  BY <1>6 DEF Tick
<1>7. CASE Subscription
  BY <1>7 DEF Subscription
<1>8. CASE UNCHANGED vars
  BY <1>8 DEF vars
<1> QED BY <1>1, <1>2, <1>3, <1>4, <1>5, <1>6, <1>7, <1>8 DEF Next

-----------------------------------------------------------------------------
(* Creation is exclusive                                                   *)

LEMMA CreationStep ==
  ASSUME TypeOK, CreationIsExclusive, [Next]_vars
  PROVE  CreationIsExclusive'
<1> USE DEF TypeOK, CreationIsExclusive, Exists, At, env, history
<1>0. /\ \A s \in Sessions : share[s] \in Row
      /\ \A h \in Handlers :
           /\ handler[h] \in Handler
           /\ handler[h].pc # "idle" => handler[h].sid \in Sessions
  BY DEF Handler
<1>1. ASSUME NEW h \in Handlers, HandlerStart(h) PROVE CreationIsExclusive'
  <2>1. ASSUME NEW s \in Sessions, InsertRequest(h, s)
        PROVE  CreationIsExclusive'
    BY <2>1, <1>0 DEF InsertRequest, Start, SetRequest
  <2>2. ASSUME NEW s \in Sessions, NEW verdict \in {"accepted", "rejected"},
               SelectForDecision(h, s, verdict)
        PROVE  CreationIsExclusive'
    BY <2>2, <1>0 DEF SelectForDecision, Start
  <2>3. ASSUME NEW s \in Sessions, NEW op \in Mutators,
               SelectForControl(h, s, op)
        PROVE  CreationIsExclusive'
    <3>1. Mutated(op, share[s]).state # "absent"
      BY <2>3 DEF SelectForControl, Mutated
    <3> QED BY <2>3, <3>1, <1>0 DEF SelectForControl, Start
  <2>4. ASSUME NEW s \in Sessions, SelectForAnswer(h, s)
        PROVE  CreationIsExclusive'
    BY <2>4, <1>0 DEF SelectForAnswer, Start
  <2> QED BY <1>1, <2>1, <2>2, <2>3, <2>4 DEF HandlerStart
<1>2. ASSUME NEW h \in Handlers, HandlerStep(h) PROVE CreationIsExclusive'
  <2>1. CASE InsertSession(h)
    BY <2>1, <1>0 DEF InsertSession, Goto
  <2>2. CASE Route(h)
    <3>1. \E pc \in {"unroute_request", "announce"} : Goto(h, pc)
      BY <2>2 DEF Route
    <3> QED BY <2>2, <3>1, <1>0 DEF Route, Goto
  <2>3. CASE UnrouteRequest(h)
    BY <2>3, <1>0 DEF UnrouteRequest, SetRequest, Goto
  <2>4. CASE UnrouteSession(h)
    BY <2>4, <1>0 DEF UnrouteSession, SetState, Goto, Row
  <2>5. CASE WriteDecision(h)
    BY <2>5, <1>0 DEF WriteDecision, SetState, Goto, Row
  <2>6. CASE WriteVerdict(h)
    BY <2>6, <1>0 DEF WriteVerdict, SetRequest, Goto
  <2>7. CASE WriteControl(h)
    BY <2>7, <1>0 DEF WriteControl, Goto
  <2>8. CASE Promote(h)
    BY <2>8, <1>0 DEF Promote, Goto
  <2>9. CASE Announce(h)
    BY <2>9, <1>0 DEF Announce, Idle
  <2> QED BY <1>2, <2>1, <2>2, <2>3, <2>4, <2>5, <2>6, <2>7, <2>8, <2>9
          DEF HandlerStep
<1>3. ASSUME NEW h \in Handlers, Fail(h) PROVE CreationIsExclusive'
  BY <1>3 DEF Fail, Idle
<1>4. CASE Restart
  BY <1>4 DEF Restart, Idle
<1>5. CASE Sweeper
  <2>1. CASE SweepUpdate
    <3>1. \A s \in Sessions : Exists(s) <=> Exists(s)'
      BY <2>1 DEF SweepUpdate, Expired
    <3>2. UNCHANGED <<handler, request>>
      BY <2>1 DEF SweepUpdate
    <3> QED BY <3>1, <3>2, <1>0
  <2>2. CASE SweepFail \/ \E s \in Sessions : SweepAnnounce(s)
    BY <2>2 DEF SweepFail, SweepAnnounce
  <2> QED BY <1>5, <2>1, <2>2 DEF Sweeper
<1>6. CASE Tick
  BY <1>6 DEF Tick
<1>7. CASE Subscription
  BY <1>7 DEF Subscription
<1>8. CASE UNCHANGED vars
  BY <1>8 DEF vars
<1> QED BY <1>1, <1>2, <1>3, <1>4, <1>5, <1>6, <1>7, <1>8 DEF Next

-----------------------------------------------------------------------------
(* Approval precedes connecting                                            *)

LEMMA ApprovalStep ==
  ASSUME IInv, [Next]_vars
  PROVE  (ConnectingWasApproved /\ AcceptedWasGranted /\ WritesAreGranted)'
<1> DEFINE Granted ==
      ConnectingWasApproved /\ AcceptedWasGranted /\ WritesAreGranted
<1> USE DEF IInv, TypeOK, CreationIsExclusive, ConnectingWasApproved,
            AcceptedWasGranted, WritesAreGranted, Exists, At, env, history
<1>0. /\ \A s \in Sessions : share[s] \in Row
      /\ \A h \in Handlers :
           /\ handler[h] \in Handler
           /\ handler[h].pc # "idle" => handler[h].sid \in Sessions
  BY DEF Handler
<1>1. ASSUME NEW h \in Handlers, HandlerStart(h) PROVE Granted'
  <2>1. ASSUME NEW s \in Sessions, InsertRequest(h, s) PROVE Granted'
    BY <2>1, <1>0 DEF InsertRequest, Start, SetRequest
  <2>2. ASSUME NEW s \in Sessions, NEW verdict \in {"accepted", "rejected"},
               SelectForDecision(h, s, verdict)
        PROVE  Granted'
    BY <2>2, <1>0 DEF SelectForDecision, Start
  <2>3. ASSUME NEW s \in Sessions, NEW op \in Mutators,
               SelectForControl(h, s, op)
        PROVE  Granted'
    <3>1. Mutated(op, share[s]).state = "connecting" => granted[s]
      BY DEF Mutated
    <3> QED BY <2>3, <3>1, <1>0 DEF SelectForControl, Start
  <2>4. ASSUME NEW s \in Sessions, SelectForAnswer(h, s)
        PROVE  Granted'
    BY <2>4, <1>0 DEF SelectForAnswer, Start
  <2> QED BY <1>1, <2>1, <2>2, <2>3, <2>4 DEF HandlerStart
<1>2. ASSUME NEW h \in Handlers, HandlerStep(h) PROVE Granted'
  <2>1. CASE InsertSession(h)
    <3> DEFINE s == handler[h].sid
    <3>1. /\ s \in Sessions
          /\ \A g \in Handlers : handler[g].pc # "idle" /\ g # h
               => handler[g].sid # s
          /\ request[s] = handler[h].verdict
          /\ handler[h].row.state = "connecting"
               => handler[h].verdict = "accepted"
      BY <2>1, <1>0 DEF InsertSession
    <3>2. /\ \A x \in Sessions : x # s =>
               share'[x] = share[x] /\ granted'[x] = granted[x]
          /\ share'[s] = handler[h].row
          /\ handler[h].verdict = "accepted" => granted'[s]
          /\ request' = request
      BY <2>1, <3>1 DEF InsertSession
    <3>3. \A g \in Handlers :
            /\ g # h => handler'[g] = handler[g]
            /\ handler'[h].pc = "route"
      BY <2>1, <1>0 DEF InsertSession, Goto, Handler
    <3>4. ConnectingWasApproved'
      BY <3>1, <3>2, <3>3, <1>0
    <3>5. AcceptedWasGranted'
      BY <3>1, <3>2
    <3>6. WritesAreGranted'
      BY <3>1, <3>2, <3>3, <1>0
    <3> QED BY <3>4, <3>5, <3>6
  <2>2. CASE Route(h)
    <3>1. \E pc \in {"unroute_request", "announce"} : Goto(h, pc)
      BY <2>2 DEF Route
    <3> QED BY <2>2, <3>1, <1>0 DEF Route, Goto
  <2>3. CASE UnrouteRequest(h)
    BY <2>3, <1>0 DEF UnrouteRequest, SetRequest, Goto
  <2>4. CASE UnrouteSession(h)
    BY <2>4, <1>0 DEF UnrouteSession, SetState, Goto, Row
  <2>5. CASE WriteDecision(h)
    <3> DEFINE s == handler[h].sid
    <3>1. s \in Sessions /\ Exists(s)
      BY <2>5, <1>0 DEF WriteDecision
    <3>2. \A x \in Sessions : granted[x] => granted'[x]
      BY <2>5, <3>1 DEF WriteDecision
    <3>3. handler[h].verdict = "accepted" => granted'[s]
      BY <2>5, <3>1 DEF WriteDecision
    <3>4. /\ \A x \in Sessions : x # s => share'[x] = share[x]
          /\ share'[s].state = IF handler[h].verdict = "accepted"
                                 THEN "connecting" ELSE "terminated"
          /\ request' = request
      BY <2>5, <3>1, <1>0 DEF WriteDecision, SetState, Row
    <3>5. \A g \in Handlers :
            /\ g # h => handler'[g] = handler[g]
            /\ handler'[h] = [handler[h] EXCEPT !.pc = "write_verdict"]
      BY <2>5 DEF WriteDecision, Goto
    <3>6. /\ handler'[h].pc = "write_verdict"
          /\ handler'[h].sid = s
          /\ handler'[h].verdict = handler[h].verdict
      BY <3>5, <1>0 DEF Handler
    <3>7. ConnectingWasApproved'
      BY <3>2, <3>3, <3>4, <3>5, <3>6, <1>0
    <3>8. AcceptedWasGranted'
      BY <3>1, <3>2, <3>4
    <3>9. WritesAreGranted'
      BY <3>2, <3>3, <3>5, <3>6, <1>0
    <3> QED BY <3>7, <3>8, <3>9
  <2>6. CASE WriteVerdict(h)
    BY <2>6, <1>0 DEF WriteVerdict, SetRequest, Goto
  <2>7. CASE WriteControl(h)
    BY <2>7, <1>0 DEF WriteControl, Goto
  <2>8. CASE Promote(h)
    BY <2>8, <1>0 DEF Promote, Goto
  <2>9. CASE Announce(h)
    BY <2>9, <1>0 DEF Announce, Idle
  <2> QED BY <1>2, <2>1, <2>2, <2>3, <2>4, <2>5, <2>6, <2>7, <2>8, <2>9
          DEF HandlerStep
<1>3. ASSUME NEW h \in Handlers, Fail(h) PROVE Granted'
  BY <1>3 DEF Fail, Idle
<1>4. CASE Restart
  BY <1>4 DEF Restart, Idle
<1>5. CASE Sweeper
  <2>1. CASE SweepUpdate
    <3>1. \A s \in Sessions :
            /\ Exists(s)' => Exists(s)
            /\ share'[s].state = "connecting" => share[s].state = "connecting"
      BY <2>1 DEF SweepUpdate, Expired
    <3>2. UNCHANGED <<handler, request, granted>>
      BY <2>1 DEF SweepUpdate
    <3> QED BY <3>1, <3>2, <1>0
  <2>2. CASE SweepFail \/ \E s \in Sessions : SweepAnnounce(s)
    BY <2>2 DEF SweepFail, SweepAnnounce
  <2> QED BY <1>5, <2>1, <2>2 DEF Sweeper
<1>6. CASE Tick
  BY <1>6 DEF Tick
<1>7. CASE Subscription
  BY <1>7 DEF Subscription
<1>8. CASE UNCHANGED vars
  BY <1>8 DEF vars
<1> QED BY <1>1, <1>2, <1>3, <1>4, <1>5, <1>6, <1>7, <1>8 DEF Next

-----------------------------------------------------------------------------
(* The invariant and what follows from it                                  *)

LEMMA InitIInv == Init => IInv
<1> SUFFICES ASSUME Init PROVE IInv
  OBVIOUS
<1>1. /\ \A s \in Sessions : share[s] = NoRow /\ request[s] = "none"
      /\ \A h \in Handlers : handler[h] = Idle
  BY DEF Init
<1> QED BY <1>1, InitType
        DEF IInv, PausesAreSound, PausedHasDeadline, ConnectingWasApproved,
            AcceptedWasGranted, WritesAreGranted, CreationIsExclusive,
            Exists, At, Idle, NoRow

LEMMA StepIInv == IInv /\ [Next]_vars => IInv'
<1> SUFFICES ASSUME IInv, [Next]_vars PROVE IInv'
  OBVIOUS
<1>1. TypeOK'
  BY TypeStep DEF IInv
<1>2. PausesAreSound'
  BY PausesStep DEF IInv
<1>3. CreationIsExclusive'
  BY CreationStep DEF IInv
<1>4. (ConnectingWasApproved /\ AcceptedWasGranted /\ WritesAreGranted)'
  BY ApprovalStep
<1> QED BY <1>1, <1>2, <1>3, <1>4 DEF IInv

LEMMA Invariance == Spec => []IInv
  BY InitIInv, StepIInv, PTL DEF Spec

\* A paused session always carries a deadline, so the sweeper can see it.
THEOREM PausedHasDeadlineAlways == Spec => []PausedHasDeadline
<1>1. IInv => PausedHasDeadline
  BY DEF IInv, PausesAreSound
<1> QED BY <1>1, Invariance, PTL

\* A session is connecting, or being promoted, only after an approval.
THEOREM ConnectingWasApprovedAlways == Spec => []ConnectingWasApproved
<1>1. IInv => ConnectingWasApproved
  BY DEF IInv
<1> QED BY <1>1, Invariance, PTL

\* The request table never claims an approval the session did not have.
THEOREM AcceptedWasGrantedAlways == Spec => []AcceptedWasGranted
<1>1. IInv => AcceptedWasGranted
  BY DEF IInv
<1> QED BY <1>1, Invariance, PTL

-----------------------------------------------------------------------------
(***************************************************************************)
(* One request of a session at a time.  Which decision counts, whether a    *)
(* verdict lasts and whether a pause is kept are promises the backend only  *)
(* keeps while no two requests about the same session are in flight: with   *)
(* two, each writes what it read.  What a handler read is then still so.    *)
(***************************************************************************)
OneAtATime ==
  \A g, h \in Handlers :
    ~At(g, "idle") /\ ~At(h, "idle") /\ handler[g].sid = handler[h].sid => g = h

\* Nobody has answered the request, or a failure has cut off the rejection
\* of an unroutable one.
Undecided(s) ==
  \/ request[s] = "requested"
  \/ request[s] = "rejected" /\ failures > 0

\* A row that was not decided has no decision, a pending one is undecided, and
\* a paused one is kept for as long as was promised.
RowFollows(s) ==
  /\ share[s].state \in {"absent", "pending_approval"} => applied[s] = 0
  /\ applied[s] <= 1
  /\ share[s].state = "pending_approval" =>
       \/ Undecided(s)
       \/ /\ request[s] = "rejected"
          /\ \E h \in Handlers : At(h, "unroute_session") /\ handler[h].sid = s
  /\ share[s].state = "paused" => lease[s] <= share[s].deadline

\* What a handler has read still holds of the row it is about to write.
HandlerFollows(h) ==
  LET s == handler[h].sid
      row == handler[h].row
  IN
  /\ At(h, "insert_session") =>
       \/ row.state = "pending_approval" /\ handler[h].verdict = "requested"
       \/ row.state = "connecting" /\ handler[h].verdict = "accepted"
  /\ At(h, "unroute_request") \/ (At(h, "route") /\ handler[h].verdict = "requested")
       => request[s] = "requested"
  /\ At(h, "write_decision") => share[s].state = "pending_approval" /\ Undecided(s)
  /\ At(h, "write_verdict") =>
       share[s].state \notin {"absent", "pending_approval"} /\ Undecided(s)
  /\ At(h, "write_control") =>
       /\ row.state = "pending_approval" => share[s].state = "pending_approval"
       /\ row.state = "paused" =>
            (IF handler[h].lease = 0 THEN lease[s] ELSE handler[h].lease) <= row.deadline

SerialInv ==
  /\ \A s \in Sessions : RowFollows(s)
  /\ \A h \in Handlers : HandlerFollows(h)

\* What a handler's slot holds when it starts.
LEMMA StartFields ==
  ASSUME TypeOK, NEW h \in Handlers, NEW pc, NEW s, NEW row, NEW verdict, NEW until,
         Start(h, pc, s, row, verdict, until)
  PROVE  /\ handler'[h].pc = pc /\ handler'[h].sid = s /\ handler'[h].row = row
         /\ handler'[h].verdict = verdict /\ handler'[h].lease = until
         /\ \A g \in Handlers \ {h} : handler'[g] = handler[g]
  BY DEF TypeOK, Start

\* The same when a handler goes on.
LEMMA GotoFields ==
  ASSUME TypeOK, NEW h \in Handlers, NEW pc, Goto(h, pc)
  PROVE  /\ handler'[h].pc = pc /\ handler'[h].sid = handler[h].sid
         /\ handler'[h].row = handler[h].row /\ handler'[h].verdict = handler[h].verdict
         /\ handler'[h].lease = handler[h].lease
         /\ \A g \in Handlers \ {h} : handler'[g] = handler[g]
  BY DEF TypeOK, Goto, Handler

\* The same of the state column.
LEMMA SetStateFields ==
  ASSUME TypeOK, NEW s \in Sessions, NEW st, SetState(s, st)
  PROVE  /\ share'[s].state = st /\ share'[s].deadline = share[s].deadline
         /\ \A x \in Sessions \ {s} : share'[x] = share[x]
  BY DEF TypeOK, SetState, Row

\* A step of a request disturbs neither the other sessions nor, as nobody
\* else serves its own, the other requests.
LEMMA SerialFrame ==
  ASSUME TypeOK, SerialInv, OneAtATime, OneAtATime',
         NEW h \in Handlers, NEW s \in Sessions,
         ~At(h, "idle") \/ ~At(h, "idle")',
         ~At(h, "idle") => handler[h].sid = s, ~At(h, "idle")' => handler'[h].sid = s,
         \A x \in Sessions \ {s} : /\ share'[x] = share[x] /\ request'[x] = request[x]
                                   /\ applied'[x] = applied[x] /\ lease'[x] = lease[x],
         \A g \in Handlers \ {h} : handler'[g] = handler[g],
         failures > 0 => failures' > 0,
         HandlerFollows(h)', RowFollows(s)'
  PROVE  SerialInv'
<1>1. ASSUME NEW g \in Handlers, g # h PROVE HandlerFollows(g)'
  <2>1. handler'[g] = handler[g] /\ HandlerFollows(g)
    BY <1>1 DEF SerialInv
  <2>2. CASE At(g, "idle")
    BY <2>1, <2>2 DEF HandlerFollows, At
  <2>3. CASE ~At(g, "idle")
    <3>1. PICK x \in Sessions : x = handler[g].sid
      BY <2>3 DEF TypeOK, Handler, At
    <3>2. ~At(g, "idle")'
      BY <2>1, <2>3 DEF At
    <3>3. x # s
      BY <1>1, <2>1, <2>3, <3>1, <3>2 DEF OneAtATime
    <3>4. share'[x] = share[x] /\ request'[x] = request[x] /\ lease'[x] = lease[x]
      BY <3>3
    <3>5. Undecided(x) => Undecided(x)'
      BY <3>4 DEF Undecided
    <3>6. QED
      BY <2>1, <3>1, <3>4, <3>5 DEF HandlerFollows, At
  <2>4. QED
    BY <2>2, <2>3
<1>2. ASSUME NEW x \in Sessions, x # s PROVE RowFollows(x)'
  <2>1. /\ share'[x] = share[x] /\ request'[x] = request[x]
        /\ applied'[x] = applied[x] /\ lease'[x] = lease[x] /\ RowFollows(x)
    BY <1>2 DEF SerialInv
  <2>2. Undecided(x) => Undecided(x)'
    BY <2>1 DEF Undecided
  <2>3. ASSUME NEW g \in Handlers, At(g, "unroute_session"), handler[g].sid = x
        PROVE  At(g, "unroute_session")' /\ handler'[g].sid = x
    BY <1>2, <2>3 DEF At
  <2>4. QED
    BY <2>1, <2>2, <2>3 DEF RowFollows
<1>3. QED
  BY <1>1, <1>2 DEF SerialInv

\* Where only h serves s, and it is not rejecting it, a pending row is
\* undecided.
LEMMA PendingUndecided ==
  ASSUME TypeOK, SerialInv, OneAtATime, NEW h \in Handlers, NEW s \in Sessions,
         ~At(h, "idle"), ~At(h, "unroute_session"), handler[h].sid = s,
         share[s].state = "pending_approval"
  PROVE  Undecided(s)
  BY DEF SerialInv, RowFollows, OneAtATime, At

\* The same of the request that begins.
LEMMA PendingUndecidedStart ==
  ASSUME TypeOK, SerialInv, OneAtATime', NEW h \in Handlers, NEW s \in Sessions,
         At(h, "idle"), ~At(h, "idle")', handler'[h].sid = s,
         \A g \in Handlers \ {h} : handler'[g] = handler[g],
         share[s].state = "pending_approval"
  PROVE  Undecided(s)
  BY DEF SerialInv, RowFollows, OneAtATime, At

\* A request that begins keeps the invariant.
LEMMA SerialStarts ==
  ASSUME IInv, SerialInv, OneAtATime, OneAtATime', NEW h \in Handlers, HandlerStart(h)
  PROVE  SerialInv'
<1> USE DEF env, history
<1>1. TypeOK
  BY DEF IInv
<1>2. ASSUME NEW s \in Sessions, InsertRequest(h, s) PROVE SerialInv'
  <2>1. PICK status, st :
          /\ \/ status = "accepted" /\ st = "connecting"
             \/ status = "requested" /\ st = "pending_approval"
          /\ request' = [request EXCEPT ![s] = status]
          /\ Start(h, "insert_session", s, [state |-> st, deadline |-> Null], status, 0)
    BY <1>2 DEF InsertRequest, SetRequest
  <2>2. /\ handler'[h].pc = "insert_session" /\ handler'[h].sid = s
        /\ handler'[h].row.state = st /\ handler'[h].verdict = status
        /\ \A g \in Handlers \ {h} : handler'[g] = handler[g]
    BY <1>1, <2>1, StartFields
  <2>3. At(h, "idle") /\ ~Exists(s) /\ UNCHANGED <<share, applied, lease, failures>>
    BY <1>2 DEF InsertRequest, IInv, CreationIsExclusive
  <2>4. HandlerFollows(h)'
    BY <2>1, <2>2 DEF HandlerFollows, At
  <2>5. RowFollows(s)'
    BY <2>3 DEF SerialInv, RowFollows, Exists
  <2>6. \A x \in Sessions \ {s} : request'[x] = request[x]
    BY <1>1, <2>1 DEF TypeOK
  <2>7. QED
    BY <1>1, <2>2, <2>3, <2>4, <2>5, <2>6, SerialFrame DEF At
<1>3. ASSUME NEW s \in Sessions, At(h, "idle"),
             UNCHANGED <<share, request, applied, lease, failures>>,
             ~At(h, "idle")', handler'[h].sid = s,
             \A g \in Handlers \ {h} : handler'[g] = handler[g],
             share[s].state = "pending_approval" => Undecided(s), HandlerFollows(h)'
      PROVE  SerialInv'
  <2>1. RowFollows(s)'
    <3>1. RowFollows(s) /\ (Undecided(s) => Undecided(s)')
      BY <1>3 DEF SerialInv, Undecided
    <3>2. QED
      BY <1>3, <3>1 DEF RowFollows
  <2>2. QED
    BY <1>1, <1>3, <2>1, SerialFrame
<1>4. ASSUME NEW s \in Sessions, NEW verdict \in {"accepted", "rejected"},
             SelectForDecision(h, s, verdict)
      PROVE  SerialInv'
  <2>1. /\ handler'[h].pc = "write_decision" /\ handler'[h].sid = s
        /\ \A g \in Handlers \ {h} : handler'[g] = handler[g]
    BY <1>1, <1>4, StartFields DEF SelectForDecision
  <2>2. /\ At(h, "idle") /\ share[s].state = "pending_approval"
        /\ UNCHANGED <<share, request, applied, lease, failures>>
    BY <1>4 DEF SelectForDecision
  <2>3. Undecided(s)
    BY <1>1, <2>1, <2>2, PendingUndecidedStart DEF At
  <2>4. HandlerFollows(h)'
    BY <2>1, <2>2, <2>3 DEF HandlerFollows, At, Undecided
  <2>5. QED
    BY <1>3, <2>1, <2>2, <2>3, <2>4 DEF At
<1>5. ASSUME NEW s \in Sessions, NEW op \in Mutators, SelectForControl(h, s, op)
      PROVE  SerialInv'
  <2>1. PICK row, until : /\ row = Mutated(op, share[s])
                          /\ until = IF op = "pause" THEN clock + PauseWindow ELSE 0
                          /\ Start(h, "write_control", s, row, "none", until)
    BY <1>5 DEF SelectForControl
  <2>2. /\ handler'[h].pc = "write_control" /\ handler'[h].sid = s
        /\ handler'[h].row = row /\ handler'[h].lease = until
        /\ \A g \in Handlers \ {h} : handler'[g] = handler[g]
    BY <1>1, <2>1, StartFields
  <2>3. At(h, "idle") /\ UNCHANGED <<share, request, applied, lease, failures>>
    BY <1>5 DEF SelectForControl
  <2>4. share[s].state = "pending_approval" => Undecided(s)
    BY <1>1, <2>2, <2>3, PendingUndecidedStart DEF At
  <2>5. /\ row.state = "pending_approval" => share[s].state = "pending_approval"
        /\ row.state = "paused" => (IF until = 0 THEN lease[s] ELSE until) <= row.deadline
    <3>1. CASE op = "pause"
      BY <1>1, <2>1, <3>1, PauseWindowAssumption DEF Mutated, TypeOK
    <3>2. CASE op # "pause"
      BY <2>1, <3>2 DEF Mutated, SerialInv, RowFollows
    <3>3. QED
      BY <3>1, <3>2
  <2>6. HandlerFollows(h)'
    BY <2>2, <2>3, <2>5 DEF HandlerFollows, At
  <2>7. QED
    BY <1>3, <2>2, <2>3, <2>4, <2>6 DEF At
<1>6. ASSUME NEW s \in Sessions, SelectForAnswer(h, s) PROVE SerialInv'
  <2>1. /\ handler'[h].pc = "promote" /\ handler'[h].sid = s
        /\ \A g \in Handlers \ {h} : handler'[g] = handler[g]
    BY <1>1, <1>6, StartFields DEF SelectForAnswer
  <2>2. /\ At(h, "idle") /\ share[s].state # "pending_approval"
        /\ UNCHANGED <<share, request, applied, lease, failures>>
    BY <1>6 DEF SelectForAnswer
  <2>3. HandlerFollows(h)'
    BY <2>1 DEF HandlerFollows, At
  <2>4. QED
    BY <1>3, <2>1, <2>2, <2>3 DEF At
<1>7. QED
  BY <1>2, <1>4, <1>5, <1>6 DEF HandlerStart

\* A handler that ends leaves everything to the others.
LEMMA SerialEnds ==
  ASSUME IInv, SerialInv, OneAtATime, OneAtATime', NEW h \in Handlers, ~At(h, "idle"),
         handler' = [handler EXCEPT ![h] = Idle],
         UNCHANGED <<share, request, applied, lease>>,
         \/ failures' > 0
         \/ UNCHANGED failures /\ At(h, "announce")
  PROVE  SerialInv'
<1>1. TypeOK
  BY DEF IInv
<1>2. PICK s \in Sessions : s = handler[h].sid
  BY <1>1 DEF TypeOK, Handler, At
<1>3. At(h, "idle")' /\ \A g \in Handlers \ {h} : handler'[g] = handler[g]
  BY <1>1 DEF TypeOK, At, Idle
<1>4. HandlerFollows(h)'
  BY <1>3 DEF HandlerFollows, At
<1>5. RowFollows(s)'
  <2>1. RowFollows(s) /\ (Undecided(s) => Undecided(s)')
    BY DEF SerialInv, Undecided
  <2>2. share'[s].state = "pending_approval" => Undecided(s)'
    <3>1. CASE failures' > 0
      BY <2>1, <3>1 DEF RowFollows, Undecided
    <3>2. CASE At(h, "announce")
      BY <1>1, <1>2, <2>1, <3>2, PendingUndecided DEF At
    <3>3. QED
      BY <3>1, <3>2
  <2>3. QED
    BY <2>1, <2>2 DEF RowFollows
<1>6. failures > 0 => failures' > 0
  OBVIOUS
<1>7. QED
  BY <1>1, <1>2, <1>3, <1>4, <1>5, <1>6, SerialFrame

\* So does each statement of a request.
LEMMA SerialSteps ==
  ASSUME IInv, SerialInv, OneAtATime, OneAtATime', NEW h \in Handlers, HandlerStep(h)
  PROVE  SerialInv'
<1> USE DEF env, history
<1>1. TypeOK /\ HandlerFollows(h) /\ ~At(h, "idle")
  BY DEF IInv, SerialInv, HandlerStep, InsertSession, Route, UnrouteRequest, UnrouteSession,
         WriteDecision, WriteVerdict, WriteControl, Promote, Announce, At
<1>2. PICK s \in Sessions : s = handler[h].sid
  BY <1>1 DEF TypeOK, Handler, At
<1>3. /\ share \in [Sessions -> Row] /\ request = [x \in Sessions |-> request[x]]
      /\ applied \in [Sessions -> 0..2] /\ lease \in [Sessions -> Nat] /\ RowFollows(s)
  BY <1>1 DEF TypeOK, SerialInv
<1>4. ASSUME NEW pc, pc # "idle", Goto(h, pc), UNCHANGED failures,
             \A x \in Sessions \ {s} : /\ share'[x] = share[x] /\ request'[x] = request[x]
                                       /\ applied'[x] = applied[x] /\ lease'[x] = lease[x],
             HandlerFollows(h)', RowFollows(s)'
      PROVE  SerialInv'
  <2>1. /\ handler'[h].pc = pc /\ handler'[h].sid = s
        /\ \A g \in Handlers \ {h} : handler'[g] = handler[g]
    BY <1>1, <1>2, <1>4, GotoFields
  <2>2. QED
    BY <1>1, <1>2, <1>4, <2>1, SerialFrame DEF At
<1>5. ASSUME NEW pc, Goto(h, pc)
      PROVE  /\ handler'[h].pc = pc /\ handler'[h].sid = s
             /\ handler'[h].row = handler[h].row /\ handler'[h].verdict = handler[h].verdict
             /\ handler'[h].lease = handler[h].lease
  BY <1>1, <1>2, <1>5, GotoFields
<1>6. CASE InsertSession(h)
  <2>1. /\ Goto(h, "route") /\ share' = [share EXCEPT ![s] = handler[h].row]
        /\ UNCHANGED <<request, applied, lease, failures>>
    BY <1>2, <1>6 DEF InsertSession
  <2>2. /\ ~Exists(s) /\ request[s] = handler[h].verdict
        /\ handler[h].row.state \in {"pending_approval", "connecting"}
        /\ handler[h].row.state = "pending_approval" => handler[h].verdict = "requested"
    BY <1>1, <1>2, <1>6 DEF IInv, CreationIsExclusive, InsertSession, HandlerFollows, At
  <2>3. HandlerFollows(h)'
    BY <1>5, <2>1, <2>2 DEF HandlerFollows, At
  <2>4. share'[s] = handler[h].row /\ \A x \in Sessions \ {s} : share'[x] = share[x]
    BY <1>3, <2>1
  <2>5. RowFollows(s)'
    BY <1>3, <2>1, <2>2, <2>4 DEF RowFollows, Exists, Undecided
  <2>6. QED
    BY <1>4, <2>1, <2>3, <2>4, <2>5
<1>7. CASE Route(h)
  <2>1. UNCHANGED <<share, request, applied, lease, failures>> /\ At(h, "route")
    BY <1>7 DEF Route
  <2>2. share[s].state = "pending_approval" => Undecided(s)
    BY <1>1, <1>2, <2>1, PendingUndecided DEF At
  <2>3. RowFollows(s)'
    BY <1>3, <2>1, <2>2 DEF RowFollows, Undecided
  <2>4. CASE Goto(h, "unroute_request") /\ handler[h].verdict = "requested"
    <3>1. HandlerFollows(h)'
      BY <1>1, <1>2, <1>5, <2>1, <2>4 DEF HandlerFollows, At
    <3>2. QED
      BY <1>4, <2>1, <2>3, <2>4, <3>1
  <2>5. CASE Goto(h, "announce")
    <3>1. HandlerFollows(h)'
      BY <1>5, <2>5 DEF HandlerFollows, At
    <3>2. QED
      BY <1>4, <2>1, <2>3, <2>5, <3>1
  <2>6. QED
    BY <1>7, <2>4, <2>5 DEF Route
<1>8. CASE UnrouteRequest(h)
  <2>1. /\ Goto(h, "unroute_session") /\ request' = [request EXCEPT ![s] = "rejected"]
        /\ UNCHANGED <<share, applied, lease, failures>>
    BY <1>2, <1>8 DEF UnrouteRequest, SetRequest
  <2>2. HandlerFollows(h)'
    BY <1>5, <2>1 DEF HandlerFollows, At
  <2>3. request'[s] = "rejected" /\ \A x \in Sessions \ {s} : request'[x] = request[x]
    BY <1>3, <2>1
  <2>4. At(h, "unroute_session")' /\ handler'[h].sid = s
    BY <1>5, <2>1 DEF At
  <2>5. RowFollows(s)'
    BY <1>3, <2>1, <2>3, <2>4 DEF RowFollows
  <2>6. QED
    BY <1>4, <2>1, <2>2, <2>3, <2>5
<1>9. CASE UnrouteSession(h)
  <2>1. /\ Goto(h, "announce") /\ SetState(s, "terminated")
        /\ UNCHANGED <<request, applied, lease, failures>>
    BY <1>2, <1>9 DEF UnrouteSession
  <2>2. HandlerFollows(h)'
    BY <1>5, <2>1 DEF HandlerFollows, At
  <2>3. share'[s].state = "terminated" /\ \A x \in Sessions \ {s} : share'[x] = share[x]
    BY <1>1, <2>1, SetStateFields
  <2>4. RowFollows(s)'
    BY <1>3, <2>1, <2>3 DEF RowFollows
  <2>5. QED
    BY <1>4, <2>1, <2>2, <2>3, <2>4
<1>10. CASE WriteDecision(h)
  <2>1. PICK st \in {"connecting", "terminated"} :
          /\ Goto(h, "write_verdict") /\ SetState(s, st)
          /\ applied' = [applied EXCEPT ![s] = IF @ < 2 THEN @ + 1 ELSE @]
          /\ UNCHANGED <<request, lease, failures>>
    BY <1>2, <1>10 DEF WriteDecision
  <2>2. share[s].state = "pending_approval" /\ Undecided(s)
    BY <1>1, <1>2, <1>10 DEF WriteDecision, HandlerFollows, At
  <2>3. share'[s].state = st /\ \A x \in Sessions \ {s} : share'[x] = share[x]
    BY <1>1, <2>1, SetStateFields
  <2>4. HandlerFollows(h)'
    BY <1>5, <2>1, <2>2, <2>3 DEF HandlerFollows, At, Undecided
  <2>5. applied'[s] = 1 /\ \A x \in Sessions \ {s} : applied'[x] = applied[x]
    <3>1. applied[s] = 0
      BY <1>3, <2>2 DEF RowFollows
    <3>2. QED
      BY <1>3, <2>1, <3>1
  <2>6. RowFollows(s)'
    BY <1>3, <2>1, <2>3, <2>5 DEF RowFollows
  <2>7. QED
    BY <1>4, <2>1, <2>3, <2>4, <2>5, <2>6
<1>11. CASE WriteVerdict(h)
  <2>1. /\ Goto(h, "announce") /\ request' = [request EXCEPT ![s] = handler[h].verdict]
        /\ UNCHANGED <<share, applied, lease, failures>>
    BY <1>2, <1>11 DEF WriteVerdict, SetRequest
  <2>2. share[s].state \notin {"absent", "pending_approval"}
    BY <1>1, <1>2, <1>11 DEF WriteVerdict, HandlerFollows, At
  <2>3. HandlerFollows(h)'
    BY <1>5, <2>1 DEF HandlerFollows, At
  <2>4. RowFollows(s)'
    BY <1>3, <2>1, <2>2 DEF RowFollows
  <2>5. \A x \in Sessions \ {s} : request'[x] = request[x]
    BY <1>3, <2>1
  <2>6. QED
    BY <1>4, <2>1, <2>3, <2>4, <2>5
<1>12. CASE WriteControl(h)
  <2>1. /\ Goto(h, "announce") /\ share' = [share EXCEPT ![s] = handler[h].row]
        /\ lease' = [lease EXCEPT ![s] = IF handler[h].lease = 0 THEN @ ELSE handler[h].lease]
        /\ UNCHANGED <<request, applied, failures>> /\ At(h, "write_control")
    BY <1>2, <1>12 DEF WriteControl
  <2>2. HandlerFollows(h)'
    BY <1>5, <2>1 DEF HandlerFollows, At
  <2>3. share'[s] = handler[h].row /\ \A x \in Sessions \ {s} : share'[x] = share[x]
    BY <1>3, <2>1
  <2>4. /\ lease'[s] = IF handler[h].lease = 0 THEN lease[s] ELSE handler[h].lease
        /\ \A x \in Sessions \ {s} : lease'[x] = lease[x]
    BY <1>3, <2>1
  <2>5. /\ handler[h].row.state # "absent"
        /\ handler[h].row.state = "pending_approval"
             => share[s].state = "pending_approval" /\ Undecided(s)
        /\ handler[h].row.state = "paused" => lease'[s] <= handler[h].row.deadline
    <3>1. share[s].state = "pending_approval" => Undecided(s)
      BY <1>1, <1>2, <2>1, PendingUndecided DEF At
    <3>2. QED
      BY <1>1, <1>2, <2>1, <2>4, <3>1 DEF HandlerFollows, IInv, CreationIsExclusive
  <2>6. RowFollows(s)'
    BY <1>3, <2>1, <2>3, <2>5 DEF RowFollows, Undecided
  <2>7. QED
    BY <1>4, <2>1, <2>2, <2>3, <2>4, <2>6
<1>13. CASE Promote(h)
  <2>1. /\ Goto(h, "announce")
        /\ share' = [share EXCEPT ![s] = [state |-> "streaming", deadline |-> Null]]
        /\ UNCHANGED <<request, applied, lease, failures>>
    BY <1>2, <1>13 DEF Promote
  <2>2. HandlerFollows(h)'
    BY <1>5, <2>1 DEF HandlerFollows, At
  <2>3. share'[s].state = "streaming" /\ \A x \in Sessions \ {s} : share'[x] = share[x]
    BY <1>3, <2>1
  <2>4. RowFollows(s)'
    BY <1>3, <2>1, <2>3 DEF RowFollows
  <2>5. QED
    BY <1>4, <2>1, <2>2, <2>3, <2>4
<1>14. CASE Announce(h)
  BY <1>1, <1>14, SerialEnds DEF Announce
<1>15. QED
  BY <1>6, <1>7, <1>8, <1>9, <1>10, <1>11, <1>12, <1>13, <1>14 DEF HandlerStep

\* The sweeper ends paused sessions only, and no request reads them as such.
LEMMA SerialSweep ==
  ASSUME IInv, SerialInv, OneAtATime, SweepUpdate PROVE SerialInv'
<1>1. /\ UNCHANGED <<request, handler, applied, lease, failures>>
      /\ \A s \in Sessions : \/ share'[s] = share[s]
                             \/ share[s].state = "paused" /\ share'[s].state = "terminated"
  BY DEF SweepUpdate, Expired, env, history
<1>2. \A s \in Sessions : Undecided(s)' <=> Undecided(s)
  BY <1>1 DEF Undecided
<1>3. ASSUME NEW s \in Sessions PROVE RowFollows(s)'
  BY <1>1, <1>2 DEF SerialInv, RowFollows, At
<1>4. ASSUME NEW h \in Handlers PROVE HandlerFollows(h)'
  <2>1. HandlerFollows(h)
    BY DEF SerialInv
  <2>2. CASE At(h, "idle")
    BY <1>1, <2>2 DEF HandlerFollows, At
  <2>3. CASE ~At(h, "idle")
    <3>1. PICK s \in Sessions : s = handler[h].sid
      BY <2>3 DEF IInv, TypeOK, Handler, At
    <3>2. \/ share'[s] = share[s]
          \/ share[s].state = "paused" /\ share'[s].state = "terminated"
      BY <1>1
    <3>3. QED
      BY <1>1, <1>2, <2>1, <3>1, <3>2 DEF HandlerFollows, At
  <2>4. QED
    BY <2>2, <2>3
<1>5. QED
  BY <1>3, <1>4 DEF SerialInv

\* A restart leaves no request, and what was torn stays undecided.
LEMMA SerialRestart ==
  ASSUME IInv, SerialInv, Restart PROVE SerialInv'
<1>1. /\ failures' > 0 /\ UNCHANGED <<share, request, applied, lease>>
      /\ \A h \in Handlers : At(h, "idle")'
  BY DEF Restart, IInv, TypeOK, history, At, Idle
<1>2. ASSUME NEW s \in Sessions PROVE RowFollows(s)'
  <2>1. RowFollows(s)
    BY DEF SerialInv
  <2>2. share'[s].state = "pending_approval" => Undecided(s)'
    BY <1>1, <2>1 DEF RowFollows, Undecided
  <2>3. QED
    BY <1>1, <2>1, <2>2 DEF RowFollows
<1>3. ASSUME NEW h \in Handlers PROVE HandlerFollows(h)'
  BY <1>1 DEF HandlerFollows, At
<1>4. QED
  BY <1>2, <1>3 DEF SerialInv

\* Initially there is nothing to follow.
LEMMA SerialInit == Init => SerialInv
<1>1. ASSUME Init PROVE SerialInv
  <2>1. /\ \A s \in Sessions : share[s] = NoRow /\ applied[s] = 0
        /\ \A h \in Handlers : handler[h] = Idle
    BY <1>1 DEF Init
  <2>2. QED
    BY <2>1 DEF SerialInv, RowFollows, HandlerFollows, At, Idle, NoRow
<1>2. QED
  BY <1>1

\* Every step keeps the invariant, as long as requests come one at a time.
LEMMA SerialStep ==
  ASSUME IInv, SerialInv, OneAtATime, OneAtATime', [Next]_vars PROVE SerialInv'
<1> USE DEF env, history
<1>1. ASSUME NEW h \in Handlers, Fail(h) PROVE SerialInv'
  <2>1. failures' > 0
    BY <1>1 DEF Fail, IInv, TypeOK
  <2>2. QED
    BY <1>1, <2>1, SerialEnds DEF Fail
<1>2. ASSUME UNCHANGED <<share, request, handler, applied, lease>>,
             failures > 0 => failures' > 0
      PROVE  SerialInv'
  <2>1. \A s \in Sessions : Undecided(s) => Undecided(s)'
    BY <1>2 DEF Undecided
  <2>2. ASSUME NEW s \in Sessions PROVE RowFollows(s)'
    BY <1>2, <2>1 DEF SerialInv, RowFollows, At
  <2>3. ASSUME NEW h \in Handlers PROVE HandlerFollows(h)'
    <3>1. HandlerFollows(h)
      BY DEF SerialInv
    <3>2. CASE At(h, "idle")
      BY <1>2, <3>2 DEF HandlerFollows, At
    <3>3. CASE ~At(h, "idle")
      <4>1. PICK s \in Sessions : s = handler[h].sid
        BY <3>3 DEF IInv, TypeOK, Handler, At
      <4>2. QED
        BY <1>2, <2>1, <3>1, <4>1 DEF HandlerFollows, At
    <3>4. QED
      BY <3>2, <3>3
  <2>4. QED
    BY <2>2, <2>3 DEF SerialInv
<1>3. CASE SweepFail
  <2>1. failures' > 0
    BY <1>3 DEF SweepFail, IInv, TypeOK
  <2>2. QED
    BY <1>2, <1>3, <2>1 DEF SweepFail
<1>4. CASE \/ Tick \/ Subscription \/ (\E s \in Sessions : SweepAnnounce(s)) \/ UNCHANGED vars
  BY <1>2, <1>4 DEF Tick, Subscription, SweepAnnounce, vars
<1>5. QED
  BY <1>1, <1>3, <1>4, SerialStarts, SerialSteps, SerialSweep, SerialRestart DEF Next, Sweeper

\* So it holds in every state of such a behaviour.
LEMMA SerialInvariance == Spec /\ []OneAtATime => []SerialInv
  BY SerialInit, SerialStep, Invariance, PTL DEF Spec

\* As long as the requests about a session come one at a time, at most one
\* decision takes effect on it.
THEOREM DecisionAppliedOnceSerial == Spec /\ []OneAtATime => []DecisionAppliedOnce
<1>1. SerialInv => DecisionAppliedOnce
  BY DEF SerialInv, RowFollows, DecisionAppliedOnce
<1>2. QED
  BY <1>1, SerialInvariance, PTL

\* The same for verdicts: an accepted request stays accepted, and a rejected one is
\* accepted only after a failure has torn a rejection in two.
THEOREM VerdictFinalSerial == Spec /\ []OneAtATime => VerdictFinal
<1> DEFINE Final == \A s \in Sessions :
      /\ request[s] = "accepted" => request'[s] = "accepted"
      /\ request[s] = "rejected" /\ failures = 0 => request'[s] = "rejected"
<1>1. ASSUME IInv, SerialInv, [Next]_vars PROVE Final \/ UNCHANGED vars
  <2>1. request = [s \in Sessions |-> request[s]] /\ (failures > 0 => failures # 0)
    BY <1>1 DEF IInv, TypeOK
  <2>2. ASSUME NEW h \in Handlers, NEW s \in Sessions, InsertRequest(h, s) PROVE Final
    BY <2>1, <2>2 DEF InsertRequest, SetRequest
  <2>3. ASSUME NEW h \in Handlers, UnrouteRequest(h) PROVE Final
    <3>1. request[handler[h].sid] = "requested"
      BY <1>1, <2>3 DEF UnrouteRequest, SerialInv, HandlerFollows
    <3>2. QED
      BY <2>1, <2>3, <3>1 DEF UnrouteRequest, SetRequest
  <2>4. ASSUME NEW h \in Handlers, WriteVerdict(h) PROVE Final
    <3>1. Undecided(handler[h].sid)
      BY <1>1, <2>4 DEF WriteVerdict, SerialInv, HandlerFollows
    <3>2. QED
      BY <2>1, <2>4, <3>1 DEF WriteVerdict, SetRequest, Undecided
  <2>5. CASE UNCHANGED request
    BY <2>5
  <2>6. QED
    BY <1>1, <2>2, <2>3, <2>4, <2>5
       DEF Next, HandlerStart, HandlerStep, SelectForDecision, SelectForControl, SelectForAnswer,
           InsertSession, Route, UnrouteSession, WriteDecision, WriteControl, Promote, Announce,
           Fail, Restart, Sweeper, SweepUpdate, SweepFail, SweepAnnounce, Tick, Subscription, vars
<1>2. QED
  BY <1>1, Invariance, SerialInvariance, PTL DEF Spec, VerdictFinal

\* And for pauses: the sweeper ends a session only when the time that the last pause
\* promised to keep it is over.
THEOREM KeepAliveSerial == Spec /\ []OneAtATime => KeepAlive
<1> DEFINE Kept == \A s \in sweep' \ sweep : lease[s] <= clock
<1>1. ASSUME IInv, SerialInv, [Next]_vars PROVE Kept \/ UNCHANGED vars
  <2>1. ASSUME SweepUpdate PROVE Kept
    <3>1. SUFFICES ASSUME NEW s \in Sessions, Expired(s) PROVE lease[s] <= clock
      BY <2>1 DEF SweepUpdate
    <3>2. share[s].state = "paused" /\ share[s].deadline <= clock /\ lease[s] <= share[s].deadline
      BY <1>1, <3>1 DEF Expired, SerialInv, RowFollows
    <3>3. share[s].deadline \in Nat /\ clock \in Nat /\ lease[s] \in Nat
      BY <1>1, <3>1 DEF IInv, TypeOK, Row, Expired
    <3>4. QED
      BY <3>2, <3>3
  <2>2. CASE sweep' \subseteq sweep
    BY <2>2
  <2>3. QED
    BY <1>1, <2>1, <2>2
       DEF Next, HandlerStart, HandlerStep, InsertRequest, SelectForDecision, SelectForControl,
           SelectForAnswer, InsertSession, Route, UnrouteRequest, UnrouteSession, WriteDecision,
           WriteVerdict, WriteControl, Promote, Announce, Fail, Restart, Sweeper, SweepFail,
           SweepAnnounce, Tick, Subscription, vars
<1>2. QED
  BY <1>1, Invariance, SerialInvariance, PTL DEF Spec, KeepAlive
=============================================================================
