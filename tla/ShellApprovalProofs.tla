------------------------ MODULE ShellApprovalProofs ------------------------
(* Proofs about ShellApproval, and about the rules that lasting answers     *)
(* leave behind (ShellRules), for every set of requests and endpoints and   *)
(* every value of the bounds.  Types and NeverStranded are proved in both   *)
(* modes; that the endpoints agree, and that the agent obeys them, is       *)
(* proved of sessions that are not mirrored (with a mirror it is false), as *)
(* is the refinement of OneShotDecision.                                    *)
EXTENDS ShellApproval, FiniteSetTheorems, WellFoundedInduction, TLAPS

\* Without a mirror nothing comes from the backend or goes to it.
Quiet ==
  /\ stream = <<>> /\ ~connected /\ ~receiver.busy /\ phone = {}
  /\ \A r \in Requests : mirror[r] # "post"
  /\ \A e \in Endpoints : ~At(e, "sync")

\* A request is unregistered, pending, held by one handler or resolved, and
\* never two of these: the right to answer it is a token.
TokenIsUnique ==
  \A r \in Requests :
    /\ r \in pending => Registered(r)
    /\ resolved[r] # None => Registered(r) /\ r \notin pending
    /\ \A e \in Endpoints : Holds(e, r) =>
         /\ Registered(r) /\ r \notin pending /\ resolved[r] = None
         /\ \A f \in Endpoints : Holds(f, r) => f = e

\* What endpoints were told is what is stored.
AckedIsResolved ==
  \A r \in Requests :
    /\ resolved[r] = None => acked[r] = {}
    /\ resolved[r] # None => acked[r] = {resolved[r]}

\* The stored resolution is this decision; or the TUI's user has aborted.
SaysSo(r, d) == IF d = "abort" THEN overlay[r] = "aborted" ELSE resolved[r] = d

\* What the TUI was told by its poller, or handed on, is what is stored, but
\* for the aborts of its own overlay.
ToldIsResolved ==
  /\ \A i \in 1..Len(queue) :
       ~queue[i].sync => SaysSo(queue[i].req, queue[i].decision)
  /\ \A r \in Requests : \A i \in 1..Len(submitted[r]) : SaysSo(r, submitted[r][i])

\* A rule outlives the handler that saved it only in a resolution.
RuleIsAccounted ==
  \A r \in Requests : rule[r] # None =>
    \/ resolved[r] = rule[r]
    \/ \E e \in Endpoints :
         /\ Holds(e, r)
         /\ caller[e].pc \in {"settle", "store"}
         /\ caller[e].decision = rule[r]

LocalInv ==
  /\ TypeOK
  /\ Quiet
  /\ TokenIsUnique
  /\ AckedIsResolved
  /\ ToldIsResolved
  /\ RuleIsAccounted

-----------------------------------------------------------------------------
(* Type correctness                                                        *)

\* A handler's step keeps its request, its decision and its scope.
LEMMA StepType ==
  ASSUME NEW e \in Endpoints, caller \in [Endpoints -> Caller],
         NEW pc \in CallerPC, ~At(e, "idle"), Step(e, pc)
  PROVE  caller' \in [Endpoints -> Caller]
<1>1. caller[e] \in Caller /\ caller[e].req \in Requests
                           /\ caller[e].decision \in Decision
  BY DEF Caller, At
<1>2. [caller[e] EXCEPT !.pc = pc] \in Caller
  BY <1>1 DEF Caller
<1>3. caller' = [caller EXCEPT ![e] = [caller[e] EXCEPT !.pc = pc]]
  BY DEF Step
<1> QED BY <1>2, <1>3

LEMMA IdleCallerType == IdleCaller \in Caller
  BY DEF IdleCaller, Caller, CallerPC, Scope

LEMMA ReleaseType ==
  ASSUME NEW e \in Endpoints, caller \in [Endpoints -> Caller], Release(e)
  PROVE  caller' \in [Endpoints -> Caller]
  BY IdleCallerType DEF Release

\* The stream stays a sequence of events, whatever becomes of the event.
LEMMA PublishType ==
  ASSUME NEW event \in Event, stream \in Seq(Event), connected \in BOOLEAN,
         Publish(event)
  PROVE  stream' \in Seq(Event) /\ connected' \in BOOLEAN
<1>1. stream' = stream \/ stream' = Append(stream, event) \/ stream' = <<>>
  BY DEF Publish
<1>2. Append(stream, event) \in Seq(Event)
  OBVIOUS
<1>3. stream' \in Seq(Event)
  <2>1. <<>> \in Seq(Event)
    OBVIOUS
  <2> QED BY <1>1, <1>2, <2>1
<1>4. connected' = connected \/ connected' = FALSE
  BY DEF Publish
<1> QED BY <1>3, <1>4

LEMMA FailureType ==
  ASSUME failures \in 0..MaxFailures, MayFail
  PROVE  failures' \in 0..MaxFailures
  BY BoundsAssumption DEF MayFail

\* A handler that is under way works on a request and a decision.
LEMMA BusyCaller ==
  ASSUME TypeOK, NEW e \in Endpoints, ~At(e, "idle")
  PROVE  /\ caller[e] \in Caller
         /\ caller[e].req \in Requests
         /\ caller[e].decision \in Decision
  BY DEF TypeOK, Caller, At

LEMMA InitType == Init => TypeOK
<1> SUFFICES ASSUME Init PROVE TypeOK
  OBVIOUS
<1>1. caller \in [Endpoints -> Caller]
  BY IdleCallerType DEF Init
<1>2. receiver \in Receiver /\ ~receiver.busy
  BY DEF Init, Receiver
<1>3. connected \in BOOLEAN
  BY ModeAssumption DEF Init
<1>4. failures \in 0..MaxFailures
  BY BoundsAssumption DEF Init
<1> QED BY <1>1, <1>2, <1>3, <1>4 DEF Init, TypeOK, MirrorPC, Overlay

LEMMA TypeStep == TypeOK /\ [Next]_vars => TypeOK'
<1> SUFFICES ASSUME TypeOK, [Next]_vars PROVE TypeOK'
  OBVIOUS
<1> USE DEF registry, tui, backend
<1>1. ASSUME NEW r \in Requests, Register(r) PROVE TypeOK'
  <2>1. CASE UpsertClear(r)
    BY <2>1 DEF UpsertClear, TypeOK, MirrorPC
  <2>2. CASE UpsertInsert(r)
    BY <2>2 DEF UpsertInsert, TypeOK, MirrorPC
  <2>3. CASE PostRequest(r)
    <3>1. [req |-> r, decision |-> None] \in Event
      BY DEF Event
    <3>2. /\ stream' \in Seq(Event) /\ connected' \in BOOLEAN
          /\ phone' \subseteq Requests
          /\ failures' \in 0..MaxFailures
      BY <2>3, <3>1, PublishType, FailureType DEF PostRequest, TypeOK
    <3> QED BY <2>3, <3>2 DEF PostRequest, TypeOK, MirrorPC
  <2> QED BY <1>1, <2>1, <2>2, <2>3 DEF Register
<1>2. ASSUME NEW r \in Requests, Poll(r) PROVE TypeOK'
  <2>1. [req |-> r, decision |-> resolved[r], sync |-> FALSE] \in TuiEvent
    BY <1>2 DEF Poll, TuiEvent, TypeOK, Decision, Told
  <2>2. queue' \in Seq(TuiEvent)
    BY <1>2, <2>1 DEF Poll, TypeOK
  <2> QED BY <1>2, <2>2 DEF Poll, TypeOK, MirrorPC
<1>11. ASSUME NEW r \in Requests, CreateFails(r) \/ PollFails(r) PROVE TypeOK'
  <2>1. failures' \in 0..MaxFailures
    BY <1>11, FailureType DEF CreateFails, PollFails, TypeOK
  <2>2. mirror' \in [Requests -> MirrorPC]
    BY <1>11 DEF CreateFails, PollFails, TypeOK, MirrorPC
  <2> QED BY <1>11, <2>1, <2>2 DEF CreateFails, PollFails, TypeOK
<1>3. ASSUME NEW e \in Endpoints, Advance(e) PROVE TypeOK'
  <2>1. ~At(e, "idle")
    BY <1>3 DEF Advance, Persist, Sync, Settle, Store, RestoreClear,
                RestoreInsert, At
  <2>2. /\ caller[e] \in Caller /\ caller[e].req \in Requests
        /\ caller[e].decision \in Decision
    BY <2>1, BusyCaller
  <2>3. CASE Persist(e)
    <3>1. \E pc \in CallerPC : Step(e, pc)
      BY <2>3 DEF Persist, CallerPC
    <3>2. caller' \in [Endpoints -> Caller]
      BY <2>1, <3>1, StepType DEF TypeOK
    <3>3. failures' \in 0..MaxFailures
      BY <2>3, FailureType DEF Persist, TypeOK
    <3>4. rule' \in [Requests -> Decision \cup {None}]
      BY <2>2, <2>3 DEF Persist, TypeOK
    <3> QED BY <2>3, <3>2, <3>3, <3>4 DEF Persist, TypeOK
  <2>4. CASE Sync(e)
    <3>1. \E pc \in CallerPC : Step(e, pc)
      BY <2>4 DEF Sync, CallerPC
    <3>2. caller' \in [Endpoints -> Caller]
      BY <2>1, <3>1, StepType DEF TypeOK
    <3>3. failures' \in 0..MaxFailures
      BY <2>4, FailureType DEF Sync, TypeOK
    <3>4. [req |-> caller[e].req, decision |-> caller[e].decision] \in Event
      BY <2>2 DEF Event
    <3>5. stream' \in Seq(Event) /\ connected' \in BOOLEAN
      BY <2>4, <3>4, PublishType DEF Sync, TypeOK
    <3> QED BY <2>4, <3>2, <3>3, <3>5 DEF Sync, TypeOK
  <2>5. CASE Settle(e)
    <3>1. caller' \in [Endpoints -> Caller]
      BY <2>1, <2>5, StepType DEF Settle, CallerPC, TypeOK
    <3> QED BY <2>5, <3>1 DEF Settle, TypeOK
  <2>6. CASE Store(e)
    <3>1. caller' \in [Endpoints -> Caller]
      BY <2>6, ReleaseType DEF Store, TypeOK
    <3>2. submitted' \in [Requests -> Seq(Told)]
      BY <2>2, <2>6 DEF Store, TypeOK, Told
    <3>3. /\ resolved' \in [Requests -> Decision \cup {None}]
          /\ acked' \in [Requests -> SUBSET Decision]
      BY <2>2, <2>6 DEF Store, TypeOK
    <3> QED BY <2>6, <3>1, <3>2, <3>3 DEF Store, TypeOK
  <2>7. CASE RestoreClear(e)
    <3>1. caller' \in [Endpoints -> Caller]
      BY <2>1, <2>7, StepType DEF RestoreClear, CallerPC, TypeOK
    <3> QED BY <2>7, <3>1 DEF RestoreClear, TypeOK
  <2>8. CASE RestoreInsert(e)
    <3>1. caller' \in [Endpoints -> Caller]
      BY <2>8, ReleaseType DEF RestoreInsert, TypeOK
    <3> QED BY <2>2, <2>8, <3>1 DEF RestoreInsert, TypeOK
  <2> QED BY <1>3, <2>3, <2>4, <2>5, <2>6, <2>7, <2>8 DEF Advance
<1>4. CASE Choices
  <2>1. ASSUME NEW e \in Endpoints, NEW r \in Requests, NEW d \in Decision,
               NEW scope \in Scope, Claim(e, r, d, scope)
        PROVE  TypeOK'
    <3>1. [pc |-> "persist", req |-> r, decision |-> d, scope |-> scope] \in Caller
      BY DEF Caller, CallerPC
    <3>2. caller' \in [Endpoints -> Caller]
      BY <2>1, <3>1 DEF Claim, TypeOK
    <3> QED BY <2>1, <3>2 DEF Claim, TypeOK
  <2>2. ASSUME NEW r \in Requests, NEW d \in Decision, PhoneAnswer(r, d)
        PROVE  TypeOK'
    <3>1. [req |-> r, decision |-> d] \in Event
      BY DEF Event
    <3>2. stream' \in Seq(Event) /\ connected' \in BOOLEAN
      BY <2>2, <3>1, PublishType DEF PhoneAnswer, TypeOK
    <3> QED BY <2>2, <3>2 DEF PhoneAnswer, TypeOK
  <2>3. ASSUME NEW r \in Requests, NEW d \in Decision, OverlayAnswer(r, d)
        PROVE  TypeOK'
    <3>1. [req |-> r, decision |-> d, sync |-> TRUE] \in TuiEvent
      BY DEF TuiEvent, Decision, Told
    <3>2. queue' \in Seq(TuiEvent)
      BY <2>3, <3>1 DEF OverlayAnswer, TypeOK
    <3> QED BY <2>3, <3>2 DEF OverlayAnswer, TypeOK, Overlay
  <2>4. ASSUME NEW e \in Endpoints, NEW r \in Requests, ClaimUnoffered(e, r)
        PROVE  TypeOK'
    <3>1. failures' \in 0..MaxFailures
      BY <2>4, FailureType DEF ClaimUnoffered, TypeOK
    <3> QED BY <2>4, <3>1 DEF ClaimUnoffered, TypeOK
  <2>5. ASSUME NEW r \in Requests, OverlayAbort(r) PROVE TypeOK'
    <3>1. [req |-> r, decision |-> "abort", sync |-> FALSE] \in TuiEvent
      BY DEF TuiEvent, Told
    <3>2. queue' \in Seq(TuiEvent)
      BY <2>5, <3>1 DEF OverlayAbort, TypeOK
    <3>3. overlay' \in [Requests -> Overlay]
      BY <2>5 DEF OverlayAbort, TypeOK, Overlay
    <3> QED BY <2>5, <3>2, <3>3 DEF OverlayAbort, TypeOK
  <2> QED BY <1>4, <2>1, <2>2, <2>3, <2>4, <2>5 DEF Choices
<1>5. CASE TuiLoop
  <2>1. queue # <<>> /\ queue \in Seq(TuiEvent)
    BY <1>5 DEF TuiLoop, HandleLocal, HandleResolution, HandleAbort, TypeOK
  <2>2. /\ Head(queue) \in TuiEvent /\ Tail(queue) \in Seq(TuiEvent)
        /\ Head(queue).req \in Requests /\ Head(queue).decision \in Told
        /\ Head(queue).sync => Head(queue).decision \in Decision
    <3>1. Head(queue) \in TuiEvent /\ Tail(queue) \in Seq(TuiEvent)
      BY <2>1
    <3> QED BY <3>1 DEF TuiEvent, Told
  <2>3. ASSUME NEW scope \in Scope, HandleLocal(scope) PROVE TypeOK'
    <3>1. [pc |-> "persist", req |-> Head(queue).req,
           decision |-> Head(queue).decision, scope |-> scope] \in Caller
      BY <2>2, <2>3 DEF HandleLocal, Caller, CallerPC
    <3>2. caller' \in [Endpoints -> Caller]
      BY <2>3, <3>1, TuiAssumption DEF HandleLocal, TypeOK
    <3> QED BY <2>2, <2>3, <3>2 DEF HandleLocal, TypeOK
  <2>4. CASE HandleResolution
    <3>1. submitted' \in [Requests -> Seq(Told)]
      <4>1. Append(submitted[Head(queue).req], Head(queue).decision)
              \in Seq(Told)
        BY <2>2 DEF TypeOK
      <4>2. \/ submitted' = submitted
            \/ submitted' = [submitted EXCEPT ![Head(queue).req] =
                 Append(submitted[Head(queue).req], Head(queue).decision)]
        BY <2>4 DEF HandleResolution
      <4> QED BY <2>2, <4>1, <4>2 DEF TypeOK
    <3>2. overlay' \in [Requests -> Overlay]
      <4>1. \/ overlay' = overlay
            \/ overlay' = [overlay EXCEPT ![Head(queue).req] =
                             IF @ = "open" THEN "closed" ELSE @]
        BY <2>4 DEF HandleResolution
      <4>2. overlay \in [Requests -> Overlay] /\ "closed" \in Overlay
        BY DEF TypeOK, Overlay
      <4> QED BY <4>1, <4>2
    <3>3. local' \subseteq Requests
      BY <2>2, <2>4 DEF HandleResolution, TypeOK
    <3> QED BY <2>2, <2>4, <3>1, <3>2, <3>3 DEF HandleResolution, TypeOK
  <2>5. CASE HandleAbort
    <3>1. Append(submitted[Head(queue).req], "abort") \in Seq(Told)
      BY <2>2 DEF TypeOK, Told
    <3>2. submitted' \in [Requests -> Seq(Told)]
      BY <2>2, <2>5, <3>1 DEF HandleAbort, TypeOK
    <3> QED BY <2>2, <2>5, <3>2 DEF HandleAbort, TypeOK
  <2> QED BY <1>5, <2>3, <2>4, <2>5 DEF TuiLoop
<1>6. CASE Receive
  <2>1. Head(stream) \in Event /\ Tail(stream) \in Seq(Event)
    <3>1. stream # <<>> /\ stream \in Seq(Event)
      BY <1>6 DEF Receive, TypeOK
    <3> QED BY <3>1
  <2>2. receiver' \in Receiver /\ receiver'.event \in Event
    BY <1>6, <2>1 DEF Receive, Receiver
  <2>3. Head(stream).req \in Requests /\ Head(stream).decision \in Decision \cup {None}
    BY <2>1 DEF Event
  <2>4. pending' \subseteq Requests
    BY <1>6, <2>3 DEF Receive, TypeOK
  <2>5. resolved' \in [Requests -> Decision \cup {None}]
    BY <1>6, <2>3 DEF Receive, TypeOK
  <2> QED BY <1>6, <2>1, <2>2, <2>4, <2>5 DEF Receive, TypeOK
<1>7. CASE Apply
  <2>1. receiver.event \in Event
    BY <1>7 DEF Apply, TypeOK
  <2>2. receiver' \in Receiver /\ ~receiver'.busy
    BY <1>7 DEF Apply, Receiver
  <2>3. receiver.event.req \in Requests /\ receiver.event.decision \in Decision \cup {None}
    BY <2>1 DEF Event
  <2>4. pending' \subseteq Requests
    BY <1>7, <2>3 DEF Apply, TypeOK
  <2>5. resolved' \in [Requests -> Decision \cup {None}]
    BY <1>7, <2>3 DEF Apply, TypeOK
  <2> QED BY <1>7, <2>2, <2>4, <2>5 DEF Apply, TypeOK
<1>8. CASE Disconnect
  <2>1. failures' \in 0..MaxFailures
    BY <1>8, FailureType DEF Disconnect, TypeOK
  <2>2. stream' \in Seq(Event)
    BY <1>8 DEF Disconnect
  <2>3. connected' \in BOOLEAN
    BY <1>8 DEF Disconnect
  <2> QED BY <1>8, <2>1, <2>2, <2>3 DEF Disconnect, TypeOK
<1>9. CASE Reconnect
  BY <1>9 DEF Reconnect, TypeOK
<1>10. CASE UNCHANGED vars
  BY <1>10 DEF vars, TypeOK
<1> QED
  BY <1>1, <1>2, <1>3, <1>4, <1>5, <1>6, <1>7, <1>8, <1>9, <1>10, <1>11 DEF Next

\* Every reachable state is well typed.
THEOREM TypeCorrect == Spec => []TypeOK
  BY InitType, TypeStep, PTL DEF Spec

-----------------------------------------------------------------------------
(* No request disappears                                                   *)

\* Every critical section that takes a request from one place is followed by
\* one of the same actor that puts it somewhere, and the actor accounts for it
\* in between.
LEMMA StrandedStep == TypeOK /\ NeverStranded /\ [Next]_vars => NeverStranded'
<1> SUFFICES ASSUME TypeOK, NeverStranded, [Next]_vars,
                    NEW r \in Requests, Registered(r)', r \notin refused'
             PROVE  Accounted(r)'
  BY DEF NeverStranded
<1> USE DEF registry, tui, backend
<1>r. r \notin refused
  BY DEF Next, Register, UpsertClear, UpsertInsert, PostRequest, CreateFails, Poll,
         PollFails, Advance, Persist, Sync, Settle, Store, RestoreClear, RestoreInsert,
         Choices, Claim, ClaimUnoffered, PhoneAnswer, OverlayAnswer, OverlayAbort,
         TuiLoop, HandleResolution, HandleAbort, HandleLocal, Receive, Apply,
         Disconnect, Reconnect, vars
<1>0. ASSUME Registered(r) PROVE Accounted(r)
  BY <1>0, <1>r DEF NeverStranded
<1>1. ASSUME NEW q \in Requests, Register(q) PROVE Accounted(r)'
  <2>1. CASE UpsertClear(q)
    BY <1>0, <2>1 DEF UpsertClear, Registered, Accounted, Holds, At, TypeOK
  <2>2. CASE UpsertInsert(q)
    BY <1>0, <2>2 DEF UpsertInsert, Registered, Accounted, Holds, At, TypeOK
  <2>3. CASE PostRequest(q)
    BY <1>0, <2>3 DEF PostRequest, Registered, Accounted, Holds, At, TypeOK
  <2> QED BY <1>1, <2>1, <2>2, <2>3 DEF Register
<1>2. ASSUME NEW q \in Requests, Poll(q) PROVE Accounted(r)'
  BY <1>0, <1>2 DEF Poll, Registered, Accounted, Holds, At, TypeOK
<1>11. ASSUME NEW q \in Requests, CreateFails(q) \/ PollFails(q) PROVE Accounted(r)'
  BY <1>0, <1>11 DEF CreateFails, PollFails, Registered, Accounted, Holds, At, TypeOK
<1>3. ASSUME NEW e \in Endpoints, Advance(e) PROVE Accounted(r)'
  <2>1. ~At(e, "idle")
    BY <1>3 DEF Advance, Persist, Sync, Settle, Store, RestoreClear,
                RestoreInsert, At
  <2>2. caller[e].req \in Requests /\ caller[e].decision \in Decision
    BY <2>1, BusyCaller
  <2>3. Registered(r)
    BY <1>3 DEF Advance, Persist, Sync, Settle, Store, RestoreClear,
                RestoreInsert, Registered
  \* A step inside a handler leaves every holder its request.
  <2>4. ASSUME NEW pc \in CallerPC \ {"idle"}, Step(e, pc),
               NEW f \in Endpoints, Holds(f, r)
        PROVE  Holds(f, r)'
    BY <2>1, <2>4 DEF Step, Holds, At, TypeOK, Caller
  <2>5. CASE Persist(e)
    <3>1. \E pc \in CallerPC \ {"idle"} : Step(e, pc)
      BY <2>5 DEF Persist, CallerPC
    <3> QED BY <1>0, <2>3, <2>4, <2>5, <3>1 DEF Persist, Accounted
  <2>6. CASE Sync(e)
    <3>1. \E pc \in CallerPC \ {"idle"} : Step(e, pc)
      BY <2>6 DEF Sync, CallerPC
    <3> QED BY <1>0, <2>3, <2>4, <2>6, <3>1 DEF Sync, Accounted
  <2>7. CASE Settle(e)
    <3>1. \E pc \in CallerPC \ {"idle"} : Step(e, pc)
      BY <2>7 DEF Settle, CallerPC
    <3>2. CASE caller[e].req = r
      BY <2>1, <2>4, <3>1, <3>2 DEF Holds, Accounted
    <3>3. CASE caller[e].req # r
      BY <1>0, <2>3, <2>4, <2>7, <3>1, <3>3 DEF Settle, Accounted
    <3> QED BY <3>2, <3>3
  <2>8. CASE RestoreClear(e)
    <3>1. \E pc \in CallerPC \ {"idle"} : Step(e, pc)
      BY <2>8 DEF RestoreClear, CallerPC
    <3>2. CASE caller[e].req = r
      BY <2>1, <2>4, <3>1, <3>2 DEF Holds, Accounted
    <3>3. CASE caller[e].req # r
      BY <1>0, <2>3, <2>4, <2>8, <3>1, <3>3 DEF RestoreClear, Accounted, TypeOK
    <3> QED BY <3>2, <3>3
  \* The last step of a handler lets go of its own request only.
  <2>9. ASSUME Release(e), caller[e].req # r, NEW f \in Endpoints, Holds(f, r)
        PROVE  Holds(f, r)'
    BY <2>9 DEF Release, Holds, At, TypeOK
  <2>10. CASE Store(e)
    <3>1. CASE caller[e].req = r
      BY <2>2, <2>10, <3>1, NoneAssumption
         DEF Store, Accounted, TypeOK, Decision
    <3>2. CASE caller[e].req # r
      BY <1>0, <2>3, <2>9, <2>10, <3>2 DEF Store, Accounted, TypeOK
    <3> QED BY <3>1, <3>2
  <2>11. CASE RestoreInsert(e)
    <3>1. CASE caller[e].req = r
      BY <2>11, <3>1 DEF RestoreInsert, Accounted
    <3>2. CASE caller[e].req # r
      BY <1>0, <2>3, <2>9, <2>11, <3>2 DEF RestoreInsert, Accounted
    <3> QED BY <3>1, <3>2
  <2> QED BY <1>3, <2>5, <2>6, <2>7, <2>8, <2>10, <2>11 DEF Advance
<1>4. CASE Choices
  <2>1. ASSUME NEW e \in Endpoints, NEW q \in Requests, NEW d \in Decision,
               NEW scope \in Scope, Claim(e, q, d, scope)
        PROVE  Accounted(r)'
    BY <1>0, <2>1 DEF Claim, Registered, Accounted, Holds, At, TypeOK
  <2>2. ASSUME NEW q \in Requests, NEW d \in Decision, PhoneAnswer(q, d)
        PROVE  Accounted(r)'
    BY <1>0, <2>2 DEF PhoneAnswer, Registered, Accounted, Holds, At
  <2>3. ASSUME NEW q \in Requests, NEW d \in Decision, OverlayAnswer(q, d)
        PROVE  Accounted(r)'
    BY <1>0, <2>3 DEF OverlayAnswer, Registered, Accounted, Holds, At
  <2>4. ASSUME NEW e \in Endpoints, NEW q \in Requests, ClaimUnoffered(e, q)
        PROVE  Accounted(r)'
    BY <1>0, <2>4 DEF ClaimUnoffered, Registered, Accounted, Holds, At
  <2>5. ASSUME NEW q \in Requests, OverlayAbort(q) PROVE Accounted(r)'
    BY <1>0, <2>5 DEF OverlayAbort, Registered, Accounted, Holds, At
  <2> QED BY <1>4, <2>1, <2>2, <2>3, <2>4, <2>5 DEF Choices
<1>5. CASE TuiLoop
  <2>1. ASSUME NEW scope \in Scope, HandleLocal(scope) PROVE Accounted(r)'
    <3>1. Accounted(r)
      BY <1>0, <2>1 DEF HandleLocal, Registered
    <3>2. CASE r \in pending /\ r = Head(queue).req
      BY <2>1, <3>2, TuiAssumption
         DEF HandleLocal, Accounted, Holds, At, TypeOK
    <3>3. CASE ~(r \in pending /\ r = Head(queue).req)
      BY <2>1, <3>1, <3>3, TuiAssumption
         DEF HandleLocal, Accounted, Holds, At, TypeOK
    <3> QED BY <3>2, <3>3
  <2>2. CASE HandleResolution
    BY <1>0, <2>2 DEF HandleResolution, Registered, Accounted, Holds, At
  <2>3. CASE HandleAbort
    BY <1>0, <2>3 DEF HandleAbort, Registered, Accounted, Holds, At
  <2> QED BY <1>5, <2>1, <2>2, <2>3 DEF TuiLoop
<1>6. CASE Receive
  <2>1. Accounted(r)
    BY <1>0, <1>6 DEF Receive, Registered
  <2>2. CASE Head(stream).req = r
    BY <1>6, <2>2 DEF Receive, Accounted
  <2>3. CASE Head(stream).req # r
    BY <1>6, <2>1, <2>3 DEF Receive, Accounted, Holds, At, TypeOK
  <2> QED BY <2>2, <2>3
<1>7. CASE Apply
  <2>1. Accounted(r)
    BY <1>0, <1>7 DEF Apply, Registered
  <2>2. CASE receiver.event.req = r
    BY <1>7, <2>2 DEF Apply, Accounted, TypeOK
  <2>3. CASE receiver.event.req # r
    BY <1>7, <2>1, <2>3 DEF Apply, Accounted, Holds, At, TypeOK
  <2> QED BY <2>2, <2>3
<1>8. CASE Disconnect
  BY <1>0, <1>8 DEF Disconnect, Registered, Accounted, Holds, At
<1>9. CASE Reconnect
  BY <1>0, <1>9 DEF Reconnect, Registered, Accounted, Holds, At
<1>10. CASE UNCHANGED vars
  BY <1>0, <1>10 DEF vars, Registered, Accounted, Holds, At
<1> QED
  BY <1>1, <1>2, <1>3, <1>4, <1>5, <1>6, <1>7, <1>8, <1>9, <1>10, <1>11 DEF Next

\* In both modes, and whatever fails, a registered request is pending, being
\* answered, or answered, at every point between two locks.
THEOREM NeverStrandedAlways == Spec => []NeverStranded
<1>1. Init => NeverStranded
  BY DEF Init, NeverStranded, Registered
<1> QED BY <1>1, TypeCorrect, StrandedStep, PTL DEF Spec

-----------------------------------------------------------------------------
(* One decision, in a session that is not mirrored                         *)

LEMMA InitLocal == ~Mirrored /\ Init => LocalInv
<1> SUFFICES ASSUME ~Mirrored, Init PROVE LocalInv
  OBVIOUS
<1>1. TypeOK
  BY InitType
<1>2. Quiet
  BY DEF Init, Quiet, At, IdleCaller
<1>3. TokenIsUnique /\ AckedIsResolved /\ RuleIsAccounted
  BY DEF Init, TokenIsUnique, AckedIsResolved, RuleIsAccounted, Holds, At,
         IdleCaller
<1>4. ToldIsResolved
  BY DEF Init, ToldIsResolved
<1> QED BY <1>1, <1>2, <1>3, <1>4 DEF LocalInv

\* Nothing starts the traffic with the backend.
LEMMA QuietStep == ~Mirrored /\ LocalInv /\ [Next]_vars => Quiet'
<1> SUFFICES ASSUME ~Mirrored, LocalInv, [Next]_vars PROVE Quiet'
  OBVIOUS
<1> USE DEF registry, tui, backend, LocalInv
<1>1. ASSUME NEW r \in Requests, Register(r) PROVE Quiet'
  BY <1>1 DEF Register, UpsertClear, UpsertInsert, PostRequest, Quiet, At, TypeOK
<1>2. ASSUME NEW r \in Requests, Poll(r) PROVE Quiet'
  BY <1>2 DEF Poll, Quiet, At, TypeOK
<1>8. ASSUME NEW r \in Requests, CreateFails(r) \/ PollFails(r) PROVE Quiet'
  BY <1>8 DEF CreateFails, PollFails, Quiet, At, TypeOK
<1>3. ASSUME NEW e \in Endpoints, Advance(e) PROVE Quiet'
  <2>1. ASSUME NEW pc \in CallerPC \ {"sync"}, Step(e, pc), NEW f \in Endpoints
        PROVE  ~At(f, "sync")'
    BY <2>1 DEF Step, Quiet, At, TypeOK, Caller
  <2>2. ASSUME Release(e), NEW f \in Endpoints
        PROVE  ~At(f, "sync")'
    BY <2>2 DEF Release, IdleCaller, Quiet, At, TypeOK
  <2>3. CASE Persist(e)
    <3>1. \E pc \in CallerPC \ {"sync"} : Step(e, pc)
      BY <2>3 DEF Persist, CallerPC
    <3> QED BY <2>1, <2>3, <3>1 DEF Persist, Quiet
  <2>4. CASE Sync(e)
    BY <2>4 DEF Sync, Quiet
  <2>5. CASE Settle(e) \/ RestoreClear(e)
    <3>1. \E pc \in CallerPC \ {"sync"} : Step(e, pc)
      BY <2>5 DEF Settle, RestoreClear, CallerPC
    <3> QED BY <2>1, <2>5, <3>1 DEF Settle, RestoreClear, Quiet
  <2>6. CASE Store(e) \/ RestoreInsert(e)
    BY <2>2, <2>6 DEF Store, RestoreInsert, Quiet
  <2> QED BY <1>3, <2>3, <2>4, <2>5, <2>6 DEF Advance
<1>4. CASE Choices
  <2>1. ASSUME NEW e \in Endpoints, NEW r \in Requests, NEW d \in Decision,
               NEW scope \in Scope, Claim(e, r, d, scope)
        PROVE  Quiet'
    BY <2>1 DEF Claim, Quiet, At, TypeOK
  <2>2. ASSUME NEW r \in Requests, NEW d \in Decision,
               PhoneAnswer(r, d) \/ OverlayAnswer(r, d)
        PROVE  Quiet'
    BY <2>2 DEF PhoneAnswer, OverlayAnswer, Quiet, At
  <2>3. ASSUME NEW e \in Endpoints, NEW r \in Requests,
               ClaimUnoffered(e, r) \/ OverlayAbort(r)
        PROVE  Quiet'
    BY <2>3 DEF ClaimUnoffered, OverlayAbort, Quiet, At
  <2> QED BY <1>4, <2>1, <2>2, <2>3, TuiAssumption DEF Choices
<1>5. CASE TuiLoop
  <2>1. ASSUME NEW scope \in Scope, HandleLocal(scope) PROVE Quiet'
    <3>1. \A f \in Endpoints : ~At(f, "sync")'
      BY <2>1, TuiAssumption DEF HandleLocal, Quiet, At, TypeOK
    <3> QED BY <2>1, <3>1 DEF HandleLocal, Quiet
  <2>2. CASE HandleResolution
    BY <2>2 DEF HandleResolution, Quiet, At
  <2>3. CASE HandleAbort
    BY <2>3 DEF HandleAbort, Quiet, At
  <2> QED BY <1>5, <2>1, <2>2, <2>3 DEF TuiLoop
<1>6. CASE Receive \/ Apply \/ Disconnect \/ Reconnect
  BY <1>6 DEF Receive, Apply, Disconnect, Reconnect, Quiet
<1>7. CASE UNCHANGED vars
  BY <1>7 DEF vars, Quiet, At
<1> QED BY <1>1, <1>2, <1>3, <1>4, <1>5, <1>6, <1>7, <1>8 DEF Next

\* What a step does with the token of a request and what it writes of the
\* request, for the steps inside a handler and for the others.
LEMMA TokenStep == ~Mirrored /\ LocalInv /\ [Next]_vars => TokenIsUnique'
<1> SUFFICES ASSUME ~Mirrored, LocalInv, [Next]_vars PROVE TokenIsUnique'
  OBVIOUS
<1> USE DEF registry, tui, backend, LocalInv
<1>1. ASSUME NEW r \in Requests, Register(r) PROVE TokenIsUnique'
  <2>1. CASE UpsertClear(r)
    BY <2>1 DEF UpsertClear, TokenIsUnique, Registered, Holds, At, TypeOK
  <2>2. CASE UpsertInsert(r)
    BY <2>2 DEF UpsertInsert, TokenIsUnique, Registered, Holds, At, TypeOK
  <2>3. CASE PostRequest(r)
    BY <2>3 DEF PostRequest, Quiet
  <2> QED BY <1>1, <2>1, <2>2, <2>3 DEF Register
<1>2. ASSUME NEW r \in Requests, Poll(r) PROVE TokenIsUnique'
  BY <1>2 DEF Poll, TokenIsUnique, Registered, Holds, At, TypeOK
<1>8. ASSUME NEW r \in Requests, CreateFails(r) \/ PollFails(r) PROVE TokenIsUnique'
  BY <1>8 DEF CreateFails, PollFails, TokenIsUnique, Registered, Holds, At, TypeOK
<1>3. ASSUME NEW e \in Endpoints, Advance(e) PROVE TokenIsUnique'
  <2>1. ~At(e, "idle")
    BY <1>3 DEF Advance, Persist, Sync, Settle, Store, RestoreClear,
                RestoreInsert, At
  <2>2. /\ caller[e].req \in Requests /\ caller[e].decision \in Decision
        /\ caller[e].decision # None
    BY <2>1, BusyCaller, NoneAssumption DEF Decision
  <2>3. Holds(e, caller[e].req)
    BY <2>1 DEF Holds
  <2>4. ASSUME NEW pc \in CallerPC, Step(e, pc), NEW r \in Requests,
               NEW f \in Endpoints, Holds(f, r)'
        PROVE  Holds(f, r)
    BY <2>1, <2>4 DEF Step, Holds, At, TypeOK, Caller
  <2>5. ASSUME Release(e), NEW r \in Requests, NEW f \in Endpoints,
               Holds(f, r)'
        PROVE  f # e /\ Holds(f, r)
    BY <2>5 DEF Release, IdleCaller, Holds, At, TypeOK
  <2>6. CASE Persist(e)
    <3>1. \E pc \in CallerPC : Step(e, pc)
      BY <2>6 DEF Persist, CallerPC
    <3> QED BY <2>4, <2>6, <3>1 DEF Persist, TokenIsUnique, Registered
  <2>7. CASE Sync(e)
    BY <2>7 DEF Sync, Quiet
  <2>8. CASE Settle(e) \/ RestoreClear(e)
    <3>1. \E pc \in CallerPC : Step(e, pc)
      BY <2>8 DEF Settle, RestoreClear, CallerPC
    <3>2. pending' \subseteq pending /\ mirror' = mirror
      BY <2>8 DEF Settle, RestoreClear
    <3>3. resolved' = resolved
      BY <2>2, <2>3, <2>8 DEF Settle, RestoreClear, TokenIsUnique, TypeOK
    <3> QED BY <2>4, <3>1, <3>2, <3>3 DEF TokenIsUnique, Registered
  <2>9. CASE Store(e)
    BY <2>2, <2>3, <2>5, <2>9 DEF Store, TokenIsUnique, Registered, TypeOK
  <2>10. CASE RestoreInsert(e)
    BY <2>2, <2>3, <2>5, <2>10 DEF RestoreInsert, TokenIsUnique, Registered
  <2> QED BY <1>3, <2>6, <2>7, <2>8, <2>9, <2>10 DEF Advance
<1>4. CASE Choices
  <2>1. ASSUME NEW e \in Endpoints, NEW r \in Requests, NEW d \in Decision,
               NEW scope \in Scope, Claim(e, r, d, scope)
        PROVE  TokenIsUnique'
    BY <2>1 DEF Claim, TokenIsUnique, Registered, Holds, At, TypeOK
  <2>2. ASSUME NEW r \in Requests, NEW d \in Decision, PhoneAnswer(r, d)
        PROVE  TokenIsUnique'
    BY <2>2 DEF PhoneAnswer, Quiet
  <2>3. ASSUME NEW r \in Requests, NEW d \in Decision, OverlayAnswer(r, d)
        PROVE  TokenIsUnique'
    BY <2>3 DEF OverlayAnswer, TokenIsUnique, Registered, Holds, At
  <2>4. ASSUME NEW e \in Endpoints, NEW r \in Requests, ClaimUnoffered(e, r)
        PROVE  TokenIsUnique'
    BY <2>4 DEF ClaimUnoffered, TokenIsUnique, Registered, Holds, At
  <2>5. ASSUME NEW r \in Requests, OverlayAbort(r) PROVE TokenIsUnique'
    BY <2>5 DEF OverlayAbort, TokenIsUnique, Registered, Holds, At
  <2> QED BY <1>4, <2>1, <2>2, <2>3, <2>4, <2>5 DEF Choices
<1>5. CASE TuiLoop
  <2>1. ASSUME NEW scope \in Scope, HandleLocal(scope) PROVE TokenIsUnique'
    <3>1. CASE Head(queue).req \in pending
      BY <2>1, <3>1, TuiAssumption
         DEF HandleLocal, TokenIsUnique, Registered, Holds, At, TypeOK
    <3>2. CASE Head(queue).req \notin pending
      BY <2>1, <3>2
         DEF HandleLocal, TokenIsUnique, Registered, Holds, At, TypeOK
    <3> QED BY <3>1, <3>2
  <2>2. CASE HandleResolution
    BY <2>2 DEF HandleResolution, TokenIsUnique, Registered, Holds, At
  <2>3. CASE HandleAbort
    BY <2>3 DEF HandleAbort, TokenIsUnique, Registered, Holds, At
  <2> QED BY <1>5, <2>1, <2>2, <2>3 DEF TuiLoop
<1>6. CASE Receive \/ Apply
  BY <1>6 DEF Receive, Apply, Quiet
<1>7. CASE Disconnect \/ Reconnect \/ UNCHANGED vars
  BY <1>7 DEF Disconnect, Reconnect, vars, TokenIsUnique, Registered, Holds, At
<1> QED BY <1>1, <1>2, <1>3, <1>4, <1>5, <1>6, <1>7, <1>8 DEF Next

\* A resolution is stored for a request that has none, once, by the handler
\* that holds it; nothing else writes it or tells an endpoint anything.
LEMMA ResolvedOnce ==
  ASSUME ~Mirrored, LocalInv, [Next]_vars
  PROVE  \/ resolved' = resolved /\ acked' = acked
         \/ \E e \in Endpoints :
              Store(e) /\ ~At(e, "idle") /\ resolved[caller[e].req] = None
<1> USE DEF registry, tui, backend, LocalInv
<1>1. ASSUME NEW r \in Requests,
             Register(r) \/ CreateFails(r) \/ Poll(r) \/ PollFails(r)
      PROVE  resolved' = resolved /\ acked' = acked
  <2>1. CASE UpsertClear(r)
    <3>1. resolved[r] = None
      BY <2>1 DEF UpsertClear, TokenIsUnique, Registered
    <3> QED BY <2>1, <3>1 DEF UpsertClear, TypeOK
  <2> QED BY <1>1, <2>1
             DEF Register, UpsertInsert, PostRequest, CreateFails, Poll, PollFails
<1>2. ASSUME NEW e \in Endpoints, Advance(e), ~Store(e)
      PROVE  resolved' = resolved /\ acked' = acked
  <2>1. CASE RestoreClear(e)
    <3>1. ~At(e, "idle")
      BY <2>1 DEF RestoreClear, At
    <3>2. caller[e].req \in Requests /\ Holds(e, caller[e].req)
      BY <3>1, BusyCaller DEF Holds
    <3>3. resolved[caller[e].req] = None
      BY <3>2 DEF TokenIsUnique
    <3> QED BY <2>1, <3>2, <3>3 DEF RestoreClear, TypeOK
  <2> QED BY <1>2, <2>1 DEF Advance, Persist, Sync, Settle, RestoreInsert
<1>3. ASSUME NEW e \in Endpoints, Store(e)
      PROVE  ~At(e, "idle") /\ resolved[caller[e].req] = None
  <2>1. ~At(e, "idle")
    BY <1>3 DEF Store, At
  <2>2. caller[e].req \in Requests /\ Holds(e, caller[e].req)
    BY <2>1, BusyCaller DEF Holds
  <2> QED BY <2>1, <2>2 DEF TokenIsUnique
<1>4. CASE Choices \/ TuiLoop
  BY <1>4 DEF Choices, Claim, ClaimUnoffered, PhoneAnswer, OverlayAnswer, OverlayAbort,
              TuiLoop, HandleLocal, HandleResolution, HandleAbort, Quiet
<1>5. CASE Receive \/ Apply \/ Disconnect \/ Reconnect \/ UNCHANGED vars
  BY <1>5 DEF Receive, Apply, Disconnect, Reconnect, vars, Quiet
<1> QED BY <1>1, <1>2, <1>3, <1>4, <1>5 DEF Next

LEMMA AckedStep == ~Mirrored /\ LocalInv /\ [Next]_vars => AckedIsResolved'
<1> SUFFICES ASSUME ~Mirrored, LocalInv, [Next]_vars PROVE AckedIsResolved'
  OBVIOUS
<1>1. CASE resolved' = resolved /\ acked' = acked
  BY <1>1 DEF AckedIsResolved, LocalInv
<1>2. ASSUME NEW e \in Endpoints, Store(e), ~At(e, "idle"),
             resolved[caller[e].req] = None
      PROVE  AckedIsResolved'
  <2>1. /\ caller[e].req \in Requests /\ caller[e].decision \in Decision
        /\ caller[e].decision # None
    BY <1>2, BusyCaller, NoneAssumption DEF LocalInv, Decision
  <2>2. acked[caller[e].req] = {}
    BY <1>2, <2>1 DEF AckedIsResolved, LocalInv
  <2> QED BY <1>2, <2>1, <2>2 DEF Store, AckedIsResolved, LocalInv, TypeOK
<1> QED BY <1>1, <1>2, ResolvedOnce

\* What was true of a stored resolution or of an abort stays true.
LEMMA SaysStays ==
  ASSUME ~Mirrored, LocalInv, [Next]_vars, NEW r \in Requests, NEW d, d # None,
         SaysSo(r, d)
  PROVE  SaysSo(r, d)'
<1> USE DEF registry, tui, backend
<1>0. TypeOK
  BY DEF LocalInv
<1>1. resolved[r] # None => resolved'[r] = resolved[r]
  BY <1>0, ResolvedOnce DEF Store, TypeOK
<1>2. ASSUME overlay[r] = "aborted" PROVE overlay'[r] = "aborted"
  <2>1. ASSUME NEW q \in Requests, Register(q) \/ CreateFails(q) \/ Poll(q) \/ PollFails(q)
        PROVE  overlay' = overlay
    BY <2>1 DEF Register, UpsertClear, UpsertInsert, PostRequest, CreateFails, Poll, PollFails
  <2>2. ASSUME NEW e \in Endpoints, Advance(e) PROVE overlay' = overlay
    BY <2>2 DEF Advance, Persist, Sync, Settle, Store, RestoreClear, RestoreInsert
  <2>3. CASE Choices
    BY <1>0, <1>2, <2>3 DEF Choices, Claim, ClaimUnoffered, PhoneAnswer, OverlayAnswer,
                            OverlayAbort, TypeOK
  <2>4. CASE TuiLoop
    BY <1>0, <1>2, <2>4 DEF TuiLoop, HandleLocal, HandleResolution, HandleAbort, TypeOK
  <2>5. CASE Receive \/ Apply \/ Disconnect \/ Reconnect \/ UNCHANGED vars
    BY <1>2, <2>5 DEF Receive, Apply, Disconnect, Reconnect, vars
  <2> QED BY <1>2, <2>1, <2>2, <2>3, <2>4, <2>5 DEF Next
<1> QED BY <1>1, <1>2 DEF SaysSo

\* The two halves of ToldIsResolved.
Truthful(m) == ~m.sync => SaysSo(m.req, m.decision)
QueueSays == \A i \in 1..Len(queue) : Truthful(queue[i])
SubmittedSays ==
  \A r \in Requests : \A i \in 1..Len(submitted[r]) : SaysSo(r, submitted[r][i])

\* What is in the queue or was submitted stays true of the stored resolution:
\* an entry about a request means that it already has one.
LEMMA ToldStep == ~Mirrored /\ LocalInv /\ [Next]_vars => ToldIsResolved'
<1> SUFFICES ASSUME ~Mirrored, LocalInv, [Next]_vars PROVE ToldIsResolved'
  OBVIOUS
<1> USE DEF registry, tui, backend
<1>0. TypeOK /\ ToldIsResolved /\ queue \in Seq(TuiEvent)
  BY DEF LocalInv, TypeOK
<1>n. None \notin Told
  BY NoneAssumption DEF Told, Decision
<1>m. \A r \in Requests, d \in Told : SaysSo(r, d) => SaysSo(r, d)'
  BY <1>n, SaysStays
<1>t. \A m \in TuiEvent : m.req \in Requests /\ m.decision \in Told
  BY DEF TuiEvent
<1>q. \A m \in TuiEvent : Truthful(m) => Truthful(m)'
  BY <1>m, <1>t DEF Truthful
<1>i. /\ \A i \in 1..Len(queue) : queue[i] \in TuiEvent /\ Truthful(queue[i])
      /\ \A r \in Requests : \A i \in 1..Len(submitted[r]) :
           submitted[r][i] \in Told /\ SaysSo(r, submitted[r][i])
  <2>1. \A i \in 1..Len(queue) : queue[i] \in TuiEvent
    BY <1>0
  <2>2. \A r \in Requests : submitted[r] \in Seq(Told)
    BY <1>0 DEF TypeOK
  <2>3. ASSUME NEW r \in Requests, NEW i \in 1..Len(submitted[r])
        PROVE  submitted[r][i] \in Told
    BY <2>2
  <2>4. \A i \in 1..Len(queue) : Truthful(queue[i])
    BY <1>0 DEF ToldIsResolved, Truthful
  <2>5. \A r \in Requests : \A i \in 1..Len(submitted[r]) : SaysSo(r, submitted[r][i])
    BY <1>0 DEF ToldIsResolved
  <2> QED BY <2>1, <2>3, <2>4, <2>5
<1>1. ASSUME queue' = queue PROVE QueueSays'
  BY <1>1, <1>i, <1>q DEF QueueSays, Truthful, SaysSo
<1>2. ASSUME NEW m \in TuiEvent, queue' = Append(queue, m), Truthful(m)' PROVE QueueSays'
  <2>1. \A i \in 1..Len(queue') :
          (i \in 1..Len(queue) /\ queue'[i] = queue[i]) \/ queue'[i] = m
    BY <1>0, <1>2
  <2> QED BY <1>2, <1>i, <1>q, <2>1 DEF QueueSays, Truthful, SaysSo
<1>3. ASSUME queue # <<>>, queue' = Tail(queue) PROVE QueueSays'
  <2>1. \A i \in 1..Len(queue') : i + 1 \in 1..Len(queue) /\ queue'[i] = queue[i + 1]
    BY <1>0, <1>3
  <2> QED BY <1>i, <1>q, <2>1 DEF QueueSays, Truthful, SaysSo
<1>4. ASSUME submitted' = submitted PROVE SubmittedSays'
  BY <1>4, <1>i, <1>m DEF SubmittedSays, SaysSo
<1>5. ASSUME NEW r \in Requests, NEW d \in Told, SaysSo(r, d)',
             submitted' = [submitted EXCEPT ![r] = Append(submitted[r], d)]
      PROVE  SubmittedSays'
  <2> SUFFICES ASSUME NEW x \in Requests, NEW i \in 1..Len(submitted'[x])
               PROVE  IF submitted'[x][i] = "abort" THEN overlay'[x] = "aborted"
                      ELSE resolved'[x] = submitted'[x][i]
    BY DEF SubmittedSays, SaysSo
  <2>1. CASE x # r
    <3>1. submitted'[x] = submitted[x]
      BY <1>0, <1>5, <2>1 DEF TypeOK
    <3> QED BY <1>i, <1>m, <3>1 DEF SaysSo
  <2>2. CASE x = r
    <3>1. submitted[r] \in Seq(Told) /\ submitted'[r] = Append(submitted[r], d)
      BY <1>0, <1>5 DEF TypeOK
    <3>2. \/ i \in 1..Len(submitted[r]) /\ submitted'[r][i] = submitted[r][i]
          \/ submitted'[r][i] = d
      BY <2>2, <3>1
    <3> QED BY <1>5, <1>i, <1>m, <2>2, <3>2 DEF SaysSo
  <2> QED BY <2>1, <2>2
<1>6. ASSUME QueueSays', SubmittedSays' PROVE ToldIsResolved'
  BY <1>6 DEF ToldIsResolved, QueueSays, SubmittedSays, Truthful
<1>7. ASSUME NEW e \in Endpoints, Advance(e) PROVE ToldIsResolved'
  <2>1. queue' = queue
    BY <1>7 DEF Advance, Persist, Sync, Settle, Store, RestoreClear, RestoreInsert
  <2>2. CASE submitted' = submitted
    BY <1>1, <1>4, <1>6, <2>1, <2>2
  <2>3. CASE submitted' # submitted
    <3>1. Store(e)
      BY <1>7, <2>3 DEF Advance, Persist, Sync, Settle, RestoreClear, RestoreInsert
    <3>2. PICK r \in Requests, d \in Decision : r = caller[e].req /\ d = caller[e].decision
      BY <1>0, <3>1, BusyCaller DEF Store, At
    <3>3. submitted' = [submitted EXCEPT ![r] = Append(submitted[r], d)]
      BY <2>3, <3>1, <3>2 DEF Store
    <3>4. resolved'[r] = d /\ d # "abort" /\ d \in Told
      BY <1>0, <3>1, <3>2 DEF Store, TypeOK, Decision, Told
    <3> QED BY <1>1, <1>5, <1>6, <2>1, <3>3, <3>4 DEF SaysSo
  <2> QED BY <2>2, <2>3
<1>8. ASSUME NEW r \in Requests, Poll(r) PROVE ToldIsResolved'
  <2>1. PICK d \in Decision : d = resolved[r] /\ d # "abort" /\ d \in Told
    BY <1>0, <1>8 DEF Poll, TypeOK, Decision, Told
  <2>2. PICK m \in TuiEvent : m = [req |-> r, decision |-> d, sync |-> FALSE]
    BY <2>1 DEF TuiEvent
  <2>3. queue' = Append(queue, m) /\ submitted' = submitted /\ resolved' = resolved
    BY <1>8, <2>1, <2>2 DEF Poll
  <2>4. Truthful(m)'
    BY <2>1, <2>2, <2>3 DEF Truthful, SaysSo
  <2> QED BY <1>2, <1>4, <1>6, <2>3, <2>4
<1>9. ASSUME NEW r \in Requests, NEW d \in Decision, OverlayAnswer(r, d)
      PROVE  ToldIsResolved'
  <2>1. PICK m \in TuiEvent : m = [req |-> r, decision |-> d, sync |-> TRUE]
    BY DEF TuiEvent, Decision, Told
  <2>2. queue' = Append(queue, m) /\ submitted' = submitted /\ Truthful(m)'
    BY <1>9, <2>1 DEF OverlayAnswer, Truthful
  <2> QED BY <1>2, <1>4, <1>6, <2>2
<1>10. ASSUME NEW r \in Requests, OverlayAbort(r) PROVE ToldIsResolved'
  <2>1. PICK m \in TuiEvent : m = [req |-> r, decision |-> "abort", sync |-> FALSE]
    BY DEF TuiEvent, Told
  <2>2. queue' = Append(queue, m) /\ submitted' = submitted /\ overlay'[r] = "aborted"
    BY <1>0, <1>10, <2>1 DEF OverlayAbort, TypeOK
  <2>3. Truthful(m)'
    BY <2>1, <2>2 DEF Truthful, SaysSo
  <2> QED BY <1>2, <1>4, <1>6, <2>2, <2>3
<1>11. CASE TuiLoop
  <2>1. queue # <<>> /\ queue' = Tail(queue)
    BY <1>11 DEF TuiLoop, HandleLocal, HandleResolution, HandleAbort
  <2>2. 1 \in 1..Len(queue) /\ Head(queue) = queue[1]
    BY <1>0, <2>1
  <2>3. PICK m \in TuiEvent : m = Head(queue) /\ Truthful(m)
    BY <1>i, <2>2
  <2>4. PICK r \in Requests, d \in Told : r = m.req /\ d = m.decision
    BY <1>t
  <2>5. CASE submitted' = submitted
    BY <1>3, <1>4, <1>6, <2>1, <2>5
  <2>6. CASE submitted' # submitted
    <3>1. /\ submitted' = [submitted EXCEPT ![r] = Append(submitted[r], d)]
          /\ ~m.sync
      <4>1. CASE HandleResolution
        BY <2>3, <2>4, <2>6, <4>1 DEF HandleResolution
      <4>2. CASE HandleAbort
        BY <1>0, <2>3, <2>4, <2>6, <4>2 DEF HandleAbort, TuiEvent
      <4> QED BY <1>11, <2>6, <4>1, <4>2 DEF TuiLoop, HandleLocal
    <3>2. SaysSo(r, d)'
      BY <1>m, <2>3, <2>4, <3>1 DEF Truthful
    <3> QED BY <1>3, <1>5, <1>6, <2>1, <3>1, <3>2
  <2> QED BY <2>5, <2>6
<1>12. ASSUME queue' = queue /\ submitted' = submitted PROVE ToldIsResolved'
  BY <1>1, <1>4, <1>6, <1>12
<1>13. ASSUME NEW r \in Requests, Register(r) \/ CreateFails(r) \/ PollFails(r)
       PROVE  queue' = queue /\ submitted' = submitted
  BY <1>13 DEF Register, UpsertClear, UpsertInsert, PostRequest, CreateFails, PollFails
<1>14. ASSUME NEW e \in Endpoints, NEW r \in Requests, NEW d \in Decision,
              NEW scope \in Scope,
              Claim(e, r, d, scope) \/ PhoneAnswer(r, d) \/ ClaimUnoffered(e, r)
       PROVE  queue' = queue /\ submitted' = submitted
  BY <1>14 DEF Claim, ClaimUnoffered, PhoneAnswer
<1>15. CASE Choices
  <2>1. "once" \in Scope /\ "allow" \in Decision
    BY DEF Scope, Decision
  <2>2. ASSUME NEW r \in Requests, NEW d \in Decision, PhoneAnswer(r, d)
        PROVE  ToldIsResolved'
    BY <1>12, <2>2 DEF PhoneAnswer
  <2> QED BY <1>9, <1>10, <1>12, <1>14, <1>15, <2>1, <2>2 DEF Choices
<1>16. CASE Receive \/ Apply \/ Disconnect \/ Reconnect \/ UNCHANGED vars
  BY <1>12, <1>16 DEF Receive, Apply, Disconnect, Reconnect, vars
<1> QED
  BY <1>7, <1>8, <1>11, <1>12, <1>13, <1>15, <1>16 DEF Next

\* A rule is written by the handler that holds the request, on its way to
\* storing the same decision, and nothing that follows can fail.
LEMMA RuleStep == ~Mirrored /\ LocalInv /\ [Next]_vars => RuleIsAccounted'
<1> SUFFICES ASSUME ~Mirrored, LocalInv, [Next]_vars,
                    NEW r \in Requests, rule'[r] # None
             PROVE  \/ resolved'[r] = rule'[r]
                    \/ \E e \in Endpoints :
                         /\ Holds(e, r)'
                         /\ caller'[e].pc \in {"settle", "store"}
                         /\ caller'[e].decision = rule'[r]
  BY DEF RuleIsAccounted
<1> USE DEF registry, tui, backend
<1>0. TypeOK /\ RuleIsAccounted /\ TokenIsUnique
  BY DEF LocalInv
<1>1. CASE resolved' = resolved /\ rule' = rule /\ caller' = caller
  BY <1>0, <1>1 DEF RuleIsAccounted, Holds, At
\* Resolutions of requests that have one do not change.
<1>2. resolved[r] # None => resolved'[r] = resolved[r]
  BY <1>0, ResolvedOnce DEF Store, TypeOK
<1>3. ASSUME NEW e \in Endpoints, At(e, "idle"), rule' = rule,
             \A f \in Endpoints : f # e => caller'[f] = caller[f]
      PROVE  \/ resolved'[r] = rule'[r]
             \/ \E f \in Endpoints :
                  /\ Holds(f, r)'
                  /\ caller'[f].pc \in {"settle", "store"}
                  /\ caller'[f].decision = rule'[r]
  BY <1>0, <1>2, <1>3 DEF RuleIsAccounted, Holds, At
<1>4. ASSUME NEW e \in Endpoints, Advance(e)
      PROVE  \/ resolved'[r] = rule'[r]
             \/ \E f \in Endpoints :
                  /\ Holds(f, r)'
                  /\ caller'[f].pc \in {"settle", "store"}
                  /\ caller'[f].decision = rule'[r]
  <2>1. ~At(e, "idle")
    BY <1>4 DEF Advance, Persist, Sync, Settle, Store, RestoreClear,
                RestoreInsert, At
  <2>2. caller[e].req \in Requests /\ caller[e] \in Caller
        /\ Holds(e, caller[e].req)
    BY <1>0, <2>1, BusyCaller DEF Holds
  <2>3. \A f \in Endpoints : f # e => caller'[f] = caller[f]
    BY <1>0, <1>4 DEF Advance, Persist, Sync, Settle, Store, RestoreClear,
                RestoreInsert, Step, Release, TypeOK
  <2>4. CASE caller[e].req # r
    <3>1. rule'[r] = rule[r]
      BY <1>0, <1>4, <2>2, <2>4 DEF Advance, Persist, Sync, Settle, Store,
                RestoreClear, RestoreInsert, TypeOK
    <3>2. \A f \in Endpoints : Holds(f, r) => f # e
      BY <2>4 DEF Holds
    <3> QED BY <1>0, <1>2, <2>3, <3>1, <3>2 DEF RuleIsAccounted, Holds, At
  <2>5. CASE caller[e].req = r
    \* e is the only holder, so a rule saved so far is its own.
    <3>1. rule[r] # None =>
            /\ caller[e].pc \in {"settle", "store"}
            /\ caller[e].decision = rule[r]
      BY <1>0, <2>2, <2>5 DEF RuleIsAccounted, TokenIsUnique
    <3>2. CASE Persist(e)
      <4>1. rule[r] = None
        BY <3>1, <3>2 DEF Persist, At
      <4>2. Step(e, "settle") /\ rule' = [rule EXCEPT ![r] = caller[e].decision]
        BY <2>5, <3>2, <4>1 DEF Persist
      <4>3. /\ caller'[e].pc = "settle" /\ caller'[e].req = r
            /\ caller'[e].decision = caller[e].decision
        BY <1>0, <2>2, <2>5, <4>2 DEF Step, TypeOK, Caller
      <4>4. rule'[r] = caller[e].decision
        BY <1>0, <4>2 DEF TypeOK
      <4> QED BY <4>3, <4>4 DEF Holds, At
    <3>3. CASE Settle(e)
      <4>1. /\ caller'[e].pc = "store" /\ caller'[e].req = r
            /\ caller'[e].decision = caller[e].decision
        BY <1>0, <2>2, <2>5, <3>3 DEF Settle, Step, TypeOK, Caller
      <4> QED BY <3>1, <3>3, <4>1 DEF Settle, Holds, At
    <3>4. CASE Store(e)
      BY <1>0, <2>5, <3>1, <3>4 DEF Store, TypeOK
    <3>5. CASE Sync(e)
      BY <3>5 DEF Sync, LocalInv, Quiet
    <3>6. CASE RestoreClear(e) \/ RestoreInsert(e)
      BY <3>1, <3>6 DEF RestoreClear, RestoreInsert, At
    <3> QED BY <1>4, <3>2, <3>3, <3>4, <3>5, <3>6 DEF Advance
  <2> QED BY <2>4, <2>5
<1>5. ASSUME NEW q \in Requests,
             Register(q) \/ CreateFails(q) \/ Poll(q) \/ PollFails(q)
      PROVE  rule' = rule /\ caller' = caller
  BY <1>5 DEF Register, UpsertClear, UpsertInsert, PostRequest, CreateFails, Poll, PollFails
<1>6. CASE Receive \/ Apply \/ Disconnect \/ Reconnect \/ UNCHANGED vars
  <2>1. rule' = rule /\ caller' = caller
    BY <1>6 DEF Receive, Apply, Disconnect, Reconnect, vars
  <2> QED BY <1>0, <1>2, <2>1 DEF RuleIsAccounted, Holds, At
<1>7. CASE Choices
  <2>1. ASSUME NEW e \in Endpoints, NEW q \in Requests, NEW d \in Decision,
               NEW scope \in Scope, Claim(e, q, d, scope)
        PROVE  /\ At(e, "idle") /\ rule' = rule
               /\ \A f \in Endpoints : f # e => caller'[f] = caller[f]
    BY <1>0, <2>1 DEF Claim, TypeOK
  <2>2. ASSUME NEW q \in Requests, NEW d \in Decision,
               PhoneAnswer(q, d) \/ OverlayAnswer(q, d)
        PROVE  rule' = rule /\ caller' = caller
    BY <2>2 DEF PhoneAnswer, OverlayAnswer
  <2>3. CASE rule' = rule /\ caller' = caller
    BY <1>0, <1>2, <2>3 DEF RuleIsAccounted, Holds, At
  <2>4. ASSUME NEW e \in Endpoints, NEW q \in Requests,
               ClaimUnoffered(e, q) \/ OverlayAbort(q)
        PROVE  rule' = rule /\ caller' = caller
    BY <2>4 DEF ClaimUnoffered, OverlayAbort
  <2> QED BY <1>3, <1>7, <2>1, <2>2, <2>3, <2>4, TuiAssumption DEF Choices
<1>8. CASE TuiLoop
  <2>1. /\ At(Tui, "idle") /\ rule' = rule
        /\ \A f \in Endpoints : f # Tui => caller'[f] = caller[f]
    BY <1>0, <1>8 DEF TuiLoop, HandleLocal, HandleResolution, HandleAbort, TypeOK
  <2> QED BY <1>3, <2>1, TuiAssumption
<1>9. CASE rule' = rule /\ caller' = caller
  BY <1>0, <1>2, <1>9 DEF RuleIsAccounted, Holds, At
<1> QED BY <1>4, <1>5, <1>6, <1>7, <1>8, <1>9 DEF Next

LEMMA LocalStep == ~Mirrored /\ LocalInv /\ [Next]_vars => LocalInv'
  BY TypeStep, QuietStep, TokenStep, AckedStep, ToldStep, RuleStep DEF LocalInv

LEMMA LocalInvariant == ~Mirrored => (Spec => []LocalInv)
<1> SUFFICES ASSUME ~Mirrored PROVE Spec => []LocalInv
  OBVIOUS
<1>1. Init => LocalInv
  BY InitLocal
<1>2. LocalInv /\ [Next]_vars => LocalInv'
  BY LocalStep
<1> QED BY <1>1, <1>2, PTL DEF Spec

\* Of a session that is not mirrored: all endpoints that were told they
\* succeeded decided the same.
THEOREM OneDecisionLocal == ~Mirrored => (Spec => []OneDecision)
<1>1. LocalInv => OneDecision
  BY NoneAssumption DEF LocalInv, AckedIsResolved, OneDecision
<1> QED BY <1>1, LocalInvariant, PTL

\* The agent is told what the successful endpoint decided, or that its own
\* user has aborted at its overlay, and nothing else.
THEOREM AgentObeysLocal == ~Mirrored => (Spec => []AgentObeys)
<1>1. LocalInv => AgentObeys
  <2> SUFFICES ASSUME LocalInv, NEW r \in Requests,
                      NEW i \in 1..Len(submitted[r])
               PROVE  IF submitted[r][i] = "abort" THEN overlay[r] = "aborted"
                      ELSE acked[r] = {submitted[r][i]}
    BY DEF AgentObeys
  <2>1. submitted[r][i] \in Told
    BY DEF LocalInv, TypeOK
  <2>2. SaysSo(r, submitted[r][i])
    BY DEF LocalInv, ToldIsResolved
  <2> QED BY <2>1, <2>2, NoneAssumption
             DEF LocalInv, AckedIsResolved, SaysSo, Told, Decision
<1> QED BY <1>1, LocalInvariant, PTL

\* The rule that a request leaves behind says what it was resolved with.
THEOREM RuleMatchesLocal == ~Mirrored => (Spec => []RuleMatchesResolution)
<1>1. LocalInv => RuleMatchesResolution
  BY DEF LocalInv, RuleIsAccounted, TokenIsUnique, RuleMatchesResolution
<1> QED BY <1>1, LocalInvariant, PTL

\* A stored resolution is never changed nor taken back.
THEOREM ResolutionFinalLocal == ~Mirrored => (Spec => ResolutionFinal)
<1> SUFFICES ASSUME ~Mirrored PROVE Spec => ResolutionFinal
  OBVIOUS
<1>1. LocalInv /\ [Next]_vars =>
        [\A r \in Requests : resolved[r] # None => resolved'[r] = resolved[r]]_vars
  <2> SUFFICES ASSUME LocalInv, [Next]_vars,
                      NEW r \in Requests, resolved[r] # None
               PROVE  resolved'[r] = resolved[r]
    OBVIOUS
  <2> QED BY ResolvedOnce DEF Store, LocalInv, TypeOK
<1> QED BY <1>1, LocalInvariant, PTL DEF Spec, ResolutionFinal

-----------------------------------------------------------------------------
(* The agent is told once                                                  *)

\* An answer of the poller is in the TUI's queue.
Polled(m) == ~m.sync /\ m.decision # "abort"
Answered(r) == \E i \in 1..Len(queue) : Polled(queue[i]) /\ queue[i].req = r

\* The agent was told the decision, whether it was stopped before or not.
Heard(r) == \E i \in 1..Len(submitted[r]) : submitted[r][i] \in Decision

AnswersOnce ==
  \A i, j \in 1..Len(queue) :
    Polled(queue[i]) /\ Polled(queue[j]) /\ queue[i].req = queue[j].req => i = j

\* The poller answers once, and what it says is dropped when the TUI has
\* decided itself: who was told has nothing more to hear.
ToldOnce ==
  /\ \A r \in Requests : Answered(r) => mirror[r] = "done"
  /\ AnswersOnce
  /\ \A r \in Requests : Holds(Tui, r) => r \in local
  /\ \A r \in Requests :
       Heard(r) => r \in local \/ (mirror[r] = "done" /\ ~Answered(r))

\* Who can hear no more, hears no more from a step that leaves the queue alone.
LEMMA ToldFrame ==
  ASSUME ToldOnce, queue' = queue, submitted' = submitted, local \subseteq local',
         \A r \in Requests : mirror[r] = "done" => mirror'[r] = "done",
         \A r \in Requests : Holds(Tui, r)' => Holds(Tui, r)
  PROVE  ToldOnce'
  BY DEF ToldOnce, AnswersOnce, Answered, Heard

\* An entry that is read leaves no answer behind that was not there.
LEMMA QueueTail ==
  ASSUME queue \in Seq(TuiEvent), queue # <<>>, queue' = Tail(queue), ToldOnce
  PROVE  /\ \A r \in Requests : Answered(r)' => Answered(r)
         /\ AnswersOnce'
         /\ \A r \in Requests : Polled(Head(queue)) /\ Head(queue).req = r
              => Answered(r) /\ ~Answered(r)'
<1>1. \A i \in 1..Len(queue') :
        i \in Nat /\ i >= 1 /\ i + 1 \in 1..Len(queue) /\ queue'[i] = queue[i + 1]
  OBVIOUS
<1>2. 1 \in 1..Len(queue) /\ Head(queue) = queue[1]
  OBVIOUS
<1>3. \A r \in Requests : Answered(r)' => Answered(r)
  BY <1>1 DEF Answered, Polled
<1>4. AnswersOnce'
  <2>1. SUFFICES ASSUME NEW i \in 1..Len(queue'), NEW j \in 1..Len(queue'),
                        Polled(queue'[i]), Polled(queue'[j]), queue'[i].req = queue'[j].req
                 PROVE  i = j
    BY DEF AnswersOnce, Polled
  <2>2. i + 1 = j + 1
    BY <1>1, <2>1 DEF ToldOnce, AnswersOnce
  <2>3. QED
    BY <1>1, <2>2
<1>5. ASSUME Polled(Head(queue)), NEW i \in 1..Len(queue'), Polled(queue'[i]),
             queue'[i].req = Head(queue).req
      PROVE  FALSE
  <2>1. i + 1 = 1
    BY <1>1, <1>2, <1>5 DEF ToldOnce, AnswersOnce
  <2>2. QED
    BY <1>1, <2>1
<1>6. QED
  BY <1>2, <1>3, <1>4, <1>5 DEF Answered, Polled

\* A new entry that is not an answer of the poller.
LEMMA OtherEntry ==
  ASSUME queue \in Seq(TuiEvent), NEW m \in TuiEvent, ~Polled(m), ToldOnce,
         queue' = Append(queue, m), UNCHANGED <<submitted, local, mirror, caller>>
  PROVE  ToldOnce'
<1>1. \A i \in 1..Len(queue') :
        Polled(queue'[i]) => i \in 1..Len(queue) /\ queue'[i] = queue[i]
  BY DEF Polled
<1>2. (\A x \in Requests : Answered(x)' => Answered(x)) /\ AnswersOnce'
  BY <1>1 DEF Answered, ToldOnce, AnswersOnce, Polled
<1>3. QED
  BY <1>2 DEF ToldOnce, Holds, At, Heard

\* Before a request is resolved, the agent was told no decision about it.
LEMMA UnresolvedUntold ==
  ASSUME LocalInv, NEW r \in Requests, resolved[r] = None
  PROVE  ~Heard(r)
<1>1. ASSUME NEW i \in 1..Len(submitted[r]), submitted[r][i] \in Decision PROVE FALSE
  <2>1. SaysSo(r, submitted[r][i]) /\ submitted[r][i] # "abort"
    BY <1>1 DEF LocalInv, ToldIsResolved, Decision
  <2>2. QED
    BY <1>1, <2>1, NoneAssumption DEF SaysSo, Decision
<1>2. QED
  BY <1>1 DEF Heard

\* One more word to the agent is a decision or leaves it as unaware as before.
LEMMA HeardAppend ==
  ASSUME submitted \in [Requests -> Seq(Told)], NEW r \in Requests, NEW d \in Told,
         submitted' = [submitted EXCEPT ![r] = Append(submitted[r], d)]
  PROVE  /\ \A x \in Requests \ {r} : Heard(x)' => Heard(x)
         /\ d \notin Decision => (Heard(r)' => Heard(r))
<1>1. ASSUME NEW x \in Requests \ {r} PROVE submitted'[x] = submitted[x]
  OBVIOUS
<1>2. submitted[r] \in Seq(Told) /\ submitted'[r] = Append(submitted[r], d)
  OBVIOUS
<1>3. \A i \in 1..Len(submitted'[r]) :
        (i \in 1..Len(submitted[r]) /\ submitted'[r][i] = submitted[r][i])
        \/ submitted'[r][i] = d
  BY <1>2
<1>4. QED
  BY <1>1, <1>3 DEF Heard

\* The poller answers once: the invariant is kept by every step.
LEMMA ToldOnceStep == ~Mirrored /\ LocalInv /\ ToldOnce /\ [Next]_vars => ToldOnce'
<1> SUFFICES ASSUME ~Mirrored, LocalInv, ToldOnce, [Next]_vars PROVE ToldOnce'
  OBVIOUS
<1> USE DEF registry, tui, backend
<1>1. TypeOK /\ queue \in Seq(TuiEvent) /\ submitted \in [Requests -> Seq(Told)]
  BY DEF LocalInv, TypeOK
<1>2. ASSUME NEW r \in Requests, Register(r) \/ CreateFails(r) \/ PollFails(r) PROVE ToldOnce'
  <2>1. /\ queue' = queue /\ submitted' = submitted /\ local' = local /\ caller' = caller
        /\ mirror[r] # "done" /\ \A x \in Requests \ {r} : mirror'[x] = mirror[x]
    BY <1>1, <1>2 DEF Register, UpsertClear, UpsertInsert, PostRequest, CreateFails, PollFails,
                      TypeOK
  <2>2. QED
    BY <2>1, ToldFrame DEF Holds, At
<1>3. ASSUME NEW r \in Requests, Poll(r) PROVE ToldOnce'
  <2>1. /\ mirror[r] = "poll" /\ mirror'[r] = "done"
        /\ \A x \in Requests \ {r} : mirror'[x] = mirror[x]
        /\ queue' = Append(queue, [req |-> r, decision |-> resolved[r], sync |-> FALSE])
        /\ UNCHANGED <<submitted, local, caller>>
    BY <1>1, <1>3 DEF Poll, TypeOK
  <2>2. \A i \in 1..Len(queue') :
          \/ i \in 1..Len(queue) /\ queue'[i] = queue[i]
          \/ i = Len(queue) + 1 /\ queue'[i] = [req |-> r, decision |-> resolved[r], sync |-> FALSE]
    BY <1>1, <2>1
  <2>3. ~Answered(r) /\ \A x \in Requests \ {r} : Answered(x)' => Answered(x)
    BY <2>1, <2>2 DEF ToldOnce, Answered, Polled
  <2>4. AnswersOnce'
    <3>1. \A i \in 1..Len(queue) : Polled(queue[i]) => queue[i].req # r
      BY <2>3 DEF Answered
    <3>2. QED
      BY <2>2, <3>1 DEF ToldOnce, AnswersOnce, Polled
  <2>5. \A x \in Requests : Answered(x)' => mirror'[x] = "done"
    BY <2>1, <2>3 DEF ToldOnce
  <2>6. \A x \in Requests : Holds(Tui, x)' => x \in local'
    BY <2>1 DEF ToldOnce, Holds, At
  <2>7. \A x \in Requests : Heard(x)' =>
          x \in local' \/ (mirror'[x] = "done" /\ ~Answered(x)')
    BY <2>1, <2>3 DEF ToldOnce, Heard
  <2>8. QED
    BY <2>4, <2>5, <2>6, <2>7 DEF ToldOnce
<1>4. ASSUME NEW e \in Endpoints, Advance(e) PROVE ToldOnce'
  <2>1. ~At(e, "idle")
    BY <1>4 DEF Advance, Persist, Sync, Settle, Store, RestoreClear, RestoreInsert, At
  <2>2. ASSUME NEW pc, Step(e, pc), NEW r \in Requests, Holds(Tui, r)' PROVE Holds(Tui, r)
    BY <1>1, <2>1, <2>2, TuiAssumption DEF Step, Holds, At, TypeOK, Caller
  <2>3. ASSUME Release(e), NEW r \in Requests, Holds(Tui, r)' PROVE Holds(Tui, r)
    BY <1>1, <2>3, TuiAssumption DEF Release, IdleCaller, Holds, At, TypeOK
  <2>4. /\ queue' = queue /\ local' = local /\ mirror' = mirror
        /\ \A r \in Requests : Holds(Tui, r)' => Holds(Tui, r)
    <3>1. Release(e) \/ \E pc : Step(e, pc)
      BY <1>4 DEF Advance, Persist, Sync, Settle, Store, RestoreClear, RestoreInsert
    <3>2. QED
      BY <1>4, <2>2, <2>3, <3>1
         DEF Advance, Persist, Sync, Settle, Store, RestoreClear, RestoreInsert
  <2>5. CASE submitted' = submitted
    BY <2>4, <2>5, ToldFrame
  <2>6. CASE submitted' # submitted
    <3>1. Store(e) /\ e = Tui
      BY <1>4, <2>6 DEF Advance, Persist, Sync, Settle, Store, RestoreClear, RestoreInsert
    <3>2. PICK r \in Requests : r = caller[Tui].req
      BY <1>1, <2>1, <3>1, BusyCaller
    <3>3. r \in local
      BY <2>1, <3>1, <3>2 DEF ToldOnce, Holds
    <3>4. \A x \in Requests \ {r} : submitted'[x] = submitted[x]
      BY <1>1, <3>1, <3>2 DEF Store, TypeOK
    <3>5. QED
      BY <2>4, <3>3, <3>4 DEF ToldOnce, AnswersOnce, Answered, Heard
  <2>7. QED
    BY <2>5, <2>6
<1>5. ASSUME NEW e \in Endpoints, NEW r \in Requests, NEW d \in Decision,
             NEW scope \in Scope, Claim(e, r, d, scope)
      PROVE  ToldOnce'
  <2>1. UNCHANGED <<queue, submitted, local, mirror>> /\ caller'[Tui] = caller[Tui]
    BY <1>1, <1>5, TuiAssumption DEF Claim, TypeOK
  <2>2. QED
    BY <2>1, ToldFrame DEF Holds, At
<1>6. ASSUME NEW r \in Requests, NEW d \in Decision, OverlayAnswer(r, d) PROVE ToldOnce'
  <2>1. PICK m \in TuiEvent : m = [req |-> r, decision |-> d, sync |-> TRUE]
    BY DEF TuiEvent, Decision, Told
  <2>2. /\ UNCHANGED <<submitted, local, mirror, caller>>
        /\ queue' = Append(queue, m) /\ ~Polled(m)
    BY <1>6, <2>1 DEF OverlayAnswer, Polled
  <2>3. QED
    BY <1>1, <2>2, OtherEntry
<1>11. ASSUME NEW r \in Requests, OverlayAbort(r) PROVE ToldOnce'
  <2>1. PICK m \in TuiEvent : m = [req |-> r, decision |-> "abort", sync |-> FALSE]
    BY DEF TuiEvent, Told
  <2>2. /\ UNCHANGED <<submitted, local, mirror, caller>>
        /\ queue' = Append(queue, m) /\ ~Polled(m)
    BY <1>11, <2>1 DEF OverlayAbort, Polled
  <2>3. QED
    BY <1>1, <2>2, OtherEntry
<1>7. ASSUME NEW scope \in Scope, HandleLocal(scope) PROVE ToldOnce'
  <2>1. PICK r \in Requests : r = Head(queue).req
    <3>1. Head(queue) \in TuiEvent
      BY <1>1, <1>7 DEF HandleLocal
    <3>2. QED
      BY <3>1 DEF TuiEvent
  <2>2. /\ queue # <<>> /\ queue' = Tail(queue) /\ UNCHANGED <<submitted, mirror>>
        /\ local' = local \cup {r} /\ At(Tui, "idle")
    BY <1>7, <2>1 DEF HandleLocal
  <2>3. \A x \in Requests : Holds(Tui, x)' => x = r
    <3>1. CASE r \in pending
      BY <1>1, <1>7, <2>1, <3>1, TuiAssumption DEF HandleLocal, Holds, At, TypeOK
    <3>2. CASE r \notin pending
      BY <1>7, <2>1, <3>2 DEF HandleLocal, Holds, At
    <3>3. QED
      BY <3>1, <3>2
  <2>4. (\A x \in Requests : Answered(x)' => Answered(x)) /\ AnswersOnce'
    BY <1>1, <2>2, QueueTail
  <2>5. QED
    BY <2>2, <2>3, <2>4 DEF ToldOnce, Heard
<1>8. CASE HandleResolution
  <2>1. PICK r \in Requests : r = Head(queue).req
    <3>1. Head(queue) \in TuiEvent
      BY <1>1, <1>8 DEF HandleResolution
    <3>2. QED
      BY <3>1 DEF TuiEvent
  <2>2. /\ queue # <<>> /\ Polled(Head(queue)) /\ queue' = Tail(queue)
        /\ UNCHANGED <<mirror, caller>> /\ At(Tui, "idle") /\ local \ {r} \subseteq local'
        /\ \A x \in Requests \ {r} : submitted'[x] = submitted[x]
    BY <1>1, <1>8, <2>1 DEF HandleResolution, Polled, TypeOK
  <2>3. /\ \A x \in Requests : Answered(x)' => Answered(x)
        /\ AnswersOnce'
        /\ Answered(r) /\ ~Answered(r)'
    BY <1>1, <2>1, <2>2, QueueTail
  <2>4. mirror'[r] = "done"
    BY <2>2, <2>3 DEF ToldOnce
  <2>5. \A x \in Requests : ~Holds(Tui, x)'
    BY <2>2 DEF Holds, At
  <2>6. QED
    BY <2>2, <2>3, <2>4, <2>5 DEF ToldOnce, Heard
<1>12. CASE HandleAbort
  <2>1. PICK r \in Requests : r = Head(queue).req
    <3>1. Head(queue) \in TuiEvent
      BY <1>1, <1>12 DEF HandleAbort
    <3>2. QED
      BY <3>1 DEF TuiEvent
  <2>2. /\ queue # <<>> /\ queue' = Tail(queue) /\ UNCHANGED <<mirror, caller, local>>
        /\ submitted' = [submitted EXCEPT ![r] = Append(submitted[r], "abort")]
    BY <1>12, <2>1 DEF HandleAbort
  <2>3. \A x \in Requests : Heard(x)' => Heard(x)
    <3>1. "abort" \in Told /\ "abort" \notin Decision
      BY DEF Told, Decision
    <3>2. QED
      BY <1>1, <2>2, <3>1, HeardAppend
  <2>4. (\A x \in Requests : Answered(x)' => Answered(x)) /\ AnswersOnce'
    BY <1>1, <2>2, QueueTail
  <2>5. QED
    BY <2>2, <2>3, <2>4 DEF ToldOnce, Holds, At
<1>9. CASE \/ \E r \in Requests, d \in Decision : PhoneAnswer(r, d)
           \/ \E e \in Endpoints, r \in Requests : ClaimUnoffered(e, r)
           \/ Receive \/ Apply \/ Disconnect \/ Reconnect \/ UNCHANGED vars
  <2>1. UNCHANGED <<queue, submitted, local, mirror, caller>>
    BY <1>9 DEF PhoneAnswer, ClaimUnoffered, Receive, Apply, Disconnect, Reconnect, vars
  <2>2. QED
    BY <2>1, ToldFrame DEF Holds, At
<1>10. QED
  BY <1>2, <1>3, <1>4, <1>5, <1>6, <1>7, <1>8, <1>9, <1>11, <1>12 DEF Next, Choices, TuiLoop

\* A step of the detailed system decides a request, tells the agent, or is
\* one that nobody who asked or answered can tell.
LEMMA OneShotStep ==
  ASSUME ~Mirrored, LocalInv, ToldOnce, [Next]_vars
  PROVE  [OneShot!Next]_(OneShot!vars)
<1> USE DEF registry, tui, backend
<1>1. TypeOK
  BY DEF LocalInv
<1>2. ASSUME NEW e \in Endpoints, Store(e), ~At(e, "idle"), resolved[caller[e].req] = None
      PROVE  OneShot!Next
  <2>1. PICK r \in Requests, d \in Decision : r = caller[e].req /\ d = caller[e].decision
    BY <1>1, <1>2, BusyCaller
  <2>2. acked[r] = {}
    BY <1>2, <2>1 DEF LocalInv, AckedIsResolved
  <2>3. /\ resolved' = [resolved EXCEPT ![r] = d]
        /\ acked' = [acked EXCEPT ![r] = {d}]
    BY <1>1, <1>2, <2>1, <2>2 DEF Store, TypeOK
  <2>4. \/ submitted' = submitted
        \/ submitted' = [submitted EXCEPT ![r] = Append(@, d)]
    BY <1>1, <1>2, <2>1 DEF Store, TypeOK
  <2>5. OneShot!Choose(r, d)
    BY <1>2, <2>1, <2>3, <2>4 DEF OneShot!Choose, OneShot!Tell
  <2>6. QED
    BY <2>5 DEF OneShot!Next
<1>3. CASE resolved' = resolved /\ acked' = acked /\ HandleResolution
  <2>1. PICK r \in Requests : r = Head(queue).req
    <3>1. Head(queue) \in TuiEvent
      BY <1>1, <1>3 DEF HandleResolution, TypeOK
    <3>2. QED
      BY <3>1 DEF TuiEvent
  <2>2. CASE r \in local
    BY <1>3, <2>1, <2>2 DEF HandleResolution, OneShot!vars
  <2>3. CASE r \notin local
    <3>1. 1 \in 1..Len(queue) /\ Head(queue) = queue[1] /\ Polled(queue[1]) /\ queue[1] \in TuiEvent
      BY <1>1, <1>3 DEF HandleResolution, TypeOK, Polled
    <3>2. SaysSo(r, queue[1].decision)
      BY <2>1, <3>1 DEF LocalInv, ToldIsResolved, Polled
    <3>3. Answered(r) /\ resolved[r] = Head(queue).decision /\ resolved[r] # None
      BY <2>1, <3>1, <3>2, NoneAssumption
         DEF Answered, SaysSo, TuiEvent, Told, Decision, Polled
    <3>4. ~Heard(r)
      BY <2>3, <3>3 DEF ToldOnce
    <3>5. submitted' = [submitted EXCEPT ![r] = Append(@, resolved[r])]
      BY <1>3, <2>1, <2>3, <3>3 DEF HandleResolution
    <3>6. OneShot!Obey(r)
      BY <1>3, <3>3, <3>4, <3>5 DEF OneShot!Obey, OneShot!Tell, OneShot!Decided, Heard
    <3>7. QED
      BY <3>6 DEF OneShot!Next
  <2>4. QED
    BY <2>2, <2>3
<1>7. CASE HandleAbort
  <2>1. PICK r \in Requests : r = Head(queue).req
    <3>1. Head(queue) \in TuiEvent
      BY <1>1, <1>7 DEF HandleAbort, TypeOK
    <3>2. QED
      BY <3>1 DEF TuiEvent
  <2>2. OneShot!Abort(r)
    BY <1>7, <2>1 DEF HandleAbort, OneShot!Abort, OneShot!Tell
  <2>3. QED
    BY <2>2 DEF OneShot!Next
<1>4. CASE resolved' = resolved /\ acked' = acked /\ ~HandleResolution /\ ~HandleAbort
           /\ ~(\E e \in Endpoints : Store(e))
  <2>1. submitted' = submitted
    BY <1>4 DEF Next, Register, UpsertClear, UpsertInsert, PostRequest, CreateFails, Poll,
                PollFails, Advance, Persist, Sync, Settle, RestoreClear, RestoreInsert, Choices,
                Claim, ClaimUnoffered, PhoneAnswer, OverlayAnswer, OverlayAbort, TuiLoop,
                HandleLocal, Receive, Apply, Disconnect, Reconnect, vars
  <2>2. QED
    BY <1>4, <2>1 DEF OneShot!vars
<1>5. ASSUME NEW e \in Endpoints, Store(e)
      PROVE  ~At(e, "idle") /\ resolved[caller[e].req] = None
  <2>1. ~At(e, "idle")
    BY <1>5 DEF Store, At
  <2>2. caller[e].req \in Requests /\ Holds(e, caller[e].req)
    BY <1>1, <2>1, BusyCaller DEF Holds
  <2>3. QED
    BY <2>1, <2>2 DEF LocalInv, TokenIsUnique
<1>6. QED
  BY <1>2, <1>3, <1>4, <1>5, <1>7, ResolvedOnce

\* Without a mirror, the endpoints, the registry, the poller and the overlay
\* together do no more than decide a request once and tell the agent once.
THEOREM ImplementsOneShotLocal == ~Mirrored => (Spec => ImplementsOneShot)
<1> SUFFICES ASSUME ~Mirrored PROVE Spec => ImplementsOneShot
  OBVIOUS
<1>1. Init => ToldOnce
  <2>1. SUFFICES ASSUME Init PROVE ToldOnce
    OBVIOUS
  <2>2. queue = <<>> /\ 1..Len(queue) = {}
    BY <2>1 DEF Init
  <2>3. \A r \in Requests : ~Holds(Tui, r)
    BY <2>1, TuiAssumption DEF Init, Holds, At, IdleCaller
  <2>5. \A r \in Requests : submitted[r] = <<>>
    BY <2>1 DEF Init
  <2>6. 1..Len(<<>>) = {}
    OBVIOUS
  <2>7. \A r \in Requests : ~Heard(r)
    BY <2>5, <2>6 DEF Heard
  <2>4. QED
    BY <2>2, <2>3, <2>7 DEF ToldOnce, AnswersOnce, Answered
<1>2. LocalInv /\ ToldOnce /\ [Next]_vars => ToldOnce'
  BY ToldOnceStep
<1>3. Init => OneShot!Init
  BY DEF Init, OneShot!Init
<1>4. LocalInv /\ ToldOnce /\ [Next]_vars => [OneShot!Next]_(OneShot!vars)
  BY OneShotStep
<1>5. QED
  BY <1>1, <1>2, <1>3, <1>4, LocalInvariant, PTL DEF Spec, ImplementsOneShot, OneShot!Spec

-----------------------------------------------------------------------------
(* The rules                                                               *)

CONSTANTS Commands, AgentRules, Settings, Handlers, PolicySessions, DefaultDeny, MaxHandled
VARIABLES ruleFiles, sessionRules, policy, runtimeMode, handling, handled, loose

Rules == INSTANCE ShellRules

RuleSets == [mode : {"ask", "allow", "deny"}, allow : SUBSET Commands, deny : SUBSET Commands]
Calls == [at : {"rebuild", "done"}, session : PolicySessions]
         \cup [at : {"save"}, session : PolicySessions, scope : {"global", "workspace"},
               rebuild : BOOLEAN, rules : RuleSets]
         \cup [at : {"write"}, session : PolicySessions, rules : RuleSets]

(* What the constants are: a command is a sequence of tokens, and the rules *)
(* of the agent, the settings and the default name commands.               *)
RulesWellFormed ==
  /\ \E Tokens : Commands \subseteq Seq(Tokens)
  /\ AgentRules \in RuleSets /\ Settings \subseteq RuleSets /\ DefaultDeny \subseteq Commands
  /\ None \notin RuleSets \cup Calls

RulesTyped ==
  /\ ruleFiles \in [{"global", "workspace"} -> RuleSets \cup {None}]
  /\ sessionRules \in [PolicySessions -> RuleSets]
  /\ policy \in [PolicySessions -> RuleSets]
  /\ handling \in [Handlers -> Calls \cup {None}]

(* A rule of the set covers the command.                                   *)
Covered(rules, c) == \E p \in rules : Rules!is_prefix_tokens(p, c)

CallAt(h, at, s) == handling[h] # None /\ handling[h].at = at /\ handling[h].session = s

(* A policy that nobody is to rebuild covers what the session denies, and   *)
(* the one handler that is to write it has read that.                      *)
FollowsIn(s) ==
  /\ \A g, h \in Handlers : CallAt(g, "write", s) /\ CallAt(h, "write", s) => g = h
  /\ (\A h \in Handlers : ~CallAt(h, "rebuild", s)) =>
       /\ \A h \in Handlers : CallAt(h, "write", s) => handling[h].rules = sessionRules[s]
       /\ (\A h \in Handlers : ~CallAt(h, "write", s)) =>
            \A p \in sessionRules[s].deny : Covered(policy[s].deny, p)

PolicyFollows == \A s \in PolicySessions \ loose : FollowsIn(s)

RulesInv == RulesTyped /\ PolicyFollows

(* A set of naturals has a least element.                                  *)
LEMMA Least ==
  ASSUME NEW T \in SUBSET Nat, T # {}
  PROVE  \E m \in T : \A n \in T : m <= n
<1> DEFINE F == {0..n : n \in T}
<1>1. F \subseteq FiniteSubsetsOf(Nat) /\ F # {}
  <2>1. \A n \in T : 0..n \in SUBSET Nat /\ IsFiniteSet(0..n)
    BY FS_Interval
  <2>2. QED
    BY <2>1 DEF FiniteSubsetsOf
<1>2. PICK x \in F : \A y \in F : ~(<<y, x>> \in StrictSubsetOrdering(Nat))
  BY <1>1, FS_StrictSubsetOrderingWellFounded, WFMin
<1>3. PICK m \in T : x = 0..m
  BY <1>2
<1>4. ASSUME NEW n \in T, n < m PROVE FALSE
  <2>1. 0..n \in SUBSET Nat /\ 0..m \in SUBSET Nat
    OBVIOUS
  <2>2. 0..n \subseteq 0..m /\ m \in 0..m /\ m \notin 0..n
    BY <1>4
  <2>3. <<0..n, 0..m>> \in StrictSubsetOrdering(Nat)
    BY <2>1, <2>2 DEF StrictSubsetOrdering
  <2>4. QED
    BY <1>2, <1>3, <2>3
<1>5. QED
  BY <1>4

(* Being a prefix is a partial order of the commands.                      *)
LEMMA PrefixOrder ==
  ASSUME RulesWellFormed
  PROVE  /\ \A c \in Commands : Len(c) \in Nat /\ Rules!is_prefix_tokens(c, c)
         /\ \A p, q, c \in Commands : /\ Rules!is_prefix_tokens(p, q)
                                      /\ Rules!is_prefix_tokens(q, c)
                                      => Rules!is_prefix_tokens(p, c)
         /\ \A p, q \in Commands : /\ Rules!is_prefix_tokens(p, q) /\ Len(q) <= Len(p)
                                   => p = q
<1>1. PICK Tokens : Commands \subseteq Seq(Tokens)
  BY DEF RulesWellFormed
<1>2. \A c \in Commands : Len(c) \in Nat /\ Rules!is_prefix_tokens(c, c)
  BY <1>1 DEF Rules!is_prefix_tokens
<1>3. ASSUME NEW p \in Commands, NEW q \in Commands, NEW c \in Commands,
             Rules!is_prefix_tokens(p, q), Rules!is_prefix_tokens(q, c)
      PROVE  Rules!is_prefix_tokens(p, c)
  <2>1. PICK l \in Nat, m \in Nat, n \in Nat : l = Len(p) /\ m = Len(q) /\ n = Len(c)
    BY <1>2
  <2>2. l <= m /\ m <= n /\ 1..l \subseteq 1..m
    BY <1>3, <2>1 DEF Rules!is_prefix_tokens
  <2>3. \A i \in 1..l : p[i] = c[i]
    BY <1>3, <2>1, <2>2 DEF Rules!is_prefix_tokens
  <2>4. QED
    BY <2>1, <2>2, <2>3 DEF Rules!is_prefix_tokens
<1>4. ASSUME NEW p \in Commands, NEW q \in Commands,
             Rules!is_prefix_tokens(p, q), Len(q) <= Len(p)
      PROVE  p = q
  <2>1. Len(p) = Len(q) /\ \A i \in 1..Len(p) : p[i] = q[i]
    BY <1>2, <1>4 DEF Rules!is_prefix_tokens
  <2>2. p \in Seq(Tokens) /\ q \in Seq(Tokens)
    BY <1>1
  <2>3. QED
    BY <2>1, <2>2
<1>5. QED
  BY <1>2, <1>3, <1>4

(* The broadest rules cover what all of them cover.                        *)
LEMMA BroadestCover ==
  ASSUME RulesWellFormed, NEW items \in SUBSET Commands, NEW c \in items
  PROVE  \E p \in Rules!normalize_shell_rule_list(items) : Rules!is_prefix_tokens(p, c)
<1> DEFINE Above == {p \in items : Rules!is_prefix_tokens(p, c)}
           Lengths == {Len(p) : p \in Above}
<1>1. c \in Above /\ Lengths \in SUBSET Nat /\ Lengths # {}
  <2>1. c \in Above
    BY PrefixOrder
  <2>2. \A p \in Above : Len(p) \in Nat
    BY PrefixOrder
  <2>3. QED
    BY <2>1, <2>2
<1>2. PICK m \in Lengths : \A n \in Lengths : m <= n
  BY <1>1, Least
<1>3. PICK p \in Above : Len(p) = m
  BY <1>2
<1>4. ASSUME NEW y \in items, Rules!is_prefix_tokens(y, p) PROVE y = p
  <2>1. y \in Above
    BY <1>3, <1>4, PrefixOrder
  <2>2. Len(p) <= Len(y)
    BY <1>2, <1>3, <2>1
  <2>3. QED
    BY <1>3, <1>4, <2>2, PrefixOrder
<1>5. QED
  BY <1>3, <1>4 DEF Rules!normalize_shell_rule_list
(* The broadest rules match and survive as all of them do: what a later     *)
(* rule takes back of a broad one it takes back of those it covers.        *)
LEMMA BroadestStand ==
  ASSUME RulesWellFormed, NEW items \in SUBSET Commands, NEW later \in SUBSET Commands,
         NEW c \in Commands
  PROVE  (\E p \in Rules!normalize_shell_rule_list(items) :
              Rules!is_prefix_tokens(p, c) /\ ~Covered(later, p))
         <=> (\E p \in items : Rules!is_prefix_tokens(p, c) /\ ~Covered(later, p))
<1>1. ASSUME NEW p \in items, Rules!is_prefix_tokens(p, c), ~Covered(later, p)
      PROVE  \E q \in Rules!normalize_shell_rule_list(items) :
               Rules!is_prefix_tokens(q, c) /\ ~Covered(later, q)
  <2>1. PICK q \in Rules!normalize_shell_rule_list(items) : Rules!is_prefix_tokens(q, p)
    BY BroadestCover
  <2>2. q \in Commands /\ p \in Commands
    BY <2>1 DEF Rules!normalize_shell_rule_list
  <2>3. Rules!is_prefix_tokens(q, c)
    BY <1>1, <2>1, <2>2, PrefixOrder
  <2>4. ~Covered(later, q)
    BY <1>1, <2>1, <2>2, PrefixOrder DEF Covered
  <2>5. QED
    BY <2>1, <2>3, <2>4
<1>2. QED
  BY <1>1 DEF Rules!normalize_shell_rule_list

(* What a merge denies: what the overlay denies, and what the base denies   *)
(* and the overlay does not take back.                                     *)
LEMMA MergeDenies ==
  ASSUME RulesWellFormed, NEW base \in RuleSets, NEW added \in RuleSets,
         NEW later \in SUBSET Commands, NEW c \in Commands
  PROVE  (\E p \in Rules!merge_shell_rule_prefixes(base, added).deny :
              Rules!is_prefix_tokens(p, c) /\ ~Covered(later, p))
         <=> \/ \E p \in added.deny : Rules!is_prefix_tokens(p, c) /\ ~Covered(later, p)
             \/ \E p \in base.deny : /\ Rules!is_prefix_tokens(p, c) /\ ~Covered(later, p)
                                     /\ ~Covered(added.allow, p)
<1> DEFINE old == Rules!Uncovered(base.deny, added.allow)
           all == Rules!Uncovered(old, added.deny) \cup added.deny
<1>1. /\ base.deny \subseteq Commands /\ added.deny \subseteq Commands
      /\ added.allow \subseteq Commands
  BY DEF RuleSets
<1>2. all \in SUBSET Commands
  BY <1>1 DEF Rules!Uncovered
<1>3. Rules!merge_shell_rule_prefixes(base, added).deny = Rules!normalize_shell_rule_list(all)
  BY DEF RuleSets, Rules!merge_shell_rule_prefixes, Rules!normalize_shell_rules, Rules!DenyAll,
         Rules!AllowAll, Rules!upsert_shell_rule, Rules!prune_opposite_rules
<1>4. ASSUME NEW p \in base.deny, Rules!is_prefix_tokens(p, c), ~Covered(later, p),
             ~Covered(added.allow, p)
      PROVE  \E q \in all : Rules!is_prefix_tokens(q, c) /\ ~Covered(later, q)
  <2>1. p \in old
    BY <1>4 DEF Rules!Uncovered, Covered
  <2>2. CASE Covered(added.deny, p)
    <3>1. PICK d \in added.deny : Rules!is_prefix_tokens(d, p)
      BY <2>2 DEF Covered
    <3>2. d \in Commands /\ p \in Commands
      BY <1>1, <3>1
    <3>3. Rules!is_prefix_tokens(d, c) /\ ~Covered(later, d)
      BY <1>4, <3>1, <3>2, PrefixOrder DEF Covered
    <3>4. QED
      BY <3>1, <3>3
  <2>3. CASE ~Covered(added.deny, p)
    BY <1>4, <2>1, <2>3 DEF Rules!Uncovered, Covered
  <2>4. QED
    BY <2>2, <2>3
<1>5. ASSUME NEW p \in all, Rules!is_prefix_tokens(p, c), ~Covered(later, p)
      PROVE  \/ p \in added.deny
             \/ p \in base.deny /\ ~Covered(added.allow, p)
  BY DEF Rules!Uncovered, Covered
<1> HIDE DEF all
<1>6. (\E p \in all : Rules!is_prefix_tokens(p, c) /\ ~Covered(later, p))
      <=> \/ \E p \in added.deny : Rules!is_prefix_tokens(p, c) /\ ~Covered(later, p)
          \/ \E p \in base.deny : /\ Rules!is_prefix_tokens(p, c) /\ ~Covered(later, p)
                                  /\ ~Covered(added.allow, p)
  <2>1. added.deny \subseteq all
    BY DEF all
  <2>2. QED
    BY <1>4, <1>5, <2>1
<1>7. QED
  BY <1>2, <1>3, <1>6, BroadestStand

(* What it allows: what either does and the overlay does not deny.         *)
LEMMA MergeAllows ==
  ASSUME RulesWellFormed, NEW base \in RuleSets, NEW added \in RuleSets,
         NEW later \in SUBSET Commands, NEW c \in Commands
  PROVE  (\E p \in Rules!merge_shell_rule_prefixes(base, added).allow :
              Rules!is_prefix_tokens(p, c) /\ ~Covered(later, p))
         <=> \E p \in added.allow \cup base.allow :
               /\ Rules!is_prefix_tokens(p, c) /\ ~Covered(later, p)
               /\ ~Covered(added.deny, p)
<1> DEFINE most == Rules!Uncovered(base.allow, added.allow) \cup added.allow
           all == Rules!Uncovered(most, added.deny)
<1>1. /\ base.allow \subseteq Commands /\ added.deny \subseteq Commands
      /\ added.allow \subseteq Commands
  BY DEF RuleSets
<1>2. all \in SUBSET Commands
  BY <1>1 DEF Rules!Uncovered
<1>3. Rules!merge_shell_rule_prefixes(base, added).allow = Rules!normalize_shell_rule_list(all)
  BY DEF RuleSets, Rules!merge_shell_rule_prefixes, Rules!normalize_shell_rules, Rules!DenyAll,
         Rules!AllowAll, Rules!upsert_shell_rule, Rules!prune_opposite_rules
<1>4. ASSUME NEW p \in added.allow, ~Covered(added.deny, p) PROVE p \in all
  BY <1>4 DEF Rules!Uncovered, Covered
<1>5. ASSUME NEW p \in base.allow, Rules!is_prefix_tokens(p, c), ~Covered(later, p),
             ~Covered(added.deny, p)
      PROVE  \E q \in all : Rules!is_prefix_tokens(q, c) /\ ~Covered(later, q)
  <2>1. CASE Covered(added.allow, p)
    <3>1. PICK a \in added.allow : Rules!is_prefix_tokens(a, p)
      BY <2>1 DEF Covered
    <3>2. a \in Commands /\ p \in Commands
      BY <1>1, <3>1
    <3>3. Rules!is_prefix_tokens(a, c) /\ ~Covered(later, a) /\ ~Covered(added.deny, a)
      <4>1. \A S \in SUBSET Commands : ~Covered(S, p) => ~Covered(S, a)
        BY <3>1, <3>2, PrefixOrder DEF Covered
      <4>2. QED
        BY <1>1, <1>5, <3>1, <3>2, <4>1, PrefixOrder
    <3>4. QED
      BY <1>4, <3>1, <3>3
  <2>2. CASE ~Covered(added.allow, p)
    BY <1>5, <2>2 DEF Rules!Uncovered, Covered
  <2>3. QED
    BY <2>1, <2>2
<1>6. ASSUME NEW p \in all
      PROVE  p \in added.allow \cup base.allow /\ ~Covered(added.deny, p)
  BY DEF Rules!Uncovered, Covered
<1> HIDE DEF all
<1>7. (\E p \in all : Rules!is_prefix_tokens(p, c) /\ ~Covered(later, p))
      <=> \E p \in added.allow \cup base.allow :
            /\ Rules!is_prefix_tokens(p, c) /\ ~Covered(later, p)
            /\ ~Covered(added.deny, p)
  BY <1>4, <1>5, <1>6
<1>8. QED
  BY <1>2, <1>3, <1>7, BroadestStand

(* Merging rules gives rules.                                              *)
LEMMA MergeType ==
  ASSUME NEW base \in RuleSets, NEW added \in RuleSets
  PROVE  /\ Rules!merge_shell_rule_prefixes(base, added) \in RuleSets
         /\ Rules!merge_shell_rules(base, added) \in RuleSets
         /\ \A field \in {"allow", "deny"} : Rules!merge_shell_rules(base, added)[field]
                                = Rules!merge_shell_rule_prefixes(base, added)[field]
<1>1. ASSUME NEW r \in RuleSets PROVE Rules!normalize_shell_rules(r) \in RuleSets
  BY DEF RuleSets, Rules!normalize_shell_rules, Rules!normalize_shell_rule_list
<1>2. Rules!DenyAll(Rules!AllowAll(base, added.allow), added.deny) \in RuleSets
  BY DEF RuleSets, Rules!DenyAll, Rules!AllowAll, Rules!upsert_shell_rule,
         Rules!prune_opposite_rules, Rules!Uncovered
<1>3. Rules!merge_shell_rule_prefixes(base, added) \in RuleSets
  BY <1>1, <1>2 DEF Rules!merge_shell_rule_prefixes
<1> DEFINE m == Rules!merge_shell_rule_prefixes(base, added)
<1>4. Rules!merge_shell_rules(base, added) = [m EXCEPT !.mode = added.mode]
  BY DEF Rules!merge_shell_rules
<1> HIDE DEF m
<1>5. m \in RuleSets
  BY <1>3 DEF m
<1>6. /\ Rules!merge_shell_rules(base, added) \in RuleSets
      /\ Rules!merge_shell_rules(base, added).allow = m.allow
      /\ Rules!merge_shell_rules(base, added).deny = m.deny
  BY <1>4, <1>5 DEF RuleSets
<1>7. QED
  BY <1>3, <1>6 DEF m

(* A rule that matches the command and that no later rule takes back.      *)
Stands(rules, later, c) == \E p \in rules : Rules!is_prefix_tokens(p, c) /\ ~Covered(later, p)

Judged(denied, allowed, mode) ==
  IF denied THEN "deny" ELSE IF allowed THEN "allow" ELSE mode

LEMMA VerdictOf ==
  ASSUME NEW r, NEW c, NEW mode
  PROVE  Rules!Verdict(r, c, mode) = Judged(Stands(r.deny, {}, c), Stands(r.allow, {}, c), mode)
  BY DEF Rules!Verdict, Judged, Stands, Covered

(* What layers say of a command: whether it is denied, and allowed.        *)
Denied(u, v, w, x, c) ==
  \/ Stands(u.deny, v.allow \cup w.allow \cup x.allow, c)
  \/ Stands(v.deny, w.allow \cup x.allow, c)
  \/ Stands(w.deny, x.allow, c)
  \/ Stands(x.deny, {}, c)

Allowed(u, v, w, x, c) ==
  \/ Stands(u.allow, u.deny \cup v.deny \cup w.deny \cup x.deny, c)
  \/ Stands(v.allow, v.deny \cup w.deny \cup x.deny, c)
  \/ Stands(w.allow, w.deny \cup x.deny, c)
  \/ Stands(x.allow, x.deny, c)

(* Without a workspace its layer is empty.                                 *)
NoRules == [mode |-> "ask", allow |-> {}, deny |-> {}]

(* Four layers say that.                                                  *)
LEMMA FourLayers ==
  ASSUME NEW u, NEW v, NEW w, NEW x, NEW c, NEW mode
  PROVE  Rules!LayeredVerdict(<<u, v, w, x>>, c, mode)
         = Judged(Denied(u, v, w, x, c), Allowed(u, v, w, x, c), mode)
<1> DEFINE layers == <<u, v, w, x>>
           Names(i, field) == {p \in layers[i][field] : Rules!is_prefix_tokens(p, c)}
           Retracted(field, p, later) ==
             \E j \in later : \E q \in layers[j][field] : Rules!is_prefix_tokens(q, p)
           denied == \E i \in 1..4 : \E p \in Names(i, "deny") : ~Retracted("allow", p, (i + 1)..4)
           allowed == \E i \in 1..4 : \E p \in Names(i, "allow") : ~Retracted("deny", p, i..4)
<1>1. /\ layers[1] = u /\ layers[2] = v /\ layers[3] = w /\ layers[4] = x /\ Len(layers) = 4
      /\ 1..4 = {1, 2, 3, 4} /\ 2..4 = {2, 3, 4} /\ 3..4 = {3, 4} /\ 4..4 = {4} /\ 5..4 = {}
      /\ 1 + 1 = 2 /\ 2 + 1 = 3 /\ 3 + 1 = 4 /\ 4 + 1 = 5
  OBVIOUS
<1>2. Rules!LayeredVerdict(layers, c, mode) = Judged(denied, allowed, mode)
  BY <1>1 DEF Rules!LayeredVerdict, Judged
<1> HIDE DEF layers
<1>3. denied <=> Denied(u, v, w, x, c)
  BY <1>1 DEF Denied, Stands, Covered
<1>4. allowed <=> Allowed(u, v, w, x, c)
  BY <1>1 DEF Allowed, Stands, Covered
<1> HIDE DEF denied, allowed
<1>5. QED
  BY <1>2, <1>3, <1>4 DEF layers, Judged

(* So do three, the workspace's being empty.                               *)
LEMMA ThreeLayers ==
  ASSUME NEW u, NEW v, NEW x, NEW c, NEW mode
  PROVE  Rules!LayeredVerdict(<<u, v, x>>, c, mode)
         = Judged(Denied(u, v, NoRules, x, c), Allowed(u, v, NoRules, x, c), mode)
<1> DEFINE layers == <<u, v, x>>
           Names(i, field) == {p \in layers[i][field] : Rules!is_prefix_tokens(p, c)}
           Retracted(field, p, later) ==
             \E j \in later : \E q \in layers[j][field] : Rules!is_prefix_tokens(q, p)
           denied == \E i \in 1..3 : \E p \in Names(i, "deny") : ~Retracted("allow", p, (i + 1)..3)
           allowed == \E i \in 1..3 : \E p \in Names(i, "allow") : ~Retracted("deny", p, i..3)
<1>1. /\ layers[1] = u /\ layers[2] = v /\ layers[3] = x /\ Len(layers) = 3
      /\ 1..3 = {1, 2, 3} /\ 2..3 = {2, 3} /\ 3..3 = {3} /\ 4..3 = {}
      /\ 1 + 1 = 2 /\ 2 + 1 = 3 /\ 3 + 1 = 4
  OBVIOUS
<1>2. Rules!LayeredVerdict(layers, c, mode) = Judged(denied, allowed, mode)
  BY <1>1 DEF Rules!LayeredVerdict, Judged
<1> HIDE DEF layers
<1>3. denied <=> Denied(u, v, NoRules, x, c)
  BY <1>1 DEF Denied, Stands, Covered, NoRules
<1>4. allowed <=> Allowed(u, v, NoRules, x, c)
  BY <1>1 DEF Allowed, Stands, Covered, NoRules
<1> HIDE DEF denied, allowed
<1>5. QED
  BY <1>2, <1>3, <1>4 DEF layers, Judged

(* A merge, in these words.                                                *)
LEMMA MergeStands ==
  ASSUME RulesWellFormed, NEW base \in RuleSets, NEW added \in RuleSets,
         NEW later \in SUBSET Commands, NEW c \in Commands
  PROVE  /\ Stands(Rules!merge_shell_rule_prefixes(base, added).deny, later, c)
            <=> Stands(added.deny, later, c) \/ Stands(base.deny, added.allow \cup later, c)
         /\ Stands(Rules!merge_shell_rule_prefixes(base, added).allow, later, c)
            <=> \/ Stands(added.allow, added.deny \cup later, c)
                \/ Stands(base.allow, added.deny \cup later, c)
<1>1. \A S, T, p : Covered(S \cup T, p) <=> Covered(S, p) \/ Covered(T, p)
  BY DEF Covered
<1>2. Stands(Rules!merge_shell_rule_prefixes(base, added).deny, later, c)
      <=> Stands(added.deny, later, c) \/ Stands(base.deny, added.allow \cup later, c)
  <2> DEFINE merged == Rules!merge_shell_rule_prefixes(base, added).deny
  <2>1. Stands(merged, later, c)
        <=> \/ Stands(added.deny, later, c)
            \/ \E p \in base.deny : /\ Rules!is_prefix_tokens(p, c) /\ ~Covered(later, p)
                                    /\ ~Covered(added.allow, p)
    BY MergeDenies DEF Stands
  <2> HIDE DEF merged
  <2>2. Stands(merged, later, c)
        <=> Stands(added.deny, later, c) \/ Stands(base.deny, added.allow \cup later, c)
    BY <1>1, <2>1 DEF Stands
  <2>3. QED
    BY <2>2 DEF merged
<1>3. Stands(Rules!merge_shell_rule_prefixes(base, added).allow, later, c)
      <=> \/ Stands(added.allow, added.deny \cup later, c)
          \/ Stands(base.allow, added.deny \cup later, c)
  <2> DEFINE merged == Rules!merge_shell_rule_prefixes(base, added).allow
  <2>1. Stands(merged, later, c)
        <=> \E p \in added.allow \cup base.allow :
              /\ Rules!is_prefix_tokens(p, c) /\ ~Covered(later, p)
              /\ ~Covered(added.deny, p)
    BY MergeAllows DEF Stands
  <2> HIDE DEF merged
  <2>2. Stands(merged, later, c)
        <=> \/ Stands(added.allow, added.deny \cup later, c)
            \/ Stands(base.allow, added.deny \cup later, c)
    BY <1>1, <2>1 DEF Stands
  <2>3. QED
    BY <2>2 DEF merged
<1>4. QED
  BY <1>2, <1>3


(* A rule that matches is taken back by one that matches as well.          *)
Matches(rules, c) == \E p \in rules : Rules!is_prefix_tokens(p, c)

LEMMA MatchesStands ==
  ASSUME RulesWellFormed, NEW S \in SUBSET Commands, NEW T \in SUBSET Commands,
         NEW c \in Commands
  PROVE  /\ Stands(S, T, c) => Matches(S, c)
         /\ Matches(S, c) => Stands(S, T, c) \/ Matches(T, c)
         /\ Stands(S, {}, c) <=> Matches(S, c)
<1>1. Stands(S, T, c) => Matches(S, c)
  BY DEF Stands, Matches
<1>2. ASSUME NEW p \in S, Rules!is_prefix_tokens(p, c), ~Stands(S, T, c)
      PROVE  Matches(T, c)
  <2>1. PICK q \in T : Rules!is_prefix_tokens(q, p)
    BY <1>2 DEF Stands, Covered
  <2>2. p \in Commands /\ q \in Commands
    BY <2>1
  <2>3. QED
    BY <1>2, <2>1, <2>2, PrefixOrder DEF Matches
<1>3. Stands(S, {}, c) <=> Matches(S, c)
  BY DEF Stands, Matches, Covered
<1>4. QED
  BY <1>1, <1>2, <1>3 DEF Matches

(* The last layer with a rule for the command decides: if nothing denies    *)
(* it, and a rule allows it, it is allowed.                                *)
LEMMA LastLayerDecides ==
  ASSUME RulesWellFormed, NEW u \in RuleSets, NEW v \in RuleSets, NEW w \in RuleSets,
         NEW x \in RuleSets, NEW c \in Commands, ~Denied(u, v, w, x, c),
         Matches(u.allow \cup v.allow \cup w.allow \cup x.allow, c)
  PROVE  Allowed(u, v, w, x, c)
<1>1. \A r \in RuleSets : r.allow \in SUBSET Commands /\ r.deny \in SUBSET Commands
  BY DEF RuleSets
<1>2. /\ \A S, T : Matches(S \cup T, c) <=> Matches(S, c) \/ Matches(T, c)
      /\ \A S, T, U : Matches(S \cup T \cup U, c)
                       <=> Matches(S, c) \/ Matches(T, c) \/ Matches(U, c)
      /\ \A S, T, U, V : Matches(S \cup T \cup U \cup V, c)
                          <=> Matches(S, c) \/ Matches(T, c) \/ Matches(U, c) \/ Matches(V, c)
  BY DEF Matches
<1>3. \A S \in SUBSET Commands, T \in SUBSET Commands : S \cup T \in SUBSET Commands
  OBVIOUS
<1>4. \A S \in SUBSET Commands, T \in SUBSET Commands :
        Matches(S, c) => Stands(S, T, c) \/ Matches(T, c)
  BY MatchesStands
<1>5. {} \in SUBSET Commands /\ ~Matches({}, c)
  BY DEF Matches
<1>6. ~Matches(x.deny, c)
  BY <1>1, <1>4, <1>5 DEF Denied
<1>7. CASE Matches(x.allow, c)
  BY <1>1, <1>4, <1>6, <1>7 DEF Allowed
<1>8. CASE ~Matches(x.allow, c)
  <2>1. ~Matches(w.deny, c)
    BY <1>1, <1>4, <1>8 DEF Denied
  <2>2. ~Matches(w.deny \cup x.deny, c)
    BY <1>2, <1>6, <2>1
  <2>3. CASE Matches(w.allow, c)
    BY <1>1, <1>3, <1>4, <2>2, <2>3 DEF Allowed
  <2>4. CASE ~Matches(w.allow, c)
    <3>1. ~Matches(w.allow \cup x.allow, c)
      BY <1>2, <1>8, <2>4
    <3>2. ~Matches(v.deny, c)
      BY <1>1, <1>3, <1>4, <3>1 DEF Denied
    <3>3. v.deny \cup w.deny \cup x.deny \in SUBSET Commands
      BY <1>1
    <3>4. ~Matches(v.deny \cup w.deny \cup x.deny, c)
      BY <1>2, <1>6, <2>1, <3>2
    <3>5. CASE Matches(v.allow, c)
      BY <1>1, <1>4, <3>3, <3>4, <3>5 DEF Allowed
    <3>6. CASE ~Matches(v.allow, c)
      <4>1. Matches(u.allow, c) /\ ~Matches(v.allow \cup w.allow \cup x.allow, c)
        BY <1>8, <2>4, <3>6 DEF Matches
      <4>2. v.allow \cup w.allow \cup x.allow \in SUBSET Commands
        BY <1>1
      <4>3. ~Matches(u.deny, c)
        BY <1>1, <1>4, <4>1, <4>2 DEF Denied
      <4>4. u.deny \cup v.deny \cup w.deny \cup x.deny \in SUBSET Commands
        BY <1>1
      <4>5. ~Matches(u.deny \cup v.deny \cup w.deny \cup x.deny, c)
        BY <1>2, <1>6, <2>1, <3>2, <4>3
      <4>6. QED
        BY <1>1, <1>4, <4>1, <4>4, <4>5 DEF Allowed
    <3>7. QED
      BY <3>5, <3>6
  <2>5. QED
    BY <2>3, <2>4
<1>9. QED
  BY <1>7, <1>8

(* Merging the layers one onto the other, an empty one left out.           *)
LEMMA MergedLayers ==
  ASSUME RulesWellFormed, NEW u \in RuleSets, NEW v \in RuleSets, NEW w \in RuleSets,
         NEW x \in RuleSets, NEW c \in Commands, NEW agent \in RuleSets, NEW both \in RuleSets,
         NEW r, agent = Rules!merge_shell_rule_prefixes(u, v),
         \/ /\ both.allow = Rules!merge_shell_rule_prefixes(agent, w).allow
            /\ both.deny = Rules!merge_shell_rule_prefixes(agent, w).deny
         \/ both = agent /\ w = NoRules,
         r = Rules!merge_shell_rule_prefixes(both, x)
  PROVE  /\ Stands(r.deny, {}, c) <=> Denied(u, v, w, x, c)
         /\ Allowed(u, v, w, x, c) => Stands(r.allow, {}, c)
         /\ Stands(r.allow, {}, c) =>
              Matches(u.allow \cup v.allow \cup w.allow \cup x.allow, c)
<1>1. /\ {} \in SUBSET Commands
      /\ \A S : S \cup {} = S /\ {} \cup S = S
      /\ \A S, T, U : S \cup (T \cup U) = S \cup T \cup U
      /\ \A S \in SUBSET Commands, T \in SUBSET Commands : S \cup T \in SUBSET Commands
  OBVIOUS
<1>2. \A y \in RuleSets : y.allow \in SUBSET Commands /\ y.deny \in SUBSET Commands
  BY DEF RuleSets
<1>3. ASSUME NEW later \in SUBSET Commands
      PROVE  /\ Stands(both.deny, later, c)
                <=> Stands(w.deny, later, c) \/ Stands(agent.deny, w.allow \cup later, c)
             /\ Stands(both.allow, later, c)
                <=> \/ Stands(w.allow, w.deny \cup later, c)
                    \/ Stands(agent.allow, w.deny \cup later, c)
  <2>1. CASE both = agent /\ w = NoRules
    <3>1. ~Stands({}, later, c)
      BY DEF Stands
    <3>2. QED
      BY <1>1, <2>1, <3>1 DEF NoRules, Stands
  <2>2. CASE /\ both.allow = Rules!merge_shell_rule_prefixes(agent, w).allow
             /\ both.deny = Rules!merge_shell_rule_prefixes(agent, w).deny
    BY <2>2, MergeStands
  <2>3. QED
    BY <2>1, <2>2
<1>4. /\ Stands(r.deny, {}, c) <=> Stands(x.deny, {}, c) \/ Stands(both.deny, x.allow, c)
      /\ Stands(r.allow, {}, c) <=> Stands(x.allow, x.deny, c) \/ Stands(both.allow, x.deny, c)
  <2>1. /\ Stands(r.deny, {}, c)
           <=> Stands(x.deny, {}, c) \/ Stands(both.deny, x.allow \cup {}, c)
        /\ Stands(r.allow, {}, c)
           <=> \/ Stands(x.allow, x.deny \cup {}, c)
               \/ Stands(both.allow, x.deny \cup {}, c)
    BY <1>1, MergeStands
  <2>2. x.allow \cup {} = x.allow /\ x.deny \cup {} = x.deny
    OBVIOUS
  <2>3. QED
    BY <2>1, <2>2
<1>5. /\ Stands(both.deny, x.allow, c)
         <=> Stands(w.deny, x.allow, c) \/ Stands(agent.deny, w.allow \cup x.allow, c)
      /\ Stands(both.allow, x.deny, c)
         <=> \/ Stands(w.allow, w.deny \cup x.deny, c)
             \/ Stands(agent.allow, w.deny \cup x.deny, c)
  BY <1>2, <1>3
<1>6. /\ Stands(agent.deny, w.allow \cup x.allow, c)
         <=> \/ Stands(v.deny, w.allow \cup x.allow, c)
             \/ Stands(u.deny, v.allow \cup w.allow \cup x.allow, c)
      /\ Stands(agent.allow, w.deny \cup x.deny, c)
         <=> \/ Stands(v.allow, v.deny \cup w.deny \cup x.deny, c)
             \/ Stands(u.allow, v.deny \cup w.deny \cup x.deny, c)
  <2>1. w.allow \cup x.allow \in SUBSET Commands /\ w.deny \cup x.deny \in SUBSET Commands
    BY <1>2
  <2>2. /\ Stands(agent.deny, w.allow \cup x.allow, c)
           <=> \/ Stands(v.deny, w.allow \cup x.allow, c)
               \/ Stands(u.deny, v.allow \cup (w.allow \cup x.allow), c)
        /\ Stands(agent.allow, w.deny \cup x.deny, c)
           <=> \/ Stands(v.allow, v.deny \cup (w.deny \cup x.deny), c)
               \/ Stands(u.allow, v.deny \cup (w.deny \cup x.deny), c)
    BY <2>1, MergeStands
  <2>3. /\ v.allow \cup (w.allow \cup x.allow) = v.allow \cup w.allow \cup x.allow
        /\ v.deny \cup (w.deny \cup x.deny) = v.deny \cup w.deny \cup x.deny
    OBVIOUS
  <2>4. QED
    BY <2>2, <2>3
<1>7. Stands(r.deny, {}, c) <=> Denied(u, v, w, x, c)
  BY <1>4, <1>5, <1>6 DEF Denied
<1>8. Allowed(u, v, w, x, c) => Stands(r.allow, {}, c)
  <2>1. Stands(u.allow, u.deny \cup v.deny \cup w.deny \cup x.deny, c)
        => Stands(u.allow, v.deny \cup w.deny \cup x.deny, c)
    BY DEF Stands, Covered
  <2>2. QED
    BY <1>4, <1>5, <1>6, <2>1 DEF Allowed
<1>9. Stands(r.allow, {}, c) => Matches(u.allow \cup v.allow \cup w.allow \cup x.allow, c)
  <2>1. \A S, T : Stands(S, T, c) => Matches(S, c)
    BY DEF Stands, Matches
  <2>2. \A S, T : Matches(S \cup T, c) <=> Matches(S, c) \/ Matches(T, c)
    BY DEF Matches
  <2>3. QED
    BY <1>4, <1>5, <1>6, <2>1, <2>2
<1>10. QED
  BY <1>7, <1>8, <1>9

(* The rules in force say of any command what the layers say.  The lowest   *)
(* layer keeps a rule that allows what it also denies; the denial stands,   *)
(* or the last layer with a rule for the command allows it.                *)
LEMMA EffectiveIsLayered ==
  ASSUME RulesWellFormed, NEW global \in RuleSets, NEW workspace \in RuleSets \cup {None},
         NEW session \in RuleSets, NEW c \in Commands, NEW mode
  PROVE  Rules!Verdict(Rules!effective_shell_rules_for_agent(global, workspace, session), c, mode)
         = Rules!LayeredVerdict(IF workspace = None THEN <<global, AgentRules, session>>
                                ELSE <<global, AgentRules, workspace, session>>, c, mode)
<1>1. PICK agent : agent = Rules!merge_shell_rule_prefixes(global, AgentRules)
  OBVIOUS
<1>2. PICK w : w = IF workspace = None THEN NoRules ELSE workspace
  OBVIOUS
<1>3. PICK both : both = IF workspace = None THEN agent
                         ELSE Rules!merge_shell_rules(agent, workspace)
  OBVIOUS
<1>4. PICK r : r = Rules!merge_shell_rule_prefixes(both, session)
  OBVIOUS
<1>5. r = Rules!effective_shell_rules_for_agent(global, workspace, session)
  BY <1>1, <1>3, <1>4 DEF Rules!effective_shell_rules_for_agent
<1>6. AgentRules \in RuleSets /\ w \in RuleSets
  BY <1>2 DEF RulesWellFormed, RuleSets, NoRules
<1>7. agent \in RuleSets
  BY <1>1, <1>6, MergeType
<1>8. both \in RuleSets
  BY <1>3, <1>7, MergeType
<1>9. \/ /\ both.allow = Rules!merge_shell_rule_prefixes(agent, w).allow
         /\ both.deny = Rules!merge_shell_rule_prefixes(agent, w).deny
      \/ both = agent /\ w = NoRules
  <2>1. CASE workspace = None
    BY <1>2, <1>3, <2>1
  <2>2. CASE workspace # None
    <3>1. w = workspace /\ both = Rules!merge_shell_rules(agent, w)
      BY <1>2, <1>3, <2>2
    <3>2. /\ both["allow"] = Rules!merge_shell_rule_prefixes(agent, w)["allow"]
          /\ both["deny"] = Rules!merge_shell_rule_prefixes(agent, w)["deny"]
      BY <1>6, <1>7, <3>1, MergeType
    <3>3. QED
      BY <3>2
  <2>3. QED
    BY <2>1, <2>2
<1>10. PICK d \in BOOLEAN, a \in BOOLEAN : /\ d <=> Denied(global, AgentRules, w, session, c)
                                           /\ a <=> Allowed(global, AgentRules, w, session, c)
  BY DEF Denied, Allowed, Stands
<1>11. /\ Stands(r.deny, {}, c) <=> d
       /\ ~d => (Stands(r.allow, {}, c) <=> a)
  <2>1. /\ Stands(r.deny, {}, c) <=> Denied(global, AgentRules, w, session, c)
        /\ Allowed(global, AgentRules, w, session, c) => Stands(r.allow, {}, c)
        /\ Stands(r.allow, {}, c) =>
             Matches(global.allow \cup AgentRules.allow \cup w.allow \cup session.allow, c)
    BY <1>1, <1>4, <1>6, <1>7, <1>8, <1>9, MergedLayers, ZenonT(60)
  <2>2. /\ ~Denied(global, AgentRules, w, session, c)
        /\ Matches(global.allow \cup AgentRules.allow \cup w.allow \cup session.allow, c)
        => Allowed(global, AgentRules, w, session, c)
    BY <1>6, LastLayerDecides
  <2>3. QED
    BY <1>10, <2>1, <2>2
<1>12. Rules!Verdict(r, c, mode) = Judged(d, a, mode)
  BY <1>11, VerdictOf DEF Judged
<1>13. CASE workspace = None
  BY <1>2, <1>5, <1>10, <1>12, <1>13, ThreeLayers DEF Judged
<1>14. CASE workspace # None
  BY <1>2, <1>5, <1>10, <1>12, <1>14, FourLayers DEF Judged
<1>15. QED
  BY <1>13, <1>14

(* What is proved of the rules holds at the start.                         *)
LEMMA RulesInitHolds ==
  ASSUME RulesWellFormed, Rules!Init
  PROVE  RulesInv
<1>1. AgentRules \in RuleSets /\ DefaultDeny \subseteq Commands
  BY DEF RulesWellFormed
<1>2. Rules!DefaultRules \in RuleSets /\ Rules!NoSessionRules \in RuleSets
  BY <1>1 DEF RuleSets, Rules!DefaultRules, Rules!NoSessionRules, Rules!ShellRulesConfig
<1>3. Rules!effective_shell_rules_for_agent(Rules!DefaultRules, None, Rules!NoSessionRules)
        \in RuleSets
  BY <1>1, <1>2, MergeType DEF Rules!effective_shell_rules_for_agent
<1>4. RulesTyped
  BY <1>2, <1>3 DEF Rules!Init, RulesTyped
<1>5. PolicyFollows
  BY DEF Rules!Init, PolicyFollows, FollowsIn, CallAt, Rules!NoSessionRules, Rules!ShellRulesConfig
<1>6. QED
  BY <1>4, <1>5 DEF RulesInv

(* What is loaded and what is added are rules.                             *)
LEMMA LoadedType ==
  ASSUME RulesWellFormed, RulesTyped
  PROVE  \A scope \in {"global", "workspace"} : Rules!Loaded(scope) \in RuleSets
<1>1. Rules!DefaultRules \in RuleSets
  BY DEF RulesWellFormed, RuleSets, Rules!DefaultRules, Rules!ShellRulesConfig
<1>2. QED
  BY <1>1 DEF RulesTyped, Rules!Loaded

LEMMA AddRuleType ==
  ASSUME NEW r \in RuleSets, NEW decision, NEW p \in Commands
  PROVE  Rules!AddRule(r, decision, p) \in RuleSets
<1>1. CASE decision = "allow"
  BY <1>1 DEF RuleSets, Rules!AddRule
<1>2. CASE decision # "allow"
  BY <1>2 DEF RuleSets, Rules!AddRule
<1>3. QED
  BY <1>1, <1>2

LEMMA NormalType ==
  ASSUME NEW r \in RuleSets
  PROVE  Rules!normalize_shell_rules(r) \in RuleSets
  BY DEF RuleSets, Rules!normalize_shell_rules, Rules!normalize_shell_rule_list

(* The rules in force are rules, and cover what the session denies.        *)
LEMMA EffectiveCovers ==
  ASSUME RulesWellFormed, NEW global \in RuleSets, NEW workspace \in RuleSets \cup {None},
         NEW session \in RuleSets
  PROVE  /\ Rules!effective_shell_rules_for_agent(global, workspace, session) \in RuleSets
         /\ \A p \in session.deny :
              Covered(Rules!effective_shell_rules_for_agent(global, workspace, session).deny, p)
<1>1. PICK agent : agent = Rules!merge_shell_rule_prefixes(global, AgentRules)
  OBVIOUS
<1>2. PICK both : both = IF workspace = None THEN agent
                         ELSE Rules!merge_shell_rules(agent, workspace)
  OBVIOUS
<1>3. Rules!effective_shell_rules_for_agent(global, workspace, session)
      = Rules!merge_shell_rule_prefixes(both, session)
  BY <1>1, <1>2 DEF Rules!effective_shell_rules_for_agent
<1>4. both \in RuleSets
  BY <1>1, <1>2, MergeType DEF RulesWellFormed
<1>5. ASSUME NEW p \in session.deny
      PROVE  Covered(Rules!merge_shell_rule_prefixes(both, session).deny, p)
  <2>1. p \in Commands /\ {} \in SUBSET Commands
    BY DEF RuleSets
  <2>2. Stands(session.deny, {}, p)
    BY <2>1, PrefixOrder DEF Stands, Covered
  <2>3. Stands(Rules!merge_shell_rule_prefixes(both, session).deny, {}, p)
    BY <1>4, <2>1, <2>2, MergeStands
  <2>4. QED
    BY <2>3 DEF Stands, Covered
<1>6. QED
  BY <1>3, <1>4, <1>5, MergeType

(* What each step does to the calls of a session.                          *)
LEMMA RulesTypeStep ==
  ASSUME RulesWellFormed, RulesTyped, [Rules!Next]_(Rules!vars)
  PROVE  RulesTyped'
<1>1. CASE UNCHANGED Rules!vars
  BY <1>1 DEF RulesTyped, Rules!vars
<1>2. ASSUME NEW h \in Handlers, NEW s \in PolicySessions, NEW d \in {"allow", "deny"},
             NEW p \in Commands, NEW again \in BOOLEAN,
             NEW scope \in {"session", "workspace", "global"},
             Rules!resolve_session_shell_rule(h, s, d, scope, p, again)
      PROVE  RulesTyped'
  <2>1. ruleFiles' = ruleFiles /\ policy' = policy
    BY <1>2 DEF Rules!resolve_session_shell_rule
  <2>2. CASE scope = "session"
    <3>1. sessionRules[s] \in RuleSets
      BY DEF RulesTyped
    <3>2. Rules!AddRule(sessionRules[s], d, p) \in RuleSets
      BY <3>1, AddRuleType
    <3>3. sessionRules' = [sessionRules EXCEPT ![s] = Rules!AddRule(sessionRules[s], d, p)]
      BY <1>2, <2>2 DEF Rules!resolve_session_shell_rule, Rules!push_session_shell_rule
    <3>4. sessionRules' \in [PolicySessions -> RuleSets]
      BY <3>2, <3>3 DEF RulesTyped
    <3>5. PICK call \in Calls : handling' = [handling EXCEPT ![h] = call]
      <4>1. [at |-> IF again THEN "rebuild" ELSE "done", session |-> s] \in Calls
        BY DEF Calls
      <4>2. QED
        BY <1>2, <2>2, <4>1 DEF Rules!resolve_session_shell_rule, Rules!Begin
    <3>6. QED
      BY <2>1, <3>4, <3>5 DEF RulesTyped
  <2>3. CASE scope # "session"
    <3>1. scope \in {"global", "workspace"}
      BY <2>3
    <3>2. Rules!AddRule(Rules!Loaded(scope), d, p) \in RuleSets
      BY <3>1, LoadedType, AddRuleType
    <3>3. PICK call \in Calls : handling' = [handling EXCEPT ![h] = call]
      <4>1. [at |-> "save", session |-> s, scope |-> scope, rebuild |-> again,
             rules |-> Rules!AddRule(Rules!Loaded(scope), d, p)] \in Calls
        BY <3>1, <3>2 DEF Calls
      <4>2. QED
        BY <1>2, <2>3, <4>1 DEF Rules!resolve_session_shell_rule, Rules!Begin
    <3>4. sessionRules' = sessionRules
      BY <1>2, <2>3 DEF Rules!resolve_session_shell_rule
    <3>5. QED
      BY <2>1, <3>3, <3>4 DEF RulesTyped
  <2>4. QED
    BY <2>2, <2>3
<1>3. ASSUME NEW h \in Handlers, NEW s \in PolicySessions, Rules!SwitchAgain(h, s)
      PROVE  RulesTyped'
  <2>1. [at |-> "rebuild", session |-> s] \in Calls
    BY DEF Calls
  <2>2. QED
    BY <1>3, <2>1 DEF RulesTyped, Rules!SwitchAgain, Rules!Begin
<1>4. ASSUME NEW h \in Handlers, Rules!save_rules_to_path(h) PROVE RulesTyped'
  <2>1. PICK c \in Calls : c = handling[h] /\ c.at = "save"
    BY <1>4 DEF RulesTyped, Rules!save_rules_to_path
  <2>2. c.scope \in {"global", "workspace"} /\ c.rules \in RuleSets /\ c.session \in PolicySessions
    BY <2>1 DEF Calls
  <2>3. Rules!normalize_shell_rules(c.rules) \in RuleSets
    BY <2>2, NormalType
  <2>4. ruleFiles' \in [{"global", "workspace"} -> RuleSets \cup {None}]
    BY <1>4, <2>1, <2>2, <2>3 DEF RulesTyped, Rules!save_rules_to_path
  <2>5. [at |-> "rebuild", session |-> c.session] \in Calls
        /\ [at |-> "done", session |-> c.session] \in Calls
    BY <2>2 DEF Calls
  <2>6. handling' \in [Handlers -> Calls \cup {None}]
    BY <1>4, <2>1, <2>5 DEF RulesTyped, Rules!save_rules_to_path
  <2>7. QED
    BY <1>4, <2>4, <2>6 DEF RulesTyped, Rules!save_rules_to_path
<1>5. ASSUME NEW scope \in {"global", "workspace"}, NEW r \in Settings,
             Rules!set_shell_rules(scope, r)
      PROVE  RulesTyped'
  <2>1. Rules!normalize_shell_rules(r) \in RuleSets
    BY NormalType DEF RulesWellFormed
  <2>2. QED
    BY <1>5, <2>1 DEF RulesTyped, Rules!set_shell_rules
<1>6. ASSUME NEW h \in Handlers, Rules!ReadSessionRules(h) PROVE RulesTyped'
  <2>1. PICK c \in Calls : c = handling[h] /\ c.at = "rebuild"
    BY <1>6 DEF RulesTyped, Rules!ReadSessionRules
  <2>2. c.session \in PolicySessions
    BY <2>1 DEF Calls
  <2>3. [at |-> "write", session |-> c.session, rules |-> sessionRules[c.session]] \in Calls
    BY <2>2 DEF Calls, RulesTyped
  <2>4. QED
    BY <1>6, <2>1, <2>3 DEF RulesTyped, Rules!ReadSessionRules
<1>7. ASSUME NEW h \in Handlers, Rules!write_session_exec_policy_file(h) PROVE RulesTyped'
  <2>1. PICK c \in Calls : c = handling[h] /\ c.at = "write"
    BY <1>7 DEF RulesTyped, Rules!write_session_exec_policy_file
  <2>2. c.session \in PolicySessions /\ c.rules \in RuleSets
    BY <2>1 DEF Calls
  <2>3. [at |-> "done", session |-> c.session] \in Calls
    BY <2>2 DEF Calls
  <2>4. Rules!Loaded("global") \in RuleSets
    BY LoadedType
  <2>5. ruleFiles["workspace"] \in RuleSets \cup {None}
    BY DEF RulesTyped
  <2>6. Rules!effective_shell_rules_for_agent(Rules!Loaded("global"), ruleFiles["workspace"],
                                              c.rules) \in RuleSets
    BY <2>2, <2>4, <2>5, EffectiveCovers
  <2>7. policy' \in [PolicySessions -> RuleSets]
    BY <1>7, <2>1, <2>6 DEF RulesTyped, Rules!write_session_exec_policy_file
  <2>8. QED
    BY <1>7, <2>1, <2>3, <2>4, <2>7 DEF RulesTyped, Rules!write_session_exec_policy_file
<1>8. ASSUME NEW h \in Handlers, Rules!Answered(h) PROVE RulesTyped'
  BY <1>8 DEF RulesTyped, Rules!Answered
<1>9. QED
  BY <1>1, <1>2, <1>3, <1>4, <1>5, <1>6, <1>7, <1>8 DEF Rules!Next

(* A step that leaves the session's rules, policy and calls alone.         *)
LEMMA CallsKept ==
  ASSUME NEW s \in PolicySessions, FollowsIn(s),
         sessionRules'[s] = sessionRules[s], policy'[s] = policy[s],
         \A h \in Handlers : \/ handling'[h] = handling[h]
                             \/ /\ ~CallAt(h, "rebuild", s) /\ ~CallAt(h, "write", s)
                                /\ ~CallAt(h, "write", s)'
  PROVE  FollowsIn(s)'
<1>1. \A h \in Handlers :
        CallAt(h, "write", s)' => CallAt(h, "write", s) /\ handling'[h] = handling[h]
  BY DEF CallAt
<1>2. \A h \in Handlers : CallAt(h, "write", s) => CallAt(h, "write", s)'
  BY DEF CallAt
<1>3. \A h \in Handlers : CallAt(h, "rebuild", s) => CallAt(h, "rebuild", s)'
  BY DEF CallAt
<1>4. \A g, h \in Handlers : CallAt(g, "write", s)' /\ CallAt(h, "write", s)' => g = h
  BY <1>1 DEF FollowsIn
<1>5. ASSUME \A h \in Handlers : ~CallAt(h, "rebuild", s)'
      PROVE  /\ \A h \in Handlers : CallAt(h, "write", s)' => handling'[h].rules = sessionRules'[s]
             /\ (\A h \in Handlers : ~CallAt(h, "write", s)') =>
                  \A p \in sessionRules'[s].deny : Covered(policy'[s].deny, p)
  <2>1. \A h \in Handlers : ~CallAt(h, "rebuild", s)
    BY <1>3, <1>5
  <2>2. QED
    BY <1>1, <1>2, <2>1 DEF FollowsIn
<1>6. QED
  BY <1>4, <1>5 DEF FollowsIn, Covered

(* A call that will read the rules again.                                  *)
LEMMA RebuildAhead ==
  ASSUME NEW s \in PolicySessions, FollowsIn(s), NEW h \in Handlers, CallAt(h, "rebuild", s)',
         \A g \in Handlers : CallAt(g, "write", s)' => CallAt(g, "write", s)
  PROVE  FollowsIn(s)'
<1>1. \A f, g \in Handlers : CallAt(f, "write", s)' /\ CallAt(g, "write", s)' => f = g
  BY DEF FollowsIn
<1>2. ~(\A g \in Handlers : ~CallAt(g, "rebuild", s)')
  OBVIOUS
<1>3. QED
  BY <1>1, <1>2 DEF FollowsIn

LEMMA PolicyStep ==
  ASSUME RulesWellFormed, RulesTyped, PolicyFollows, [Rules!Next]_(Rules!vars)
  PROVE  PolicyFollows'
<1> SUFFICES ASSUME NEW s \in PolicySessions, s \notin loose' PROVE FollowsIn(s)'
  BY DEF PolicyFollows
<1>1. handling \in [Handlers -> Calls \cup {None}]
  BY DEF RulesTyped
<1>2. s \notin loose => FollowsIn(s)
  BY DEF PolicyFollows
<1>3. CASE UNCHANGED Rules!vars
  BY <1>2, <1>3, CallsKept DEF Rules!vars
<1>4. ASSUME NEW h \in Handlers, NEW q \in PolicySessions, NEW d \in {"allow", "deny"},
             NEW p \in Commands, NEW again \in BOOLEAN,
             NEW scope \in {"session", "workspace", "global"},
             Rules!resolve_session_shell_rule(h, q, d, scope, p, again)
      PROVE  FollowsIn(s)'
  <2>1. FollowsIn(s) /\ (s = q => again) /\ handling[h] = None /\ policy' = policy
    BY <1>2, <1>4 DEF Rules!resolve_session_shell_rule, Rules!Idle
  <2>2. CASE scope = "session"
    <3>1. handling' = [handling EXCEPT ![h] = [at |-> IF again THEN "rebuild" ELSE "done",
                                               session |-> q]]
      BY <1>4, <2>2 DEF Rules!resolve_session_shell_rule, Rules!Begin
    <3>2. handling'[h] = [at |-> IF again THEN "rebuild" ELSE "done", session |-> q]
          /\ \A g \in Handlers : g # h => handling'[g] = handling[g]
      BY <1>1, <3>1
    <3>3. ~CallAt(h, "rebuild", s) /\ ~CallAt(h, "write", s) /\ ~CallAt(h, "write", s)'
      BY <2>1, <3>2 DEF CallAt
    <3>4. CASE s = q
      <4>1. handling'[h] # None
        BY <3>2 DEF RulesWellFormed, Calls
      <4>2. CallAt(h, "rebuild", s)'
        BY <2>1, <3>2, <3>4, <4>1 DEF CallAt
      <4>3. \A g \in Handlers : CallAt(g, "write", s)' => CallAt(g, "write", s)
        BY <3>2, <3>3 DEF CallAt
      <4>4. QED
        BY <2>1, <4>2, <4>3, RebuildAhead
    <3>5. CASE s # q
      <4>1. sessionRules'[s] = sessionRules[s]
        BY <1>4, <2>2, <3>5 DEF Rules!resolve_session_shell_rule, Rules!push_session_shell_rule,
                                RulesTyped
      <4>2. QED
        BY <2>1, <3>2, <3>3, <4>1, CallsKept
    <3>6. QED
      BY <3>4, <3>5
  <2>3. CASE scope # "session"
    <3>1. /\ handling' = [handling EXCEPT ![h] = [at |-> "save", session |-> q, scope |-> scope,
                 rebuild |-> again, rules |-> Rules!AddRule(Rules!Loaded(scope), d, p)]]
          /\ sessionRules' = sessionRules
      BY <1>4, <2>3 DEF Rules!resolve_session_shell_rule, Rules!Begin
    <3>2. handling'[h].at = "save" /\ \A g \in Handlers : g # h => handling'[g] = handling[g]
      BY <1>1, <3>1
    <3>3. ~CallAt(h, "rebuild", s) /\ ~CallAt(h, "write", s) /\ ~CallAt(h, "write", s)'
      BY <2>1, <3>2 DEF CallAt
    <3>4. QED
      BY <2>1, <3>1, <3>2, <3>3, CallsKept
  <2>4. QED
    BY <2>2, <2>3
<1>5. ASSUME NEW h \in Handlers, NEW q \in PolicySessions, Rules!SwitchAgain(h, q)
      PROVE  FollowsIn(s)'
  <2>1. /\ FollowsIn(s) /\ handling[h] = None /\ sessionRules' = sessionRules /\ policy' = policy
        /\ handling' = [handling EXCEPT ![h] = [at |-> "rebuild", session |-> q]]
    BY <1>2, <1>5 DEF Rules!SwitchAgain, Rules!Idle, Rules!Begin
  <2>2. handling'[h] = [at |-> "rebuild", session |-> q]
        /\ \A g \in Handlers : g # h => handling'[g] = handling[g]
    BY <1>1, <2>1
  <2>3. ~CallAt(h, "rebuild", s) /\ ~CallAt(h, "write", s) /\ ~CallAt(h, "write", s)'
    BY <2>1, <2>2 DEF CallAt
  <2>4. QED
    BY <2>1, <2>2, <2>3, CallsKept
<1>6. ASSUME NEW h \in Handlers, Rules!save_rules_to_path(h) PROVE FollowsIn(s)'
  <2>1. /\ FollowsIn(s) /\ handling[h].at = "save" /\ UNCHANGED <<sessionRules, policy>>
        /\ handling' = [handling EXCEPT ![h] =
                          IF handling[h].rebuild
                          THEN [at |-> "rebuild", session |-> handling[h].session]
                          ELSE [at |-> "done", session |-> handling[h].session]]
    BY <1>2, <1>6 DEF Rules!save_rules_to_path
  <2>2. handling'[h].at \in {"rebuild", "done"}
        /\ \A g \in Handlers : g # h => handling'[g] = handling[g]
    BY <1>1, <2>1
  <2>3. ~CallAt(h, "rebuild", s) /\ ~CallAt(h, "write", s) /\ ~CallAt(h, "write", s)'
    BY <2>1, <2>2 DEF CallAt
  <2>4. QED
    BY <2>1, <2>2, <2>3, CallsKept
<1>7. ASSUME NEW scope \in {"global", "workspace"}, NEW r \in Settings,
             Rules!set_shell_rules(scope, r)
      PROVE  FollowsIn(s)'
  BY <1>2, <1>7, CallsKept DEF Rules!set_shell_rules
<1>8. ASSUME NEW h \in Handlers, Rules!ReadSessionRules(h) PROVE FollowsIn(s)'
  <2>1. PICK q : q = handling[h].session
    OBVIOUS
  <2>2. /\ handling[h].at = "rebuild" /\ UNCHANGED <<sessionRules, policy>> /\ FollowsIn(s)
        /\ handling' = [handling EXCEPT ![h] = [at |-> "write", session |-> q,
                                                rules |-> sessionRules[q]]]
    BY <1>2, <1>8, <2>1 DEF Rules!ReadSessionRules
  <2>3. handling'[h] = [at |-> "write", session |-> q, rules |-> sessionRules[q]]
        /\ \A g \in Handlers : g # h => handling'[g] = handling[g]
    BY <1>1, <2>2
  <2>4. CASE s = q
    <3>1. \A g \in Handlers \ {h} : ~CallAt(g, "write", s)
      BY <1>8, <2>1, <2>4 DEF Rules!ReadSessionRules, CallAt
    <3>2. \A g \in Handlers : CallAt(g, "write", s)' => g = h
      BY <2>3, <3>1 DEF CallAt
    <3>3. handling'[h].rules = sessionRules'[s] /\ CallAt(h, "write", s)'
      <4>1. [at |-> "write", session |-> q, rules |-> sessionRules[q]] \in Calls
        BY <2>4 DEF Calls, RulesTyped
      <4>2. handling'[h] # None
        BY <2>3, <4>1 DEF RulesWellFormed
      <4>3. QED
        BY <2>2, <2>3, <2>4, <4>2 DEF CallAt
    <3>4. QED
      BY <3>2, <3>3 DEF FollowsIn
  <2>5. CASE s # q
    <3>1. ~CallAt(h, "rebuild", s) /\ ~CallAt(h, "write", s) /\ ~CallAt(h, "write", s)'
      BY <2>1, <2>3, <2>5 DEF CallAt
    <3>2. QED
      BY <2>2, <2>3, <3>1, CallsKept
  <2>6. QED
    BY <2>4, <2>5
<1>9. ASSUME NEW h \in Handlers, Rules!write_session_exec_policy_file(h) PROVE FollowsIn(s)'
  <2>1. PICK c \in Calls : c = handling[h] /\ c.at = "write" /\ c # None
    BY <1>1, <1>9 DEF Rules!write_session_exec_policy_file
  <2>2. PICK q \in PolicySessions : q = c.session /\ c.rules \in RuleSets
    BY <2>1 DEF Calls
  <2>3. /\ FollowsIn(s) /\ sessionRules' = sessionRules
        /\ policy' = [policy EXCEPT ![q] =
             Rules!effective_shell_rules_for_agent(Rules!Loaded("global"), ruleFiles["workspace"],
                                                   c.rules)]
        /\ handling' = [handling EXCEPT ![h] = [at |-> "done", session |-> q]]
    BY <1>2, <1>9, <2>1, <2>2 DEF Rules!write_session_exec_policy_file
  <2>4. handling'[h].at = "done" /\ \A g \in Handlers : g # h => handling'[g] = handling[g]
    BY <1>1, <2>3
  <2>5. CASE s = q
    <3>1. CallAt(h, "write", s)
      BY <2>1, <2>2, <2>5 DEF CallAt
    <3>2. \A g \in Handlers : ~CallAt(g, "write", s)'
      BY <2>3, <2>4, <3>1 DEF CallAt, FollowsIn
    <3>3. ASSUME \A g \in Handlers : ~CallAt(g, "rebuild", s)'
          PROVE  \A p \in sessionRules'[s].deny : Covered(policy'[s].deny, p)
      <4>1. \A g \in Handlers : ~CallAt(g, "rebuild", s)
        BY <2>1, <2>4, <3>3 DEF CallAt
      <4>2. c.rules = sessionRules[s]
        BY <2>1, <2>3, <3>1, <4>1 DEF FollowsIn
      <4>3. Rules!Loaded("global") \in RuleSets /\ ruleFiles["workspace"] \in RuleSets \cup {None}
        BY LoadedType DEF RulesTyped
      <4>4. policy'[s] = Rules!effective_shell_rules_for_agent(Rules!Loaded("global"),
                                                               ruleFiles["workspace"], c.rules)
        BY <2>3, <2>5 DEF RulesTyped
      <4>5. QED
        BY <2>2, <2>3, <4>2, <4>3, <4>4, EffectiveCovers
    <3>4. QED
      BY <3>2, <3>3 DEF FollowsIn, Covered
  <2>6. CASE s # q
    <3>1. policy'[s] = policy[s]
      BY <2>3, <2>6 DEF RulesTyped
    <3>2. ~CallAt(h, "rebuild", s) /\ ~CallAt(h, "write", s) /\ ~CallAt(h, "write", s)'
      BY <2>1, <2>2, <2>4, <2>6 DEF CallAt
    <3>3. QED
      BY <2>3, <2>4, <3>1, <3>2, CallsKept
  <2>7. QED
    BY <2>5, <2>6
<1>10. ASSUME NEW h \in Handlers, Rules!Answered(h) PROVE FollowsIn(s)'
  <2>1. /\ FollowsIn(s) /\ handling[h].at = "done" /\ UNCHANGED <<sessionRules, policy>>
        /\ handling' = [handling EXCEPT ![h] = None]
    BY <1>2, <1>10 DEF Rules!Answered
  <2>2. handling'[h] = None /\ \A g \in Handlers : g # h => handling'[g] = handling[g]
    BY <1>1, <2>1
  <2>3. ~CallAt(h, "rebuild", s) /\ ~CallAt(h, "write", s) /\ ~CallAt(h, "write", s)'
    BY <2>1, <2>2 DEF CallAt
  <2>4. QED
    BY <2>1, <2>2, <2>3, CallsKept
<1>11. QED
  BY <1>3, <1>4, <1>5, <1>6, <1>7, <1>8, <1>9, <1>10 DEF Rules!Next

THEOREM RulesInductive == RulesWellFormed => (Rules!Spec => []RulesInv)
<1> SUFFICES ASSUME RulesWellFormed PROVE Rules!Spec => []RulesInv
  OBVIOUS
<1>1. Rules!Init => RulesInv
  BY RulesInitHolds
<1>2. RulesInv /\ [Rules!Next]_(Rules!vars) => RulesInv'
  BY RulesTypeStep, PolicyStep DEF RulesInv
<1>3. QED
  BY <1>1, <1>2, PTL DEF Rules!Spec

(* However the rules of a file, an agent and a session are merged, any      *)
(* command is judged as the layers say (config.rs:1355).                   *)
THEOREM MergeIsLayeredAlways == RulesWellFormed => (Rules!Spec => []Rules!MergeIsLayered)
<1> SUFFICES ASSUME RulesWellFormed PROVE Rules!Spec => []Rules!MergeIsLayered
  OBVIOUS
<1>1. RulesInv => Rules!MergeIsLayered
  <2> SUFFICES ASSUME RulesTyped, NEW s \in PolicySessions, NEW c \in Commands
               PROVE  LET mode == Rules!shell_fallback_mode_for_agent(ruleFiles["workspace"])
                          r == Rules!effective_shell_rules_for_agent(Rules!Loaded("global"),
                                       ruleFiles["workspace"], sessionRules[s])
                      IN  Rules!Verdict(r, c, mode) = Rules!LayeredVerdict(Rules!Layers(s), c, mode)
    BY DEF RulesInv, Rules!MergeIsLayered
  <2>1. /\ Rules!Loaded("global") \in RuleSets /\ ruleFiles["workspace"] \in RuleSets \cup {None}
        /\ sessionRules[s] \in RuleSets
    BY LoadedType DEF RulesTyped
  <2>2. Rules!Layers(s)
        = IF ruleFiles["workspace"] = None
          THEN <<Rules!Loaded("global"), AgentRules, sessionRules[s]>>
          ELSE <<Rules!Loaded("global"), AgentRules, ruleFiles["workspace"], sessionRules[s]>>
    BY DEF Rules!Layers
  <2>3. QED
    BY <2>1, <2>2, EffectiveIsLayered
<1>2. QED
  BY <1>1, RulesInductive, PTL

(* A command denied for the session stays denied in its policy, whatever    *)
(* is answered, saved or switched (ai.rs:614, session.rs:320).             *)
THEOREM SessionDenialHoldsAlways == RulesWellFormed => (Rules!Spec => []Rules!SessionDenialHolds)
<1> SUFFICES ASSUME RulesWellFormed PROVE Rules!Spec => []Rules!SessionDenialHolds
  OBVIOUS
<1>1. RulesInv => Rules!SessionDenialHolds
  <2> SUFFICES ASSUME PolicyFollows, NEW s \in PolicySessions \ loose,
                      \A h \in Handlers : handling[h] # None => handling[h].session # s,
                      NEW p \in sessionRules[s].deny
               PROVE  Rules!Verdict(policy[s], p, runtimeMode[s]) = "deny"
    BY DEF RulesInv, Rules!SessionDenialHolds
  <2>1. \A h \in Handlers : ~CallAt(h, "rebuild", s) /\ ~CallAt(h, "write", s)
    BY DEF CallAt
  <2>2. Covered(policy[s].deny, p)
    BY <2>1 DEF PolicyFollows, FollowsIn
  <2>3. QED
    BY <2>2 DEF Covered, Rules!Verdict
<1>2. QED
  BY <1>1, RulesInductive, PTL
=============================================================================
