----------------------- MODULE DesktopAuthorizeProofs -----------------------
(***************************************************************************)
(* Proofs about DesktopAuthorize, for any number of sessions and attempts. *)
(*                                                                         *)
(* The user's approval stands because the event loop handles one session   *)
(* at a time: while the backend has read a session as pending for the loop *)
(* (pc "deciding"), only a task of the background can have approved it.    *)
(***************************************************************************)
EXTENDS DesktopAuthorize, TLAPS

(* The answer to the wait in progress has used up its sender. *)
OneAnswer == loop.pc \in {"ask", "wait"} /\ answer # None => armed = {}

(* What the loop is about to decide was approved by nobody else but a task  *)
(* of the background.                                                       *)
DecidingAlone ==
  At("deciding") /\ row[loop.sid] = "connecting" => loop.sid \in waived

IInv ==
  /\ TypeOK
  /\ UserDecides
  /\ AnswerMeetsItsWait
  /\ OneAnswer
  /\ DecidingAlone

USE AttemptsAssumption, BoundsAssumption, NoneAssumption

-----------------------------------------------------------------------------
(* Type correctness.                                                        *)

(* The state of the loop, part by part. *)
LEMMA LoopParts ==
  ASSUME NEW l \in Loop
  PROVE  /\ l.pc \in LoopPC
         /\ l.sid \in Sessions \cup {None}
         /\ l.todo \in SUBSET Sessions
         /\ l.verdict \in Decision \cup {None}
         /\ l.left \in 0..Attempts
         /\ l.pc \notin {"offline", "fetch", "reading", "stuck"} => l.sid \in Sessions
         /\ l.pc \in {"post", "deciding"} => l.verdict \in Decision /\ l.left > 0
BY DEF Loop

LEMMA LoopRecord ==
  ASSUME NEW p \in LoopPC, NEW s \in Sessions \cup {None},
         NEW todo \in SUBSET Sessions, NEW v \in Decision \cup {None},
         NEW n \in 0..Attempts,
         p \notin {"offline", "fetch", "reading", "stuck"} => s \in Sessions,
         p \in {"post", "deciding"} => v \in Decision /\ n > 0
  PROVE  [pc |-> p, sid |-> s, todo |-> todo, verdict |-> v, left |-> n] \in Loop
BY DEF Loop

LEMMA OfflineType == Offline \in Loop /\ Offline.pc = "offline"
<1>1. /\ "offline" \in LoopPC /\ {} \in SUBSET Sessions /\ 0 \in 0..Attempts
      /\ None \in Sessions \cup {None} /\ None \in Decision \cup {None}
  BY DEF LoopPC
<1>2. QED
  BY <1>1, LoopRecord DEF Offline, LoopAt

LEMMA HandleType ==
  ASSUME NEW todo \in SUBSET Sessions, Handle(todo)
  PROVE  /\ loop' \in Loop
         /\ loop'.pc \in {"reading", "check"}
         /\ loop'.verdict = None
<1>1. /\ {"reading", "check"} \subseteq LoopPC /\ 0 \in 0..Attempts
      /\ None \in Sessions \cup {None} /\ None \in Decision \cup {None}
      /\ {} \in SUBSET Sessions
  BY DEF LoopPC
<1>2. CASE todo = {}
  BY <1>1, <1>2, LoopRecord DEF Handle, LoopAt
<1>3. CASE todo # {}
  <2>1. PICK s \in todo : loop' = LoopAt("check", s, todo \ {s})
    BY <1>3 DEF Handle
  <2>2. s \in Sessions /\ s \in Sessions \cup {None} /\ todo \ {s} \in SUBSET Sessions
    OBVIOUS
  <2>3. QED
    BY <1>1, <2>1, <2>2, LoopRecord DEF LoopAt
<1>4. QED
  BY <1>2, <1>3

LEMMA DoneType ==
  ASSUME loop \in Loop, Done
  PROVE  loop' \in Loop /\ loop'.pc \in {"reading", "check"}
BY LoopParts, HandleType DEF Done

(* Another pc that needs no more than this one. *)
LEMMA GotoType ==
  ASSUME loop \in Loop, NEW p \in LoopPC, Goto(p),
         loop.sid \in Sessions \/ p \in {"offline", "fetch", "reading"},
         p \notin {"post", "deciding"} \/ loop.pc \in {"post", "deciding"}
  PROVE  /\ loop' \in Loop
         /\ loop'.pc = p
         /\ loop'.sid = loop.sid
         /\ loop'.verdict = loop.verdict
<1>1. loop \in [pc : LoopPC, sid : Sessions \cup {None}, todo : SUBSET Sessions,
                verdict : Decision \cup {None}, left : 0..Attempts]
  BY DEF Loop
<1>2. loop' = [pc |-> p, sid |-> loop.sid, todo |-> loop.todo,
               verdict |-> loop.verdict, left |-> loop.left]
  BY <1>1 DEF Goto
<1>3. QED
  BY <1>2, LoopParts, LoopRecord

LEMMA SubmitType ==
  ASSUME loop \in Loop, loop.sid \in Sessions, NEW v \in Decision, Submit(v)
  PROVE  /\ loop' \in Loop
         /\ loop'.pc = "post"
         /\ loop'.sid = loop.sid
         /\ loop'.verdict = v
<1>1. loop \in [pc : LoopPC, sid : Sessions \cup {None}, todo : SUBSET Sessions,
                verdict : Decision \cup {None}, left : 0..Attempts]
  BY DEF Loop
<1>2. loop' = [pc |-> "post", sid |-> loop.sid, todo |-> loop.todo,
               verdict |-> v, left |-> Attempts]
  BY <1>1 DEF Submit
<1>3. "post" \in LoopPC /\ v \in Decision \cup {None} /\ Attempts \in 0..Attempts
      /\ Attempts > 0
  BY DEF LoopPC
<1>4. QED
  BY <1>2, <1>3, LoopParts, LoopRecord

(* What one step of a post does to the row and to the count of failures.    *)
LEMMA PostStepType ==
  ASSUME TypeOK, NEW s \in Sessions, NEW v \in Decision,
         NEW phase, NEW result, PostStep(phase, s, v, result)
  PROVE  /\ row' \in [Sessions -> {"absent", "pending", "connecting", "terminated"}]
         /\ failures' \in 0..MaxFailures
         /\ row' = row \/ (phase = "deciding" /\ row' = [row EXCEPT ![s] = Outcome(v)])
         /\ phase = "deciding" => result # "deciding"
         /\ phase # "deciding" /\ result = "deciding" => row[s] = "pending"
<1>1. Outcome(v) \in {"connecting", "terminated"}
  BY DEF Outcome
<1>2. failures' \in 0..MaxFailures
  BY DEF PostStep, ReadRow, WriteRow, MayFail, TypeOK
<1>3. CASE phase = "post"
  BY <1>1, <1>2, <1>3 DEF PostStep, ReadRow, TypeOK
<1>4. CASE phase = "deciding"
  BY <1>1, <1>2, <1>4 DEF PostStep, WriteRow, TypeOK
<1>5. QED
  BY <1>3, <1>4 DEF PostStep

LEMMA BackgroundType ==
  ASSUME TypeOK, NEW s \in Sessions, NEW n \in 1..Attempts,
         NEW phase \in {"post", "deciding"}, BackgroundPost(s, n, phase)
  PROVE  /\ background' \in [Task -> Nat]
         /\ \A t \in Task : background'[t] > 0 => t[1] = s \/ background[t] > 0
         /\ background[<<s, n, phase>>] > 0 /\ <<s, n, phase>> \in Task
<1> DEFINE rest == [background EXCEPT ![<<s, n, phase>>] = @ - 1]
<1>1. <<s, n, phase>> \in Task /\ <<s, n, "deciding">> \in Task
      /\ (n > 1 => <<s, n - 1, "post">> \in Task)
  BY DEF Task
<1>2. background \in [Task -> Nat] /\ background[<<s, n, phase>>] > 0
  BY DEF TypeOK, BackgroundPost
<1>3. rest \in [Task -> Nat]
  BY <1>1, <1>2
<1>4. /\ \A u \in Task : [rest EXCEPT ![u] = @ + 1] \in [Task -> Nat]
      /\ \A t \in Task : rest[t] > 0 => background[t] > 0
      /\ \A u, t \in Task : [rest EXCEPT ![u] = @ + 1][t] > 0 => t = u \/ rest[t] > 0
  BY <1>1, <1>2, <1>3
<1>5. CASE background' = rest
  BY <1>1, <1>2, <1>3, <1>4, <1>5
<1>6. CASE background' = [rest EXCEPT ![<<s, n, "deciding">>] = @ + 1]
  <2>1. PICK u \in Task : u = <<s, n, "deciding">>
    BY <1>1
  <2>2. background' = [rest EXCEPT ![u] = @ + 1]
    BY <1>6, <2>1
  <2>3. u[1] = s
    BY <2>1
  <2>4. QED
    BY <1>1, <1>2, <1>4, <2>2, <2>3
<1>7. CASE n > 1 /\ background' = [rest EXCEPT ![<<s, n - 1, "post">>] = @ + 1]
  <2>1. PICK u \in Task : u = <<s, n - 1, "post">>
    BY <1>1, <1>7
  <2>2. background' = [rest EXCEPT ![u] = @ + 1]
    BY <1>7, <2>1
  <2>3. u[1] = s
    BY <2>1
  <2>4. QED
    BY <1>1, <1>2, <1>4, <2>2, <2>3
<1>8. QED
  BY <1>5, <1>6, <1>7 DEF BackgroundPost

(* How the event loop goes on after a step of a post. *)
LEMMA PostLoop ==
  ASSUME TypeOK, Post
  PROVE  /\ loop.sid \in Sessions
         /\ loop.verdict \in Decision
         /\ \E result \in {"deciding", "ok", "failed"} :
              /\ PostStep(loop.pc, loop.sid, loop.verdict, result)
              /\ result = "deciding" => Goto("deciding")
         /\ loop' \in Loop
         /\ \/ loop'.pc \in {"reading", "check"}
            \/ /\ loop'.pc \in {"post", "deciding"}
               /\ loop'.sid = loop.sid
               /\ loop'.verdict = loop.verdict
         /\ loop'.pc = "deciding" => row[loop.sid] = "pending" /\ row' = row
         /\ abandoned' \subseteq Sessions
<1>1. loop \in Loop /\ loop.pc \in {"post", "deciding"}
  BY DEF TypeOK, Post
<1>2. loop.sid \in Sessions /\ loop.verdict \in Decision /\ loop.left \in 1..Attempts
  BY <1>1, LoopParts
<1>3. PICK result \in {"deciding", "ok", "failed"} :
        /\ PostStep(loop.pc, loop.sid, loop.verdict, result)
        /\ CASE result = "deciding" -> Goto("deciding") /\ UNCHANGED abandoned
             [] result = "ok" -> Done /\ UNCHANGED abandoned
             [] result = "failed" /\ loop.left > 1 ->
                  /\ loop' = [loop EXCEPT !.pc = "post", !.left = @ - 1]
                  /\ UNCHANGED abandoned
             [] OTHER -> Done /\ GiveUp(loop.sid)
  BY DEF Post
<1>4. abandoned' \subseteq Sessions
  BY <1>2, <1>3 DEF GiveUp, TypeOK
<1>5. CASE result = "deciding"
  <2>1. Goto("deciding")
    BY <1>3, <1>5
  <2>2. /\ loop' \in Loop /\ loop'.pc = "deciding"
        /\ loop'.sid = loop.sid /\ loop'.verdict = loop.verdict
    BY <1>1, <1>2, <2>1, GotoType DEF LoopPC
  <2>3. loop.pc = "post" /\ row[loop.sid] = "pending" /\ row' = row
    BY <1>1, <1>2, <1>3, <1>5, PostStepType
  <2>4. QED
    BY <1>2, <1>3, <1>4, <1>5, <2>1, <2>2, <2>3
<1>6. CASE Done
  BY <1>1, <1>2, <1>3, <1>4, <1>6, <1>5, DoneType
<1>7. CASE result # "deciding" /\ loop' = [loop EXCEPT !.pc = "post", !.left = @ - 1]
           /\ loop.left > 1
  <2>1. /\ loop' \in Loop /\ loop'.pc = "post"
        /\ loop'.sid = loop.sid /\ loop'.verdict = loop.verdict
    <3>1. loop \in [pc : LoopPC, sid : Sessions \cup {None}, todo : SUBSET Sessions,
                    verdict : Decision \cup {None}, left : 0..Attempts]
      BY <1>1 DEF Loop
    <3>2. loop' = [pc |-> "post", sid |-> loop.sid, todo |-> loop.todo,
                   verdict |-> loop.verdict, left |-> loop.left - 1]
      BY <1>7, <3>1
    <3>3. /\ "post" \in LoopPC /\ loop.left - 1 \in 0..Attempts /\ loop.left - 1 > 0
          /\ loop.verdict \in Decision \cup {None}
      BY <1>2, <1>7 DEF LoopPC
    <3>4. QED
      BY <1>1, <1>2, <3>2, <3>3, LoopParts, LoopRecord
  <2>2. QED
    BY <1>2, <1>3, <1>4, <1>7, <2>1
<1>8. QED
  BY <1>3, <1>5, <1>6, <1>7

LEMMA StuckType == Stuck \in Loop /\ Stuck.pc = "stuck"
<1>1. /\ "stuck" \in LoopPC /\ {} \in SUBSET Sessions /\ 0 \in 0..Attempts
      /\ None \in Sessions \cup {None} /\ None \in Decision \cup {None}
  BY DEF LoopPC
<1>2. QED
  BY <1>1, LoopRecord DEF Stuck, LoopAt

(* A loop that waits for ever may have had its decision stored.             *)
LEMMA StallEffect ==
  ASSUME TypeOK, Stall
  PROVE  /\ loop' \in Loop /\ loop'.pc = "stuck"
         /\ row' \in [Sessions -> {"absent", "pending", "connecting", "terminated"}]
         /\ \/ row' = row
            \/ /\ loop.pc = "deciding" /\ loop.sid \in Sessions /\ loop.verdict \in Decision
               /\ row' = [row EXCEPT ![loop.sid] = Outcome(loop.verdict)]
<1>1. loop' \in Loop /\ loop'.pc = "stuck"
  BY StuckType DEF Stall
<1>2. CASE row' = row
  BY <1>1, <1>2 DEF TypeOK
<1>3. CASE row' # row
  <2>1. loop.pc = "deciding" /\ row' = [row EXCEPT ![loop.sid] = Outcome(loop.verdict)]
    BY <1>3 DEF Stall, NoAnswer
  <2>2. loop \in Loop
    BY DEF TypeOK
  <2>3. loop.sid \in Sessions /\ loop.verdict \in Decision
    BY <2>1, <2>2, LoopParts
  <2>4. QED
    BY <1>1, <2>1, <2>3 DEF Outcome, TypeOK
<1>4. QED
  BY <1>2, <1>3

LEMMA BackgroundStallEffect ==
  ASSUME TypeOK, NEW s \in Sessions, NEW n \in 1..Attempts, NEW phase \in {"post", "deciding"},
         BackgroundStall(s, n, phase)
  PROVE  /\ background' \in [Task -> Nat]
         /\ \A t \in Task : background'[t] > 0 => background[t] > 0
         /\ background[<<s, n, phase>>] > 0 /\ <<s, n, phase>> \in Task
         /\ row' = row \/ row' = [row EXCEPT ![s] = "connecting"]
         /\ row' \in [Sessions -> {"absent", "pending", "connecting", "terminated"}]
         /\ abandoned' \subseteq Sessions
<1>1. PICK u \in Task : u = <<s, n, phase>>
  BY DEF Task
<1>2. background[u] > 0 /\ background' = [background EXCEPT ![u] = @ - 1]
  BY <1>1 DEF BackgroundStall
<1>3. /\ background' \in [Task -> Nat]
      /\ \A t \in Task : background'[t] > 0 => background[t] > 0
  BY <1>2 DEF TypeOK
<1>4. row' = row \/ row' = [row EXCEPT ![s] = "connecting"]
  BY DEF BackgroundStall, NoAnswer, Outcome
<1>5. abandoned' \subseteq Sessions
  BY DEF BackgroundStall, GiveUp, TypeOK
<1>6. row \in [Sessions -> {"absent", "pending", "connecting", "terminated"}]
  BY DEF TypeOK
<1>8. row' \in [Sessions -> {"absent", "pending", "connecting", "terminated"}]
  BY <1>4, <1>6
<1>9. QED
  BY <1>1, <1>2, <1>3, <1>4, <1>5, <1>8

LEMMA TypeInit == Init => TypeOK
<1>1. <<>> \in Seq(Event)
  OBVIOUS
<1>2. Init => background \in [Task -> Nat]
  BY DEF Init
<1>3. Init => said \in [Sessions -> SUBSET Decision]
  BY DEF Init
<1>4. 0 \in 0..MaxFailures /\ 0 \in 0..MaxDrops
  OBVIOUS
<1>5. Init => loop \in Loop
  BY OfflineType DEF Init
<1>6. QED
  BY <1>1, <1>2, <1>3, <1>4, <1>5 DEF Init, TypeOK

LEMMA TypeStep == TypeOK /\ [Next]_vars => TypeOK'
<1> SUFFICES ASSUME TypeOK, [Next]_vars PROVE TypeOK'
  OBVIOUS
<1> USE DEF backend, link, desk, history
<1>1. CASE UNCHANGED vars
  BY <1>1 DEF vars, TypeOK
<1>2. CASE Connect
  <2>1. loop' \in Loop
    BY <1>2, GotoType DEF Connect, At, LoopPC, TypeOK
  <2>2. QED
    BY <1>2, <2>1 DEF Connect, TypeOK
<1>3. CASE Fetch
  <2>1. loop' \in Loop
    <3>1. {} \in SUBSET Sessions /\ {s \in Sessions : row[s] = "pending"} \in SUBSET Sessions
      OBVIOUS
    <3>2. QED
      BY <1>3, <3>1, HandleType DEF Fetch
  <2>2. QED
    BY <1>3, <2>1 DEF Fetch, MayFail, TypeOK
<1>4. CASE Read
  <2>1. stream \in Seq(Event) /\ stream # <<>>
    BY <1>4 DEF Read, TypeOK
  <2>2. Head(stream) \in Event /\ Tail(stream) \in Seq(Event)
    BY <2>1
  <2>3. Head(stream).sid \in Sessions
    BY <2>2 DEF Event
  <2>4. loop' \in Loop
    <3>1. CASE loop' = loop
      BY <3>1 DEF TypeOK
    <3>2. CASE loop' = [loop EXCEPT !.pc = "check", !.sid = Head(stream).sid]
      <4>1. loop \in [pc : LoopPC, sid : Sessions \cup {None}, todo : SUBSET Sessions,
                      verdict : Decision \cup {None}, left : 0..Attempts]
        BY DEF Loop, TypeOK
      <4>2. loop' = [pc |-> "check", sid |-> Head(stream).sid, todo |-> loop.todo,
                     verdict |-> loop.verdict, left |-> loop.left]
        BY <3>2, <4>1
      <4>3. "check" \in LoopPC
        BY DEF LoopPC
      <4>4. QED
        BY <2>3, <4>1, <4>2, <4>3, LoopRecord
    <3>3. QED
      BY <1>4, <3>1, <3>2 DEF Read
  <2>5. QED
    BY <1>4, <2>2, <2>4 DEF Read, TypeOK
<1>5. CASE Disconnected
  BY <1>5, OfflineType DEF Disconnected, TypeOK
<1>6. CASE Check
  <2>1. loop.sid \in Sessions /\ loop \in Loop
    BY <1>6, LoopParts DEF Check, At, TypeOK
  <2>2. loop' \in Loop
    BY <1>6, <2>1, DoneType, GotoType DEF Check, LoopPC
  <2>3. background' \in [Task -> Nat]
    <3>1. <<loop.sid, Attempts, "post">> \in Task
      BY <2>1 DEF Task
    <3>2. background[<<loop.sid, Attempts, "post">>] + 1 \in Nat
      BY <3>1 DEF TypeOK
    <3>3. QED
      BY <1>6, <3>2 DEF Check, TypeOK
  <2>4. QED
    BY <1>6, <2>1, <2>2, <2>3 DEF Check, TypeOK
<1>7. CASE Await
  <2>1. loop.sid \in Sessions /\ loop \in Loop
    BY <1>7, LoopParts DEF Await, At, TypeOK
  <2>2. loop' \in Loop
    BY <1>7, <2>1, SubmitType, GotoType DEF Await, LoopPC, Decision
  <2>3. QED
    BY <1>7, <2>2 DEF Await, TypeOK
<1>8. CASE Arm
  <2>1. loop.sid \in Sessions /\ loop \in Loop
    BY <1>8, LoopParts DEF Arm, At, TypeOK
  <2>2. loop' \in Loop
    BY <1>8, <2>1, GotoType DEF Arm, LoopPC
  <2>3. QED
    BY <1>8, <2>1, <2>2 DEF Arm, TypeOK
<1>9. CASE Ask
  <2>1. loop.sid \in Sessions /\ loop \in Loop
    BY <1>9, LoopParts DEF Ask, At, TypeOK
  <2>2. loop' \in Loop
    BY <1>9, <2>1, SubmitType, GotoType DEF Ask, LoopPC, Decision
  <2>3. QED
    BY <1>9, <2>1, <2>2 DEF Ask, TypeOK
<1>10. CASE Answered
  <2>1. loop.sid \in Sessions /\ loop \in Loop /\ answer \in Decision
    BY <1>10, LoopParts DEF Answered, At, TypeOK
  <2>2. loop' \in Loop
    BY <1>10, <2>1, SubmitType DEF Answered
  <2>3. QED
    BY <1>10, <2>2 DEF Answered, TypeOK
<1>11. CASE Timeout
  <2>1. loop.sid \in Sessions /\ loop \in Loop
    BY <1>11, LoopParts DEF Timeout, At, TypeOK
  <2>2. loop' \in Loop
    BY <1>11, <2>1, GotoType DEF Timeout, LoopPC
  <2>3. QED
    BY <1>11, <2>2 DEF Timeout, TypeOK
<1>12. CASE Expire
  <2>1. loop.sid \in Sessions /\ loop \in Loop
    BY <1>12, LoopParts DEF Expire, At, TypeOK
  <2>2. loop' \in Loop
    BY <1>12, <2>1, SubmitType DEF Expire, Decision
  <2>3. QED
    BY <1>12, <2>2 DEF Expire, TypeOK
<1>13. CASE Post
  <2>1. /\ row' \in [Sessions -> {"absent", "pending", "connecting", "terminated"}]
        /\ failures' \in 0..MaxFailures
    BY <1>13, PostLoop, PostStepType
  <2>2. loop' \in Loop /\ abandoned' \subseteq Sessions
    BY <1>13, PostLoop
  <2>3. QED
    BY <1>13, <2>1, <2>2 DEF Post, TypeOK
<1>14. ASSUME NEW s \in Sessions, NEW n \in 1..Attempts, NEW phase \in {"post", "deciding"},
              BackgroundPost(s, n, phase)
       PROVE  TypeOK'
  <2>1. PICK result \in {"deciding", "ok", "failed"} : PostStep(phase, s, "approve", result)
    BY <1>14 DEF BackgroundPost
  <2>2. /\ row' \in [Sessions -> {"absent", "pending", "connecting", "terminated"}]
        /\ failures' \in 0..MaxFailures
    BY <2>1, PostStepType DEF Decision
  <2>3. background' \in [Task -> Nat]
    BY <1>14, BackgroundType
  <2>4. abandoned' \subseteq Sessions
    BY <1>14 DEF BackgroundPost, GiveUp, TypeOK
  <2>5. QED
    BY <1>14, <2>2, <2>3, <2>4 DEF BackgroundPost, TypeOK
<1>15. ASSUME NEW s \in Sessions, Route(s) PROVE TypeOK'
  <2>1. [sid |-> s, auto |-> routing[s] = "announce"] \in Event /\ stream \in Seq(Event)
    BY DEF Event, TypeOK
  <2>2. Append(stream, [sid |-> s, auto |-> routing[s] = "announce"]) \in Seq(Event)
    BY <2>1
  <2>3. stream' \in Seq(Event)
    BY <1>15, <2>1, <2>2 DEF Route
  <2>4. QED
    BY <1>15, <2>3 DEF Route, TypeOK
<1>16. ASSUME NEW s \in Sessions, Unroute(s) \/ CutOff(s) \/ Create(s) \/ Terminate(s)
       PROVE  TypeOK'
  <2>1. CASE Unroute(s) \/ Terminate(s)
    BY <2>1 DEF Unroute, Terminate, TypeOK
  <2>2. CASE Create(s)
    BY <2>2 DEF Create, TypeOK
  <2>3. CASE CutOff(s)
    <3>1. failures' \in 0..MaxFailures
      BY <2>3, BoundsAssumption DEF CutOff, MayFail, TypeOK
    <3>2. QED
      BY <2>3, <3>1 DEF CutOff, TypeOK
  <2>4. QED
    BY <1>16, <2>1, <2>2, <2>3
<1>17. CASE AppConnect \/ AppSubscribe \/ AppLeave
  BY <1>17 DEF AppConnect, AppSubscribe, AppLeave, TypeOK
<1>18. CASE SetAutoApprove
  BY <1>18 DEF SetAutoApprove, TypeOK
<1>19. ASSUME NEW s \in Sessions, NEW d \in Decision, Respond(s, d) PROVE TypeOK'
  BY <1>19 DEF Respond, TypeOK
<1>20. CASE Subscribe \/ Notice
  BY <1>20 DEF Subscribe, Notice, TypeOK
<1>21. CASE Drop
  <2>1. \A n \in 0..Len(stream) : SubSeq(stream, 1, n) \in Seq(Event)
    BY DEF TypeOK
  <2>2. stream' \in Seq(Event)
    BY <1>21, <2>1 DEF Drop
  <2>3. QED
    BY <1>21, <2>2 DEF Drop, Lose, TypeOK
<1>22. CASE Restart
  <2>1. <<>> \in Seq(Event)
    OBVIOUS
  <2>2. background' \in [Task -> Nat]
    BY <1>22 DEF Restart
  <2>3. loop' \in Loop
    BY <1>22, OfflineType DEF Restart
  <2>4. drops' \in 0..MaxDrops
    BY <1>22 DEF Restart, Lose, TypeOK
  <2>5. QED
    BY <1>22, <2>1, <2>2, <2>3, <2>4 DEF Restart, Lose, TypeOK
<1>23. CASE Stall
  BY <1>23, StallEffect DEF Stall, TypeOK
<1>24. ASSUME NEW s \in Sessions, NEW n \in 1..Attempts, NEW phase \in {"post", "deciding"},
              BackgroundStall(s, n, phase)
       PROVE  TypeOK'
  BY <1>24, BackgroundStallEffect DEF BackgroundStall, TypeOK
<1>25. QED
  BY <1>1, <1>2, <1>3, <1>4, <1>5, <1>6, <1>7, <1>8, <1>9, <1>10, <1>11, <1>12,
     <1>13, <1>14, <1>15, <1>16, <1>17, <1>18, <1>19, <1>20, <1>21, <1>22, <1>23, <1>24
     DEF Next, LoopStep, Phone, User

(* Every variable keeps its shape, whatever fails, is lost or restarted.    *)
THEOREM TypeCorrect == Spec => []TypeOK
BY TypeInit, TypeStep, PTL DEF Spec

-----------------------------------------------------------------------------
(* Who decides.                                                             *)

(* Nobody but the user, or auto-approval, approves a session.               *)
LEMMA DecidesStep == TypeOK /\ UserDecides /\ AnswerMeetsItsWait /\ [Next]_vars => UserDecides'
<1> SUFFICES ASSUME TypeOK, UserDecides, AnswerMeetsItsWait, [Next]_vars PROVE UserDecides'
  OBVIOUS
<1> USE DEF backend, link, desk, history
<1> DEFINE Granted(s) == s \in waived \/ "approve" \in said[s]
           Approving == loop.pc \in {"post", "deciding"} /\ loop.verdict = "approve"
<1>1. /\ \A s \in Sessions : row[s] = "connecting" => Granted(s)
      /\ Approving => "approve" \in said[loop.sid]
      /\ \A t \in Task : background[t] > 0 => t[1] \in waived
  BY DEF UserDecides
<1>2. ASSUME row' = row, background' = background, waived' = waived, said' = said,
             ~Approving'
      PROVE  UserDecides'
  BY <1>1, <1>2 DEF UserDecides
<1>3. ASSUME row' = row, background' = background, waived' = waived, said' = said,
             loop' = loop
      PROVE  UserDecides'
  BY <1>1, <1>3 DEF UserDecides
<1>4. CASE UNCHANGED vars \/ AppConnect \/ AppSubscribe \/ AppLeave \/ SetAutoApprove
           \/ Subscribe \/ Drop \/ Notice
  BY <1>3, <1>4 DEF vars, AppConnect, AppSubscribe, AppLeave, SetAutoApprove,
                    Subscribe, Drop, Notice, Lose
<1>5. CASE Connect \/ Arm \/ Timeout
  <2>1. loop'.pc \in {"fetch", "ask", "expired"}
    BY <1>5 DEF Connect, Arm, Timeout, Goto, TypeOK, Loop
  <2>2. QED
    BY <1>2, <1>5, <2>1 DEF Connect, Arm, Timeout
<1>6. CASE Fetch
  <2>1. loop'.pc \in {"reading", "check"}
    <3>1. {} \in SUBSET Sessions /\ {s \in Sessions : row[s] = "pending"} \in SUBSET Sessions
      OBVIOUS
    <3>2. QED
      BY <1>6, <3>1, HandleType DEF Fetch
  <2>2. QED
    BY <1>2, <1>6, <2>1 DEF Fetch
<1>7. CASE Read
  <2>1. loop'.pc \in {"reading", "check"}
    BY <1>7 DEF Read, At, TypeOK, Loop
  <2>2. QED
    BY <1>2, <1>7, <2>1 DEF Read
<1>8. CASE Disconnected
  BY <1>2, <1>8, OfflineType DEF Disconnected
<1>9. CASE Check
  <2>1. loop.sid \in Sessions /\ loop \in Loop
    BY <1>9, LoopParts DEF Check, At, TypeOK
  <2>2. loop'.pc \notin {"post", "deciding"}
    BY <1>9, <2>1, DoneType, GotoType DEF Check, LoopPC
  <2>3. CASE auto
    <3>1. /\ background' = [background EXCEPT ![<<loop.sid, Attempts, "post">>] = @ + 1]
          /\ waived' = waived \cup {loop.sid}
          /\ row' = row /\ said' = said
      BY <1>9, <2>3 DEF Check
    <3>2. \A t \in Task : background'[t] > 0 => t[1] = loop.sid \/ background[t] > 0
      BY <3>1 DEF TypeOK
    <3>3. QED
      BY <1>1, <2>2, <3>1, <3>2 DEF UserDecides
  <2>4. CASE ~auto
    BY <1>2, <1>9, <2>2, <2>4 DEF Check
  <2>5. QED
    BY <2>3, <2>4
<1>10. CASE Await \/ Ask \/ Expire
  <2>1. loop.sid \in Sessions /\ loop \in Loop
    BY <1>10, LoopParts DEF Await, Ask, Expire, At, TypeOK
  <2>2. \/ loop'.pc \in {"arm", "wait"}
        \/ loop'.pc = "post" /\ loop'.verdict = "reject"
    BY <1>10, <2>1, SubmitType, GotoType DEF Await, Ask, Expire, LoopPC, Decision
  <2>3. QED
    BY <1>2, <1>10, <2>2 DEF Await, Ask, Expire
<1>11. CASE Answered
  <2>1. loop.sid \in Sessions /\ loop \in Loop /\ answer \in Decision
    BY <1>11, LoopParts DEF Answered, At, TypeOK
  <2>2. loop'.pc = "post" /\ loop'.sid = loop.sid /\ loop'.verdict = answer
    BY <1>11, <2>1, SubmitType DEF Answered
  <2>3. answer \in said[loop.sid]
    BY <1>11 DEF Answered, At, AnswerMeetsItsWait
  <2>4. QED
    BY <1>1, <1>11, <2>2, <2>3 DEF Answered, UserDecides
<1>12. CASE Post
  <2>1. /\ loop.sid \in Sessions /\ loop.verdict \in Decision
        /\ loop.pc \in {"post", "deciding"}
        /\ waived' = waived /\ said' = said /\ background' = background
    BY <1>12, PostLoop DEF Post
  <2>2. row' = row \/ row' = [row EXCEPT ![loop.sid] = Outcome(loop.verdict)]
    BY <1>12, <2>1, PostLoop, PostStepType
  <2>3. \A s \in Sessions : row'[s] = "connecting" => row[s] = "connecting" \/
                              (s = loop.sid /\ loop.verdict = "approve")
    BY <2>1, <2>2 DEF Outcome, Decision, TypeOK
  <2>4. Approving' => "approve" \in said[loop'.sid]
    BY <1>1, <1>12, <2>1, PostLoop
  <2>5. QED
    BY <1>1, <2>1, <2>3, <2>4 DEF UserDecides
<1>13. ASSUME NEW s \in Sessions, NEW n \in 1..Attempts, NEW phase \in {"post", "deciding"},
              BackgroundPost(s, n, phase)
       PROVE  UserDecides'
  <2>1. PICK result \in {"deciding", "ok", "failed"} : PostStep(phase, s, "approve", result)
    BY <1>13 DEF BackgroundPost
  <2>2. row' = row \/ row' = [row EXCEPT ![s] = Outcome("approve")]
    BY <2>1, PostStepType DEF Decision
  <2>3. \A r \in Sessions : row'[r] = "connecting" => row[r] = "connecting" \/ r = s
    BY <2>2 DEF TypeOK
  <2>4. /\ \A t \in Task : background'[t] > 0 => t[1] = s \/ background[t] > 0
        /\ background[<<s, n, phase>>] > 0 /\ <<s, n, phase>> \in Task
    BY <1>13, BackgroundType
  <2>5. s \in waived
    BY <1>1, <2>4
  <2>6. waived' = waived /\ said' = said /\ loop' = loop
    BY <1>13 DEF BackgroundPost
  <2>7. QED
    BY <1>1, <2>3, <2>4, <2>5, <2>6 DEF UserDecides
<1>14. ASSUME NEW s \in Sessions, Create(s) PROVE UserDecides'
  BY <1>1, <1>14 DEF Create, UserDecides, TypeOK
<1>15. ASSUME NEW s \in Sessions, Route(s) \/ CutOff(s) PROVE UserDecides'
  BY <1>3, <1>15 DEF Route, CutOff
<1>16. ASSUME NEW s \in Sessions, Unroute(s) \/ Terminate(s) PROVE UserDecides'
  BY <1>1, <1>16 DEF Unroute, Terminate, UserDecides, TypeOK
<1>17. ASSUME NEW s \in Sessions, NEW d \in Decision, Respond(s, d) PROVE UserDecides'
  <2>1. /\ row' = row /\ background' = background /\ waived' = waived /\ loop' = loop
        /\ \A r \in Sessions : said[r] \subseteq said'[r]
    BY <1>17 DEF Respond, TypeOK
  <2>2. Approving => loop.sid \in Sessions
    BY LoopParts DEF TypeOK
  <2>3. QED
    BY <1>1, <2>1, <2>2 DEF UserDecides
<1>18. CASE Restart
  <2>1. background' = [t \in Task |-> 0] /\ loop'.pc = "offline"
    BY <1>18, OfflineType DEF Restart
  <2>2. \A t \in Task : ~(background'[t] > 0)
    BY <2>1
  <2>3. QED
    BY <1>1, <1>18, <2>1, <2>2 DEF Restart, UserDecides
<1>19. CASE Stall
  <2>1. \A s \in Sessions : row'[s] = "connecting" => row[s] = "connecting" \/
                              (s = loop.sid /\ Approving)
    BY <1>19, StallEffect DEF Outcome, Decision, TypeOK
  <2>2. ~Approving'
    BY <1>19, StallEffect
  <2>3. background' = background /\ waived' = waived /\ said' = said
    BY <1>19 DEF Stall
  <2>4. QED
    BY <1>1, <2>1, <2>2, <2>3 DEF UserDecides
<1>20. ASSUME NEW s \in Sessions, NEW n \in 1..Attempts, NEW phase \in {"post", "deciding"},
              BackgroundStall(s, n, phase)
       PROVE  UserDecides'
  <2>1. s \in waived
    <3>1. background[<<s, n, phase>>] > 0 /\ <<s, n, phase>> \in Task
      BY <1>20, BackgroundStallEffect
    <3>2. QED
      BY <1>1, <3>1
  <2>2. \A r \in Sessions : row'[r] = "connecting" => row[r] = "connecting" \/ r = s
    <3>1. row' = row \/ row' = [row EXCEPT ![s] = "connecting"]
      BY <1>20, SMT DEF BackgroundStall, NoAnswer, Outcome
    <3>2. row \in [Sessions -> {"absent", "pending", "connecting", "terminated"}]
      BY DEF TypeOK
    <3>3. QED
      BY <3>1, <3>2
  <2>3. waived' = waived /\ said' = said /\ loop' = loop
    BY <1>20 DEF BackgroundStall
  <2>4. \A t \in Task : background'[t] > 0 => background[t] > 0
    BY <1>20, BackgroundStallEffect
  <2>5. QED
    BY <1>1, <2>1, <2>2, <2>3, <2>4 DEF UserDecides
<1>21. QED
  BY <1>4, <1>5, <1>6, <1>7, <1>8, <1>9, <1>10, <1>11, <1>12, <1>13, <1>14, <1>15,
     <1>16, <1>17, <1>18, <1>19, <1>20 DEF Next, LoopStep, Phone, User

(* The map of senders holds at most the one of the wait in progress, and an *)
(* answer uses it up.                                                       *)
LEMMA WaitStep ==
  TypeOK /\ AnswerMeetsItsWait /\ OneAnswer /\ [Next]_vars
    => AnswerMeetsItsWait' /\ OneAnswer'
<1> SUFFICES ASSUME TypeOK, AnswerMeetsItsWait, OneAnswer, [Next]_vars
             PROVE  AnswerMeetsItsWait' /\ OneAnswer'
  OBVIOUS
<1> USE DEF backend, link, desk, history
<1>1. /\ \A s \in armed : loop.pc \in {"ask", "wait", "expired"} /\ loop.sid = s
      /\ loop.pc \in {"ask", "wait"} /\ answer # None
           => answer \in said[loop.sid] /\ armed = {}
  BY DEF AnswerMeetsItsWait, OneAnswer
<1>2. ASSUME armed' = {}, loop'.pc \notin {"ask", "wait"}
      PROVE  AnswerMeetsItsWait' /\ OneAnswer'
  BY <1>2 DEF AnswerMeetsItsWait, OneAnswer
<1>3. ASSUME armed' = armed, answer' = answer, said' = said, loop' = loop
      PROVE  AnswerMeetsItsWait' /\ OneAnswer'
  BY <1>1, <1>3 DEF AnswerMeetsItsWait, OneAnswer
<1>4. loop.pc \notin {"ask", "wait", "expired"} => armed = {}
  BY <1>1
<1>5. CASE UNCHANGED vars \/ AppConnect \/ AppSubscribe \/ AppLeave \/ SetAutoApprove
           \/ Subscribe \/ Drop \/ Notice \/ Phone
           \/ (\E s \in Sessions : Route(s) \/ Unroute(s) \/ CutOff(s))
           \/ \E s \in Sessions, n \in 1..Attempts, phase \in {"post", "deciding"} :
                BackgroundPost(s, n, phase) \/ BackgroundStall(s, n, phase)
  <2>1. CASE UNCHANGED vars \/ AppConnect \/ AppSubscribe \/ AppLeave \/ SetAutoApprove
    BY <1>3, <2>1 DEF vars, AppConnect, AppSubscribe, AppLeave, SetAutoApprove
  <2>2. CASE Subscribe \/ Drop \/ Notice \/ Phone
    BY <1>3, <2>2 DEF Subscribe, Drop, Notice, Phone, Create, Terminate
  <2>3. CASE \E s \in Sessions : Route(s) \/ Unroute(s) \/ CutOff(s)
    BY <1>3, <2>3 DEF Route, Unroute, CutOff
  <2>4. ASSUME NEW s \in Sessions, NEW n \in 1..Attempts, NEW phase \in {"post", "deciding"},
               BackgroundPost(s, n, phase) \/ BackgroundStall(s, n, phase)
        PROVE  AnswerMeetsItsWait' /\ OneAnswer'
    BY <1>3, <2>4 DEF BackgroundPost, BackgroundStall
  <2>5. QED
    BY <1>5, <2>1, <2>2, <2>3, <2>4
<1>6. CASE Connect
  BY <1>2, <1>4, <1>6 DEF Connect, At, Goto, TypeOK, Loop
<1>7. CASE Fetch
  <2>1. loop'.pc \in {"reading", "check"}
    <3>1. {} \in SUBSET Sessions /\ {s \in Sessions : row[s] = "pending"} \in SUBSET Sessions
      OBVIOUS
    <3>2. QED
      BY <1>7, <3>1, HandleType DEF Fetch
  <2>2. QED
    BY <1>2, <1>4, <1>7, <2>1 DEF Fetch, At
<1>8. CASE Read
  <2>1. loop'.pc \in {"reading", "check"}
    BY <1>8 DEF Read, At, TypeOK, Loop
  <2>2. QED
    BY <1>2, <1>4, <1>8, <2>1 DEF Read, At
<1>9. CASE Disconnected
  BY <1>2, <1>4, <1>9, OfflineType DEF Disconnected, At
<1>10. CASE Check
  <2>1. loop.sid \in Sessions /\ loop \in Loop
    BY <1>10, LoopParts DEF Check, At, TypeOK
  <2>2. loop'.pc \notin {"ask", "wait"}
    BY <1>10, <2>1, DoneType, GotoType DEF Check, LoopPC
  <2>3. QED
    BY <1>2, <1>4, <1>10, <2>2 DEF Check, At
<1>11. CASE Await
  <2>1. loop.sid \in Sessions /\ loop \in Loop
    BY <1>11, LoopParts DEF Await, At, TypeOK
  <2>2. loop'.pc \in {"arm", "post"}
    BY <1>11, <2>1, SubmitType, GotoType DEF Await, LoopPC, Decision
  <2>3. QED
    BY <1>2, <1>4, <1>11, <2>2 DEF Await, At
<1>12. CASE Arm
  <2>1. loop.sid \in Sessions /\ loop \in Loop
    BY <1>12, LoopParts DEF Arm, At, TypeOK
  <2>2. loop'.pc = "ask" /\ loop'.sid = loop.sid
    BY <1>12, <2>1, GotoType DEF Arm, LoopPC
  <2>3. armed' = {loop.sid} /\ answer' = None
    BY <1>4, <1>12 DEF Arm, At
  <2>4. QED
    BY <2>2, <2>3 DEF AnswerMeetsItsWait, OneAnswer
<1>13. CASE Ask
  <2>1. loop.sid \in Sessions /\ loop \in Loop /\ loop.pc = "ask"
    BY <1>13, LoopParts DEF Ask, At, TypeOK
  <2>2. CASE Goto("wait") /\ armed' = armed
    <3>1. loop'.pc = "wait" /\ loop'.sid = loop.sid
      BY <2>1, <2>2, GotoType DEF LoopPC
    <3>2. answer' = answer /\ said' = said
      BY <1>13 DEF Ask
    <3>3. QED
      BY <1>1, <2>1, <2>2, <3>1, <3>2 DEF AnswerMeetsItsWait, OneAnswer
  <2>3. CASE Submit("reject") /\ armed' = armed \ {loop.sid}
    <3>1. loop'.pc = "post"
      BY <2>1, <2>3, SubmitType DEF Decision
    <3>2. QED
      BY <1>1, <1>2, <2>3, <3>1
  <2>4. QED
    BY <1>13, <2>2, <2>3 DEF Ask
<1>14. CASE Answered
  <2>1. loop.sid \in Sessions /\ loop \in Loop /\ answer \in Decision
    BY <1>14, LoopParts DEF Answered, At, TypeOK
  <2>2. loop'.pc = "post"
    BY <1>14, <2>1, SubmitType DEF Answered
  <2>3. QED
    BY <1>1, <1>2, <1>14, <2>2 DEF Answered, At
<1>15. CASE Timeout
  <2>1. loop.sid \in Sessions /\ loop \in Loop
    BY <1>15, LoopParts DEF Timeout, At, TypeOK
  <2>2. loop'.pc = "expired" /\ loop'.sid = loop.sid
    BY <1>15, <2>1, GotoType DEF Timeout, LoopPC
  <2>3. QED
    BY <1>1, <1>15, <2>2 DEF Timeout, AnswerMeetsItsWait, OneAnswer
<1>16. CASE Expire
  <2>1. loop.sid \in Sessions /\ loop \in Loop
    BY <1>16, LoopParts DEF Expire, At, TypeOK
  <2>2. loop'.pc = "post"
    BY <1>16, <2>1, SubmitType DEF Expire, Decision
  <2>3. QED
    BY <1>1, <1>2, <1>16, <2>2 DEF Expire
<1>17. CASE Post
  <2>1. loop'.pc \notin {"ask", "wait"}
    BY <1>17, PostLoop
  <2>2. QED
    BY <1>2, <1>4, <1>17, <2>1 DEF Post
<1>18. ASSUME NEW s \in Sessions, NEW d \in Decision, Respond(s, d)
       PROVE  AnswerMeetsItsWait' /\ OneAnswer'
  <2>1. /\ loop' = loop
        /\ armed' = armed \ {s}
        /\ said' = [said EXCEPT ![s] = @ \cup {d}]
        /\ answer' = IF s \in armed /\ loop.pc \in {"ask", "wait"} THEN d ELSE answer
    BY <1>18 DEF Respond
  <2>2. d \in said'[s] /\ \A r \in Sessions : said[r] \subseteq said'[r]
    BY <2>1 DEF TypeOK
  <2>3. loop.pc \in {"ask", "wait"} => loop.sid \in Sessions
    BY LoopParts DEF TypeOK
  <2>4. QED
    BY <1>1, <2>1, <2>2, <2>3 DEF AnswerMeetsItsWait, OneAnswer
<1>19. CASE Restart
  BY <1>2, <1>19, OfflineType DEF Restart
<1>20. CASE Stall
  <2>1. loop.pc \notin {"ask", "wait", "expired"}
    BY <1>20 DEF Stall, At
  <2>2. loop'.pc = "stuck" /\ armed' = armed
    BY <1>20, StallEffect DEF Stall
  <2>3. QED
    BY <1>2, <1>4, <2>1, <2>2
<1>21. QED
  BY <1>5, <1>6, <1>7, <1>8, <1>9, <1>10, <1>11, <1>12, <1>13, <1>14, <1>15, <1>16,
     <1>17, <1>18, <1>19, <1>20 DEF Next, LoopStep, User

(* While the loop has its decision stored, a session becomes connecting only *)
(* through a task of the background.                                         *)
LEMMA AloneStep ==
  TypeOK /\ UserDecides /\ DecidingAlone /\ [Next]_vars => DecidingAlone'
<1> SUFFICES ASSUME TypeOK, UserDecides, DecidingAlone, [Next]_vars PROVE DecidingAlone'
  OBVIOUS
<1> USE DEF backend, link, desk, history
<1>1. loop.pc = "deciding" /\ row[loop.sid] = "connecting" => loop.sid \in waived
  BY DEF DecidingAlone, At
<1>2. ASSUME loop'.pc # "deciding" PROVE DecidingAlone'
  BY <1>2 DEF DecidingAlone, At
<1>3. ASSUME row' = row, loop' = loop, waived \subseteq waived' PROVE DecidingAlone'
  BY <1>1, <1>3 DEF DecidingAlone, At
<1>4. CASE UNCHANGED vars \/ AppConnect \/ AppSubscribe \/ AppLeave \/ SetAutoApprove
           \/ Subscribe \/ Drop \/ Notice
           \/ (\E s \in Sessions : Route(s) \/ CutOff(s))
           \/ (\E s \in Sessions, d \in Decision : Respond(s, d))
  BY <1>3, <1>4 DEF vars, AppConnect, AppSubscribe, AppLeave, SetAutoApprove,
                    Subscribe, Drop, Notice, Route, CutOff, Respond
<1>5. CASE Connect \/ Arm \/ Timeout
  <2>1. loop'.pc \in {"fetch", "ask", "expired"}
    BY <1>5 DEF Connect, Arm, Timeout, Goto, TypeOK, Loop
  <2>2. QED
    BY <1>2, <2>1
<1>6. CASE Fetch
  <2>1. {} \in SUBSET Sessions /\ {s \in Sessions : row[s] = "pending"} \in SUBSET Sessions
    OBVIOUS
  <2>2. QED
    BY <1>2, <1>6, <2>1, HandleType DEF Fetch
<1>7. CASE Read
  BY <1>2, <1>7 DEF Read, At, TypeOK, Loop
<1>8. CASE Disconnected \/ Restart
  BY <1>2, <1>8, OfflineType DEF Disconnected, Restart
<1>9. CASE Check \/ Await \/ Ask \/ Answered \/ Expire
  <2>1. loop.sid \in Sessions /\ loop \in Loop
    BY <1>9, LoopParts DEF Check, Await, Ask, Answered, Expire, At, TypeOK
  <2>2. CASE Check
    BY <1>2, <2>1, <2>2, DoneType, GotoType DEF Check, LoopPC
  <2>3. CASE Answered
    <3>1. answer \in Decision
      BY <2>3 DEF Answered, TypeOK
    <3>2. QED
      BY <1>2, <2>1, <2>3, <3>1, SubmitType DEF Answered
  <2>4. CASE Await \/ Ask \/ Expire
    BY <1>2, <2>1, <2>4, SubmitType, GotoType DEF Await, Ask, Expire, LoopPC, Decision
  <2>5. QED
    BY <1>9, <2>2, <2>3, <2>4
<1>10. CASE Post
  <2>1. CASE loop'.pc = "deciding"
    <3>1. loop'.sid = loop.sid /\ row[loop.sid] = "pending" /\ row' = row
      BY <1>10, <2>1, PostLoop
    <3>2. QED
      BY <3>1 DEF DecidingAlone
  <2>2. QED
    BY <1>2, <2>1
<1>11. ASSUME NEW s \in Sessions, NEW n \in 1..Attempts, NEW phase \in {"post", "deciding"},
              BackgroundPost(s, n, phase)
       PROVE  DecidingAlone'
  <2>1. PICK result \in {"deciding", "ok", "failed"} : PostStep(phase, s, "approve", result)
    BY <1>11 DEF BackgroundPost
  <2>2. row' = row \/ row' = [row EXCEPT ![s] = Outcome("approve")]
    BY <2>1, PostStepType DEF Decision
  <2>3. \A r \in Sessions \ {s} : row'[r] = row[r]
    BY <2>2 DEF TypeOK
  <2>4. s \in waived
    <3>1. background[<<s, n, phase>>] > 0 /\ <<s, n, phase>> \in Task
      BY <1>11, BackgroundType
    <3>2. QED
      BY <3>1 DEF UserDecides
  <2>5. waived' = waived /\ loop' = loop
    BY <1>11 DEF BackgroundPost
  <2>6. loop.pc = "deciding" => loop.sid \in Sessions
    BY LoopParts DEF TypeOK
  <2>7. QED
    BY <1>1, <2>3, <2>4, <2>5, <2>6 DEF DecidingAlone, At
<1>12. ASSUME NEW s \in Sessions, Create(s) \/ Unroute(s) \/ Terminate(s)
       PROVE  DecidingAlone'
  <2>1. /\ loop' = loop /\ waived \subseteq waived'
        /\ \A r \in Sessions : row'[r] = "connecting" => row[r] = "connecting" \/ r \in waived'
    BY <1>12 DEF Create, Unroute, Terminate, TypeOK
  <2>2. loop.pc = "deciding" => loop.sid \in Sessions
    BY LoopParts DEF TypeOK
  <2>3. QED
    BY <1>1, <2>1, <2>2 DEF DecidingAlone, At
<1>13. CASE Stall
  BY <1>2, <1>13, StallEffect
<1>14. ASSUME NEW s \in Sessions, NEW n \in 1..Attempts, NEW phase \in {"post", "deciding"},
              BackgroundStall(s, n, phase)
       PROVE  DecidingAlone'
  <2>1. s \in waived
    <3>1. background[<<s, n, phase>>] > 0 /\ <<s, n, phase>> \in Task
      BY <1>14, BackgroundStallEffect
    <3>2. QED
      BY <3>1 DEF UserDecides
  <2>2. \A r \in Sessions : r # s => row'[r] = row[r]
    <3>1. row' = row \/ row' = [row EXCEPT ![s] = "connecting"]
      BY <1>14, SMT DEF BackgroundStall, NoAnswer, Outcome
    <3>2. row \in [Sessions -> {"absent", "pending", "connecting", "terminated"}]
      BY DEF TypeOK
    <3>3. QED
      BY <3>1, <3>2
  <2>3. waived' = waived /\ loop' = loop
    BY <1>14 DEF BackgroundStall
  <2>4. loop.pc = "deciding" => loop.sid \in Sessions
    BY LoopParts DEF TypeOK
  <2>5. QED
    BY <1>1, <2>1, <2>2, <2>3, <2>4 DEF DecidingAlone, At
<1>15. QED
  BY <1>4, <1>5, <1>6, <1>7, <1>8, <1>9, <1>10, <1>11, <1>12, <1>13, <1>14
     DEF Next, LoopStep, Phone, User

LEMMA Invariance == Spec => []IInv
<1>1. Init => IInv
  <2> SUFFICES ASSUME Init PROVE IInv
    OBVIOUS
  <2>1. loop.pc = "offline"
    BY OfflineType DEF Init
  <2>2. \A t \in Task : ~(background[t] > 0)
    BY DEF Init
  <2>3. UserDecides /\ AnswerMeetsItsWait /\ OneAnswer /\ DecidingAlone
    BY <2>1, <2>2 DEF Init, UserDecides, AnswerMeetsItsWait, OneAnswer, DecidingAlone, At
  <2>4. QED
    BY <2>3, TypeInit DEF IInv
<1>2. IInv /\ [Next]_vars => IInv'
  BY TypeStep, DecidesStep, WaitStep, AloneStep DEF IInv
<1>3. QED
  BY <1>1, <1>2, PTL DEF Spec

(* A session is approved by the user, or by auto-approval, and by nobody    *)
(* else, however often decisions are posted and answers are late.           *)
THEOREM UserDecidesAlways == Spec => []UserDecides
<1>1. IInv => UserDecides
  BY DEF IInv
<1>2. QED
  BY <1>1, Invariance, PTL

(* No answer is taken for that of another session or of another wait.       *)
THEOREM AnswerMeetsItsWaitAlways == Spec => []AnswerMeetsItsWait
<1>1. IInv => AnswerMeetsItsWait
  BY DEF IInv
<1>2. QED
  BY <1>1, Invariance, PTL

(* What the user approved is not ended by a refusal that is posted later.   *)
THEOREM ApprovalStandsAlways == Spec => ApprovalStands
<1> DEFINE Kept(s) == row[s] = "connecting" /\ row'[s] = "terminated"
                        => s \in ended' \cup waived
<1>1. IInv /\ [Next]_vars => [\A s \in Sessions : Kept(s)]_vars
  <2> SUFFICES ASSUME IInv, [Next]_vars, NEW s \in Sessions,
                      row[s] = "connecting", row'[s] = "terminated"
               PROVE  s \in ended' \cup waived
    OBVIOUS
  <2> USE DEF backend, link, desk, history
  <2>1. TypeOK /\ UserDecides /\ DecidingAlone
    BY DEF IInv
  <2>2. row' # row
    OBVIOUS
  <2>3. CASE Post
    <3>1. PICK result \in {"deciding", "ok", "failed"} :
            PostStep(loop.pc, loop.sid, loop.verdict, result)
      BY <2>1, <2>3, PostLoop
    <3>2. loop.sid \in Sessions /\ loop.verdict \in Decision
      BY <2>1, <2>3, PostLoop
    <3>3. loop.pc = "deciding" /\ row' = [row EXCEPT ![loop.sid] = Outcome(loop.verdict)]
      BY <2>1, <2>2, <3>1, <3>2, PostStepType
    <3>4. s = loop.sid
      BY <2>1, <3>2, <3>3 DEF TypeOK
    <3>5. QED
      BY <2>1, <3>3, <3>4 DEF DecidingAlone, At
  <2>4. ASSUME NEW r \in Sessions, NEW n \in 1..Attempts,
               NEW phase \in {"post", "deciding"}, BackgroundPost(r, n, phase)
        PROVE  s \in ended' \cup waived
    <3>1. PICK result \in {"deciding", "ok", "failed"} : PostStep(phase, r, "approve", result)
      BY <2>4 DEF BackgroundPost
    <3>2. row' = [row EXCEPT ![r] = Outcome("approve")]
      BY <2>1, <2>2, <3>1, PostStepType DEF Decision
    <3>3. QED
      BY <2>1, <3>2 DEF Outcome, TypeOK
  <2>5. ASSUME NEW r \in Sessions, Create(r) \/ Unroute(r) \/ Terminate(r)
        PROVE  s \in ended' \cup waived
    BY <2>1, <2>5 DEF Create, Unroute, Terminate, TypeOK
  <2>7. CASE Stall
    <3>1. loop.pc = "deciding" /\ loop.sid \in Sessions
          /\ row' = [row EXCEPT ![loop.sid] = Outcome(loop.verdict)]
      BY <2>1, <2>2, <2>7, StallEffect
    <3>2. s = loop.sid
      BY <2>1, <3>1 DEF TypeOK
    <3>3. QED
      BY <2>1, <3>1, <3>2 DEF DecidingAlone, At
  <2>8. ASSUME NEW r \in Sessions, NEW n \in 1..Attempts,
               NEW phase \in {"post", "deciding"}, BackgroundStall(r, n, phase)
        PROVE  s \in ended' \cup waived
    <3>1. row' = [row EXCEPT ![r] = "connecting"]
      BY <2>1, <2>2, <2>8, BackgroundStallEffect
    <3>2. QED
      BY <2>1, <3>1 DEF TypeOK
  <2>6. QED
    BY <2>2, <2>3, <2>4, <2>5, <2>7, <2>8
       DEF Next, LoopStep, Phone, User, vars, Connect, Fetch, Read, Disconnected, Check,
           Await, Arm, Ask, Answered, Timeout, Expire, Route, CutOff, AppConnect, AppSubscribe,
           AppLeave, SetAutoApprove, Respond, Subscribe, Drop, Notice, Restart
<1>2. QED
  BY <1>1, Invariance, PTL DEF Spec, ApprovalStands
=============================================================================
