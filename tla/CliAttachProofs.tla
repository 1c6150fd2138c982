---------------------------- MODULE CliAttachProofs ----------------------------
(***************************************************************************)
(* Proofs about CliAttach, for any requests, scopes, prefixes, keys and     *)
(* bounds: the parts of the approval prompt belong together, and the output *)
(* arrives in order.  The prompt is sound by itself, whatever it is told    *)
(* next; what it is told is a request of the server, however often and     *)
(* late, since nothing else is in the socket's copy of the events or on    *)
(* its way.  Of the output, each chunk that is shown, kept back or coming  *)
(* has its successor further along, unless it is the newest.               *)
(***************************************************************************)
EXTENDS CliAttach, TLAPS

(* What the constants are: a request has a scope (parse_supported_scopes    *)
(* gives two to one without), None is no request and no chunk, and a        *)
(* subscriber can be behind.                                               *)
WellFormed ==
  /\ None \notin Requests \cup Nat /\ Capacity \in Nat \ {0}
  /\ \A r \in Requests : Len(Scopes[r]) \in Nat /\ Len(Scopes[r]) > 0
  /\ \A r \in Requests : Candidates[r] \in Seq(ToSet(Candidates[r]))

(* Messages about an approval name a request.                              *)
Messages ==
  [kind : {"request", "resolved"}, own : {TRUE}, what : {<<r>> : r \in Requests}]
  \cup [kind : {"output", "ready", "closed", "error"}, own : BOOLEAN, what : Seq(Nat)]

Typed ==
  /\ latest \in Nat /\ first \in Nat /\ first >= 1 /\ first <= latest + 1
  /\ unsent \in Nat \cup {None}
  /\ receiver \in Seq(Messages) /\ inbox \in Seq(Messages)
  /\ program = "submitting" => submitted.request \in Requests

(* The prompt by itself: what waits or is selected belongs to a prompt that *)
(* is shown, no request is shown twice, and the cursor is on a line.       *)
Sound(p) ==
  /\ p = [active |-> p.active, queue |-> p.queue, prefix_selection |-> p.prefix_selection,
          selected_idx |-> p.selected_idx]
  /\ p.active \in Requests \cup {None} /\ p.queue \in Seq(Requests) /\ p.selected_idx \in Nat
  /\ p.queue # <<>> \/ p.prefix_selection # None => p.active # None
  /\ p.prefix_selection # None => p.prefix_selection.request = p.active
  /\ \A i, j \in 1..Len(p.queue) : p.queue[i] = p.queue[j] => i = j
  /\ \A i \in 1..Len(p.queue) : p.queue[i] # p.active
  /\ p.active # None => p.selected_idx < Lines(p)

(* What is kept back waits for the prompt, and an answer has a prefix that  *)
(* was picked.                                                             *)
Kept == held # <<>> => has_pending(prompt)
PrefixIsPicked == submitted # None /\ submitted.prefix # None => submitted.picked

IInv == Typed /\ Sound(prompt) /\ Kept /\ PrefixIsPicked
-----------------------------------------------------------------------------
(* Operators                                                               *)

(* There are two lines to choose for each scope.                           *)
LEMMA ChoicesLength ==
  ASSUME WellFormed, NEW r \in Requests
  PROVE  Len(choices(r)) \in Nat /\ Len(choices(r)) > 0
<1>1. PICK n \in Nat : n = Len(Scopes[r]) /\ n > 0
  BY DEF WellFormed
<1>2. 2 * n \in Nat /\ 2 * n > 0
  BY <1>1
<1>3. Len(choices(r)) = 2 * n
  BY <1>1, <1>2 DEF choices
<1>4. QED
  BY <1>2, <1>3

(* A concatenation is as long as its parts.                                *)
LEMMA Concatenation ==
  ASSUME NEW S, NEW s \in Seq(S), NEW u \in Seq(S)
  PROVE  s \o u \in Seq(S) /\ Len(s \o u) = Len(s) + Len(u)
  OBVIOUS

(* What is left of a queue that holds a request once.                      *)
LEMMA RetainedQueue ==
  ASSUME NEW q \in Seq(Requests), NEW r,
         \A i, j \in 1..Len(q) : q[i] = q[j] => i = j
  PROVE  /\ Retained(q, r) \in Seq(Requests)
         /\ \A i, j \in 1..Len(Retained(q, r)) : Retained(q, r)[i] = Retained(q, r)[j] => i = j
         /\ \A i \in 1..Len(Retained(q, r)) : \E j \in 1..Len(q) : Retained(q, r)[i] = q[j]
<1>1. CASE r \notin ToSet(q)
  BY <1>1 DEF Retained
<1>2. CASE r \in ToSet(q)
  <2>1. PICK k \in 1..Len(q) : Retained(q, r) = RemoveAt(q, k)
    <3>1. \E k \in 1..Len(q) : q[k] = r
      BY <1>2 DEF ToSet
    <3>2. QED
      BY <1>2, <3>1 DEF Retained
  <2>2. PICK n \in Nat : n = Len(q)
    OBVIOUS
  <2> DEFINE rest == RemoveAt(q, k)
  <2>3. /\ rest \in Seq(Requests) /\ Len(rest) = n - 1
        /\ \A i \in 1..(n - 1) : rest[i] = IF i < k THEN q[i] ELSE q[i + 1]
    <3> DEFINE front == SubSeq(q, 1, k - 1)
               back == SubSeq(q, k + 1, n)
    <3>1. front \in Seq(Requests) /\ Len(front) = k - 1 /\ \A i \in 1..(k - 1) : front[i] = q[i]
      BY <2>2
    <3>2. back \in Seq(Requests) /\ Len(back) = n - k /\ \A i \in 1..(n - k) : back[i] = q[k + i]
      BY <2>2
    <3>3. rest = front \o back
      BY <2>2 DEF RemoveAt
    <3> HIDE DEF front, back, rest
    <3>4. rest \in Seq(Requests) /\ Len(rest) = n - 1
      <4>1. rest \in Seq(Requests) /\ Len(rest) = Len(front) + Len(back)
        <5>1. front \in Seq(Requests) /\ back \in Seq(Requests)
          BY <3>1, <3>2
        <5>2. QED
          BY <3>3, <5>1, Concatenation
      <4>2. (k - 1) + (n - k) = n - 1
        BY <2>2
      <4>3. QED
        BY <3>1, <3>2, <4>1, <4>2
    <3>5. ASSUME NEW i \in 1..(n - 1) PROVE rest[i] = IF i < k THEN q[i] ELSE q[i + 1]
      <4>1. rest[i] = IF i <= k - 1 THEN front[i] ELSE back[i - (k - 1)]
        BY <2>2, <3>1, <3>2, <3>3, <3>5
      <4>2. CASE i < k
        BY <3>1, <4>1, <4>2
      <4>3. CASE i >= k
        <5>1. i - (k - 1) \in 1..(n - k) /\ k + (i - (k - 1)) = i + 1 /\ ~(i <= k - 1)
          BY <2>2, <3>5, <4>3
        <5>2. QED
          BY <3>2, <4>1, <5>1
      <4>4. QED
        BY <4>2, <4>3
    <3>6. QED
      BY <3>4, <3>5
  <2> HIDE DEF rest
  <2>4. ASSUME NEW i \in 1..(n - 1), NEW j \in 1..(n - 1), rest[i] = rest[j] PROVE i = j
    <3> DEFINE place(x) == IF x < k THEN x ELSE x + 1
    <3>1. place(i) \in 1..n /\ place(j) \in 1..n
      BY <2>2
    <3>2. q[place(i)] = q[place(j)]
      BY <2>3, <2>4
    <3>3. place(i) = place(j)
      BY <2>2, <3>1, <3>2
    <3>4. QED
      BY <3>3
  <2>5. ASSUME NEW i \in 1..(n - 1) PROVE \E j \in 1..n : rest[i] = q[j]
    BY <2>3
  <2>6. QED
    BY <2>1, <2>2, <2>3, <2>4, <2>5 DEF rest
<1>3. QED
  BY <1>1, <1>2

(* The first request that waits takes the place of the one that is done.   *)
LEMMA FinishKeeps ==
  ASSUME WellFormed, NEW p, p.queue \in Seq(Requests),
         \A i, j \in 1..Len(p.queue) : p.queue[i] = p.queue[j] => i = j
  PROVE  Sound(finish_active_request(p))
<1> DEFINE f == finish_active_request(p)
<1>1. /\ f = [active |-> f.active, queue |-> f.queue, prefix_selection |-> f.prefix_selection,
              selected_idx |-> f.selected_idx]
      /\ f.prefix_selection = None /\ f.selected_idx = 0
  BY DEF finish_active_request
<1>2. CASE p.queue = <<>>
  <2>1. f.active = None /\ f.queue = <<>>
    BY <1>2 DEF finish_active_request
  <2>2. QED
    BY <1>1, <2>1 DEF Sound
<1>3. CASE p.queue # <<>>
  <2>1. f.active = Head(p.queue) /\ f.queue = Tail(p.queue)
    BY <1>3 DEF finish_active_request
  <2>2. PICK n \in Nat : n = Len(p.queue) /\ n > 0
    BY <1>3
  <2>3. /\ f.active \in Requests /\ f.active = p.queue[1] /\ f.queue \in Seq(Requests)
        /\ Len(f.queue) = n - 1 /\ \A i \in 1..(n - 1) : f.queue[i] = p.queue[i + 1]
    BY <1>3, <2>1, <2>2
  <2>4. f.active # None
    BY <2>3 DEF WellFormed
  <2>5. /\ \A i, j \in 1..Len(f.queue) : f.queue[i] = f.queue[j] => i = j
        /\ \A i \in 1..Len(f.queue) : f.queue[i] # f.active
    BY <2>2, <2>3
  <2>6. 0 < Lines(f)
    BY <1>1, <2>3, ChoicesLength DEF Lines
  <2>7. QED
    BY <1>1, <2>3, <2>4, <2>5, <2>6 DEF Sound
<1>4. QED
  BY <1>2, <1>3

(* A request that is announced, once more or anew.                         *)
LEMMA RequestKeeps ==
  ASSUME WellFormed, NEW p, Sound(p), NEW r \in Requests
  PROVE  /\ Sound(handle_request_event(p, r))
         /\ has_pending(handle_request_event(p, r))
<1> DEFINE h == handle_request_event(p, r)
<1>1. r # None
  BY DEF WellFormed
<1>2. CASE contains_request(p, r)
  <2>1. h = p
    BY <1>2 DEF handle_request_event
  <2>2. p.active # None
    <3>1. CASE p.active = r
      BY <1>1, <3>1
    <3>2. CASE r \in ToSet(p.queue)
      <4>1. p.queue # <<>>
        BY <3>2 DEF ToSet
      <4>2. QED
        BY <4>1 DEF Sound
    <3>3. QED
      BY <1>2, <3>1, <3>2 DEF contains_request
  <2>3. QED
    BY <2>1, <2>2 DEF has_pending
<1>3. CASE ~contains_request(p, r) /\ p.active = None
  <2>1. h = [p EXCEPT !.active = r, !.selected_idx = 0]
    BY <1>3 DEF handle_request_event
  <2>2. p.queue = <<>> /\ p.prefix_selection = None
    BY <1>3 DEF Sound
  <2>3. h = [active |-> r, queue |-> <<>>, prefix_selection |-> None, selected_idx |-> 0]
    BY <2>1, <2>2 DEF Sound
  <2>4. 0 < Lines(h)
    BY <2>3, ChoicesLength DEF Lines
  <2>5. QED
    BY <1>1, <2>3, <2>4 DEF Sound, has_pending
<1>4. CASE ~contains_request(p, r) /\ p.active # None
  <2>1. h = [p EXCEPT !.queue = Append(@, r)]
    BY <1>4 DEF handle_request_event
  <2>2. h = [active |-> p.active, queue |-> Append(p.queue, r),
             prefix_selection |-> p.prefix_selection, selected_idx |-> p.selected_idx]
    BY <2>1 DEF Sound
  <2>3. PICK n \in Nat : n = Len(p.queue)
    BY DEF Sound
  <2>4. /\ h.queue \in Seq(Requests) /\ Len(h.queue) = n + 1 /\ h.queue[n + 1] = r
        /\ \A i \in 1..n : h.queue[i] = p.queue[i]
    BY <2>2, <2>3 DEF Sound
  <2>5. /\ r # p.active /\ \A i \in 1..n : p.queue[i] # r
    BY <1>4, <2>3 DEF contains_request, ToSet, Sound
  <2>6. /\ \A i, j \in 1..Len(h.queue) : h.queue[i] = h.queue[j] => i = j
        /\ \A i \in 1..Len(h.queue) : h.queue[i] # h.active
    <3>1. \A i, j \in 1..n : p.queue[i] = p.queue[j] => i = j
      BY <2>3 DEF Sound
    <3>2. \A i \in 1..n : p.queue[i] # p.active
      BY <2>3 DEF Sound
    <3>3. h.active = p.active
      BY <2>2
    <3>4. ASSUME NEW i \in 1..(n + 1), NEW j \in 1..(n + 1), h.queue[i] = h.queue[j] PROVE i = j
      <4>1. CASE i \in 1..n /\ j \in 1..n
        BY <2>4, <3>1, <3>4, <4>1
      <4>2. CASE i = n + 1 /\ j \in 1..n
        BY <2>4, <2>5, <3>4, <4>2
      <4>3. CASE i \in 1..n /\ j = n + 1
        BY <2>4, <2>5, <3>4, <4>3
      <4>4. QED
        BY <4>1, <4>2, <4>3
    <3>5. ASSUME NEW i \in 1..(n + 1) PROVE h.queue[i] # h.active
      <4>1. CASE i \in 1..n
        BY <2>4, <3>2, <3>3, <4>1
      <4>2. CASE i = n + 1
        BY <2>4, <2>5, <3>3, <4>2
      <4>3. QED
        BY <4>1, <4>2
    <3>6. QED
      BY <2>4, <3>4, <3>5
  <2>7. Lines(h) = Lines(p) /\ h.selected_idx = p.selected_idx
    BY <2>2 DEF Lines
  <2>8. QED
    BY <1>4, <2>2, <2>4, <2>6, <2>7 DEF Sound, has_pending
<1>5. QED
  BY <1>2, <1>3, <1>4

(* A request that was resolved elsewhere leaves the prompt.                *)
LEMMA ResolvedKeeps ==
  ASSUME WellFormed, NEW p, Sound(p), NEW r
  PROVE  Sound(handle_resolved_event(p, r))
<1> DEFINE left == [p EXCEPT !.queue = Retained(@, r)]
<1>1. left = [active |-> p.active, queue |-> Retained(p.queue, r),
              prefix_selection |-> p.prefix_selection, selected_idx |-> p.selected_idx]
  BY DEF Sound
<1>2. /\ left.queue \in Seq(Requests)
      /\ \A i, j \in 1..Len(left.queue) : left.queue[i] = left.queue[j] => i = j
      /\ \A i \in 1..Len(left.queue) : \E j \in 1..Len(p.queue) : left.queue[i] = p.queue[j]
  BY <1>1, RetainedQueue DEF Sound
<1>3. CASE p.active = r
  <2>1. handle_resolved_event(p, r) = finish_active_request(left)
    BY <1>3 DEF handle_resolved_event
  <2>2. QED
    BY <1>2, <2>1, FinishKeeps
<1>4. CASE p.active # r
  <2>1. handle_resolved_event(p, r) = left
    BY <1>4 DEF handle_resolved_event
  <2>2. left.queue # <<>> => p.queue # <<>>
    BY <1>2 DEF Sound
  <2>3. Lines(left) = Lines(p)
    BY <1>1 DEF Lines
  <2>4. \A i \in 1..Len(left.queue) : left.queue[i] # left.active
    BY <1>1, <1>2 DEF Sound
  <2>5. QED
    BY <1>1, <1>2, <2>1, <2>2, <2>3, <2>4 DEF Sound
<1>5. QED
  BY <1>3, <1>4

(* A prompt that is shown has so many lines.                               *)
LEMMA LinesCount ==
  ASSUME WellFormed, NEW p, Sound(p), p.active # None
  PROVE  Lines(p) \in Nat /\ Lines(p) > 0
<1>1. p.active \in Requests /\ p.selected_idx \in Nat /\ p.selected_idx < Lines(p)
  BY DEF Sound
<1>2. Lines(p) \in Nat
  <2>1. CASE p.prefix_selection # None
    <3>1. p.prefix_selection.request = p.active
      BY <2>1 DEF Sound
    <3>2. Candidates[p.active] \in Seq(ToSet(Candidates[p.active]))
      BY <1>1 DEF WellFormed
    <3>3. Len(Candidates[p.active]) \in Nat
      BY <3>2
    <3>4. QED
      BY <2>1, <3>1, <3>3 DEF Lines
  <2>2. CASE p.prefix_selection = None
    BY <1>1, <2>2, ChoicesLength DEF Lines
  <2>3. QED
    BY <2>1, <2>2
<1>3. QED
  BY <1>1, <1>2

(* The arrows move the cursor among the lines.                             *)
LEMMA NavigationKeeps ==
  ASSUME WellFormed, NEW p, Sound(p), p.active # None, NEW key
  PROVE  /\ Sound(apply_navigation_input(p, key))
         /\ apply_navigation_input(p, key).active = p.active
<1>1. PICK n \in Nat : n = Lines(p) /\ n > 0
  BY LinesCount
<1>2. PICK i \in Nat : i = p.selected_idx
  BY DEF Sound
<1>3. PICK m \in 0..(n - 1) : apply_navigation_input(p, key) = [p EXCEPT !.selected_idx = m]
  <2>1. (i + n - 1) % n \in 0..(n - 1) /\ (i + 1) % n \in 0..(n - 1)
    BY <1>1
  <2>2. CASE key = "up"
    BY <1>1, <1>2, <2>1, <2>2 DEF apply_navigation_input, Sound
  <2>3. CASE key # "up"
    BY <1>1, <1>2, <2>1, <2>3 DEF apply_navigation_input, Sound
  <2>4. QED
    BY <2>2, <2>3
<1> DEFINE h == [p EXCEPT !.selected_idx = m]
<1>4. h = [active |-> p.active, queue |-> p.queue, prefix_selection |-> p.prefix_selection,
           selected_idx |-> m]
  BY DEF Sound
<1>5. Lines(h) = n
  BY <1>1, <1>4 DEF Lines
<1>6. m \in Nat /\ m < n
  BY <1>1
<1>7. Sound(h)
  BY <1>4, <1>5, <1>6 DEF Sound
<1>8. QED
  BY <1>3, <1>4, <1>7

(* The second dialog belongs to the request that is shown, which has        *)
(* prefixes to choose from.                                                *)
LEMMA SelectionKeeps ==
  ASSUME WellFormed, NEW p, Sound(p), p.active # None, NEW choice,
         requires_prefix_selection(p.active, choice)
  PROVE  Sound([p EXCEPT !.prefix_selection = [request |-> p.active, choice |-> choice],
                         !.selected_idx = 0])
<1> DEFINE selection == [request |-> p.active, choice |-> choice]
           h == [p EXCEPT !.prefix_selection = selection, !.selected_idx = 0]
<1>1. h = [active |-> p.active, queue |-> p.queue, prefix_selection |-> selection,
           selected_idx |-> 0]
  <2>1. p = [active |-> p.active, queue |-> p.queue, prefix_selection |-> p.prefix_selection,
             selected_idx |-> p.selected_idx]
    BY DEF Sound
  <2>2. \A s : [p EXCEPT !.prefix_selection = s]
               = [active |-> p.active, queue |-> p.queue, prefix_selection |-> s,
                  selected_idx |-> p.selected_idx]
    BY <2>1
  <2>3. PICK g : g = [p EXCEPT !.prefix_selection = selection]
    OBVIOUS
  <2>4. g = [active |-> p.active, queue |-> p.queue, prefix_selection |-> selection,
             selected_idx |-> p.selected_idx]
    BY <2>2, <2>3, Zenon
  <2> HIDE DEF selection
  <2>5. [g EXCEPT !.selected_idx = 0]
        = [active |-> p.active, queue |-> p.queue, prefix_selection |-> selection,
           selected_idx |-> 0]
    BY <2>4
  <2>6. h = [g EXCEPT !.selected_idx = 0]
    BY <2>3
  <2>7. QED
    BY <2>5, <2>6
<1>2. p.active \in Requests
  BY DEF Sound
<1>3. Len(Candidates[p.active]) > 0
  <2>1. Candidates[p.active] \in Seq(ToSet(Candidates[p.active]))
    BY <1>2 DEF WellFormed
  <2>2. QED
    BY <2>1 DEF requires_prefix_selection
<1>4. 0 < Lines(h)
  <2>1. CASE selection # None
    BY <1>1, <1>3, <2>1 DEF Lines
  <2>2. CASE selection = None
    BY <1>1, <1>2, <2>2, ChoicesLength DEF Lines
  <2>3. QED
    BY <2>1, <2>2
<1>5. QED
  BY <1>1, <1>4 DEF Sound

(* What is shown once the prompt has changed.                              *)
LEMMA ShownKeeps ==
  ASSUME Kept, NEW p, ShowPrompt(p)
  PROVE  Kept'
<1>1. CASE has_pending(prompt) /\ ~has_pending(p)
  BY <1>1 DEF ShowPrompt, Kept
<1>2. CASE has_pending(p)
  BY <1>2 DEF ShowPrompt, Kept
<1>3. CASE ~has_pending(prompt) /\ ~has_pending(p)
  BY <1>3 DEF ShowPrompt, Kept
<1>4. QED
  BY <1>1, <1>2, <1>3

-----------------------------------------------------------------------------
(* Messages                                                                *)

(* An event that carries output is a message.                              *)
LEMMA OutputType ==
  ASSUME NEW chunks \in Seq(Nat)
  PROVE  Output(chunks) \in Messages
  BY DEF Output, Event, Messages

(* The snapshot that is sent is a message.                                 *)
LEMMA SnapshotType ==
  ASSUME Typed
  PROVE  get_output_snapshot \in Messages
<1>1. PICK a \in Nat, b \in Nat : a = latest /\ b = first /\ b >= 1 /\ b <= a + 1
  BY DEF Typed
<1> DEFINE chunks == [i \in 1..(a + 1 - b) |-> b + i - 1]
<1>2. a + 1 - b \in Nat /\ \A i \in 1..(a + 1 - b) : b + i - 1 \in Nat
  BY <1>1
<1>3. chunks \in Seq(Nat)
  BY <1>2
<1>4. get_output_snapshot = Output(chunks)
  BY <1>1 DEF get_output_snapshot
<1>5. QED
  BY <1>3, <1>4, OutputType

(* The socket's copy of the events and the way to the program hold messages *)
(* only.                                                                   *)
LEMMA SendType ==
  ASSUME WellFormed, receiver \in Seq(Messages), NEW e \in Messages, Send(e)
  PROVE  receiver' \in Seq(Messages)
<1>1. CASE receiver' = receiver
  BY <1>1
<1>2. CASE receiver' = Append(receiver, e)
  BY <1>2
<1>3. CASE receiver' = Append(Tail(receiver), e) /\ ~(Len(receiver) < Capacity)
  <2>1. receiver # <<>>
    BY <1>3 DEF WellFormed
  <2>2. QED
    BY <1>3, <2>1
<1>4. QED
  BY <1>1, <1>2, <1>3 DEF Send

(* An event about an approval is a message.                                *)
LEMMA ApprovalType ==
  ASSUME NEW r \in Requests, NEW kind \in {"request", "resolved"}
  PROVE  Event(kind, TRUE, <<r>>) \in Messages
  BY DEF Event, Messages

(* Sending the snapshot puts messages on the way.                          *)
LEMMA SendSnapshotType ==
  ASSUME Typed, SendSnapshot
  PROVE  inbox' \in Seq(Messages)
<1>1. CASE inbox' = inbox
  BY <1>1 DEF Typed
<1>2. CASE inbox' = Append(inbox, get_output_snapshot)
  BY <1>2, SnapshotType DEF Typed
<1>3. QED
  BY <1>1, <1>2 DEF SendSnapshot

-----------------------------------------------------------------------------
(* Steps                                                                   *)

(* It holds at the start.                                                  *)
LEMMA InitHolds == ASSUME WellFormed, Init PROVE IInv
<1>1. Typed
  BY DEF Init, Typed
<1>2. prompt = [active |-> None, queue |-> <<>>, prefix_selection |-> None, selected_idx |-> 0]
  BY DEF Init, NoPrompt
<1>3. Sound(prompt)
  BY <1>2 DEF Sound
<1>4. Kept /\ PrefixIsPicked
  BY DEF Init, Kept, PrefixIsPicked
<1>5. QED
  BY <1>1, <1>3, <1>4 DEF IInv

(* What the server and its socket do is only heard of.                     *)
LEMMA ProgramFrame ==
  ASSUME IInv, UNCHANGED programVars, Typed'
  PROVE  IInv'
<1>1. prompt' = prompt /\ held' = held /\ submitted' = submitted
  BY DEF programVars
<1>2. Sound(prompt)'
  BY <1>1 DEF IInv
<1>3. Kept' /\ PrefixIsPicked'
  BY <1>1 DEF IInv, Kept, PrefixIsPicked, has_pending
<1>4. QED
  BY <1>2, <1>3 DEF IInv

(* The server: output, other terminals, the end, requests and answers.     *)
LEMMA ServerStep ==
  ASSUME WellFormed, IInv,
         \/ append \/ flush_terminal_output \/ stream_terminal_output
         \/ \E kind \in {"output", "ready", "closed"} : Stranger(kind)
         \/ \E r \in Requests : publish_approval_request(r) \/ ResolvedElsewhere(r)
  PROVE  IInv'
<1>1. Typed
  BY DEF IInv
<1>2. CASE append
  <2>1. PICK a \in Nat, b \in Nat : a = latest /\ b = first /\ b >= 1 /\ b <= a + 1
    BY <1>1 DEF Typed
  <2>2. /\ latest' = a + 1 /\ unsent' = a + 1 /\ (first' = b \/ (first' = b + 1))
        /\ receiver' = receiver /\ inbox' = inbox /\ program' = program /\ submitted' = submitted
    BY <1>2, <2>1 DEF append, programVars
  <2>3. Typed'
    BY <1>1, <2>1, <2>2 DEF Typed
  <2>4. QED
    BY <1>2, <2>3, ProgramFrame DEF append
<1>3. ASSUME NEW e \in Messages, Send(e), UNCHANGED <<latest, first, inbox, programVars>>,
             unsent' \in {unsent, None}
      PROVE  IInv'
  <2>1. receiver' \in Seq(Messages)
    BY <1>1, <1>3, SendType DEF Typed
  <2>2. Typed'
    BY <1>1, <1>3, <2>1 DEF Typed, programVars
  <2>3. QED
    BY <1>3, <2>2, ProgramFrame
<1>4. CASE flush_terminal_output
  <2>1. unsent \in Nat
    BY <1>1, <1>4 DEF flush_terminal_output, Typed
  <2>2. <<unsent>> \in Seq(Nat)
    BY <2>1
  <2>3. QED
    BY <1>3, <1>4, <2>2, OutputType DEF flush_terminal_output
<1>5. CASE stream_terminal_output
  <2>1. Event("closed", TRUE, <<>>) \in Messages
    BY DEF Event, Messages
  <2>2. QED
    BY <1>3, <1>5, <2>1 DEF stream_terminal_output
<1>6. CASE \E kind \in {"output", "ready", "closed"} : Stranger(kind)
  <2>1. PICK kind \in {"output", "ready", "closed"} : Stranger(kind)
    BY <1>6
  <2>2. Event(kind, FALSE, <<>>) \in Messages
    BY DEF Event, Messages
  <2>3. QED
    BY <1>3, <2>1, <2>2 DEF Stranger, serverVars
<1>7. CASE \E r \in Requests : publish_approval_request(r) \/ ResolvedElsewhere(r)
  <2>1. PICK r \in Requests : publish_approval_request(r) \/ ResolvedElsewhere(r)
    BY <1>7
  <2>2. CASE publish_approval_request(r)
    BY <1>3, <2>2, ApprovalType DEF publish_approval_request, serverVars
  <2>3. CASE ResolvedElsewhere(r)
    BY <1>3, <2>3, ApprovalType DEF ResolvedElsewhere, serverVars
  <2>4. QED
    BY <2>1, <2>2, <2>3
<1>8. QED
  BY <1>2, <1>4, <1>5, <1>6, <1>7

(* The socket passes on what it has.                                       *)
LEMMA SocketStep ==
  ASSUME WellFormed, IInv, handle_attach \/ attach_snapshot \/ forward \/ forward_lagged
  PROVE  IInv'
<1>1. Typed
  BY DEF IInv
<1>2. ASSUME receiver' \in Seq(Messages), inbox' \in Seq(Messages),
             UNCHANGED <<latest, first, unsent, programVars>>
      PROVE  IInv'
  <2>1. Typed'
    BY <1>1, <1>2 DEF Typed, programVars
  <2>2. QED
    BY <1>2, <2>1, ProgramFrame
<1>3. CASE handle_attach
  <2>1. Event("ready", TRUE, <<>>) \in Messages /\ Event("error", TRUE, <<>>) \in Messages
    BY DEF Event, Messages
  <2>2. inbox' \in Seq(Messages)
    <3>1. PICK e \in Messages : inbox' = Append(inbox, e)
      BY <1>3, <2>1 DEF handle_attach, Reply
    <3>2. QED
      BY <1>1, <3>1 DEF Typed
  <2>3. receiver' = receiver /\ UNCHANGED <<latest, first, unsent, programVars>>
    BY <1>3 DEF handle_attach, serverVars
  <2>4. QED
    BY <1>1, <1>2, <2>2, <2>3 DEF Typed
<1>4. CASE attach_snapshot
  <2>1. inbox' \in Seq(Messages)
    BY <1>1, <1>4, SendSnapshotType DEF attach_snapshot
  <2>2. receiver' = receiver /\ UNCHANGED <<latest, first, unsent, programVars>>
    BY <1>4 DEF attach_snapshot, serverVars
  <2>3. QED
    BY <1>1, <1>2, <2>1, <2>2 DEF Typed
<1>5. CASE forward
  <2>1. receiver \in Seq(Messages) /\ inbox \in Seq(Messages) /\ receiver # <<>>
    BY <1>1, <1>5 DEF forward, Typed
  <2>2. Tail(receiver) \in Seq(Messages) /\ Append(inbox, Head(receiver)) \in Seq(Messages)
    BY <2>1
  <2>3. receiver' \in Seq(Messages) /\ inbox' \in Seq(Messages)
    BY <1>5, <2>1, <2>2 DEF forward
  <2>4. QED
    BY <1>2, <1>5, <2>3 DEF forward, serverVars
<1>6. CASE forward_lagged
  <2>1. inbox' \in Seq(Messages)
    <3>1. CASE SendSnapshot
      BY <1>1, <3>1, SendSnapshotType
    <3>2. CASE inbox' = inbox
      BY <1>1, <3>2 DEF Typed
    <3>3. QED
      BY <1>6, <3>1, <3>2 DEF forward_lagged
  <2>2. receiver' = receiver /\ UNCHANGED <<latest, first, unsent, programVars>>
    BY <1>6 DEF forward_lagged, serverVars
  <2>3. QED
    BY <1>1, <1>2, <2>1, <2>2 DEF Typed
<1>7. QED
  BY <1>3, <1>4, <1>5, <1>6

(* The program takes a message.                                            *)
LEMMA TakeStep ==
  ASSUME WellFormed, IInv,
         attach_session \/ ReceiveOutput \/ message_marks_terminal_ready \/ ReceiveApproval
  PROVE  IInv'
<1>1. Typed /\ Sound(prompt) /\ Kept /\ PrefixIsPicked
  BY DEF IInv
<1>2. ASSUME UNCHANGED <<serverVars, receiver, submitted>>, program' # "submitting",
             inbox' = inbox \/ (inbox # <<>> /\ inbox' = Tail(inbox))
      PROVE  Typed' /\ PrefixIsPicked'
  <2>1. inbox \in Seq(Messages) /\ (inbox # <<>> => Tail(inbox) \in Seq(Messages))
    BY <1>1 DEF Typed
  <2>2. inbox' \in Seq(Messages)
    BY <1>2, <2>1
  <2>3. QED
    BY <1>1, <1>2, <2>2 DEF Typed, PrefixIsPicked, serverVars
<1>3. CASE attach_session
  <2>1. Typed' /\ PrefixIsPicked'
    BY <1>2, <1>3 DEF attach_session
  <2>2. prompt' = prompt /\ held' = held
    BY <1>3 DEF attach_session
  <2>3. QED
    BY <1>1, <2>1, <2>2 DEF IInv, Kept, has_pending
<1>4. CASE ReceiveOutput
  <2>1. Typed' /\ PrefixIsPicked'
    BY <1>2, <1>4 DEF ReceiveOutput, Take, UnchangedByTaking
  <2>2. prompt' = prompt /\ (has_pending(prompt) \/ held' = held)
    BY <1>4 DEF ReceiveOutput
  <2>3. QED
    BY <1>1, <2>1, <2>2 DEF IInv, Kept, has_pending
<1>5. CASE message_marks_terminal_ready
  <2>1. Typed' /\ PrefixIsPicked'
    BY <1>2, <1>5 DEF message_marks_terminal_ready, Take, UnchangedByTaking
  <2>2. prompt' = prompt /\ held' = held
    BY <1>5 DEF message_marks_terminal_ready
  <2>3. QED
    BY <1>1, <2>1, <2>2 DEF IInv, Kept, has_pending
<1>6. CASE ReceiveApproval
  <2>1. Typed' /\ PrefixIsPicked'
    BY <1>2, <1>6 DEF ReceiveApproval, Take, UnchangedByTaking
  <2>2. Head(inbox) \in Messages /\ Head(inbox).kind \in {"request", "resolved"}
    BY <1>1, <1>6 DEF ReceiveApproval, Take, Typed
  <2>3. Head(inbox).what[1] \in Requests
    <3>1. PICK e \in Messages : e = Head(inbox) /\ e.kind \in {"request", "resolved"}
      BY <2>2
    <3>2. e \in [kind : {"request", "resolved"}, own : {TRUE}, what : {<<r>> : r \in Requests}]
      BY <3>1 DEF Messages
    <3>3. PICK r \in Requests : e.what = <<r>>
      BY <3>2
    <3>4. QED
      BY <3>1, <3>3
  <2>4. PICK p : /\ Sound(p) /\ ShowPrompt(p)
    <3>1. CASE Head(inbox).kind = "request"
      BY <1>1, <1>6, <2>3, <3>1, RequestKeeps DEF ReceiveApproval
    <3>2. CASE Head(inbox).kind # "request"
      BY <1>1, <1>6, <2>3, <3>2, ResolvedKeeps DEF ReceiveApproval
    <3>3. QED
      BY <3>1, <3>2
  <2>5. prompt' = p
    BY <2>4 DEF ShowPrompt
  <2>6. Sound(prompt)' /\ Kept'
    BY <1>1, <2>4, <2>5, ShownKeeps
  <2>7. QED
    BY <2>1, <2>6 DEF IInv
<1>7. QED
  BY <1>3, <1>4, <1>5, <1>6

(* The program ends, or the user types.                                    *)
LEMMA EndStep ==
  ASSUME WellFormed, IInv, SessionClosed \/ UserDetached
  PROVE  IInv'
<1>1. /\ program' = "ended" /\ receiver' = <<>> /\ inbox' = <<>>
      /\ UNCHANGED <<latest, first, unsent, prompt, submitted, held>>
  BY DEF SessionClosed, UserDetached, Leave
<1>2. Typed'
  BY <1>1 DEF IInv, Typed
<1>3. Sound(prompt)'
  BY <1>1 DEF IInv
<1>4. Kept' /\ PrefixIsPicked'
  BY <1>1 DEF IInv, Kept, PrefixIsPicked, has_pending
<1>5. QED
  BY <1>2, <1>3, <1>4 DEF IInv

(* A key that is pressed keeps it.                                         *)
LEMMA KeyStep ==
  ASSUME WellFormed, IInv, NEW key,
         \/ Navigate(key) \/ open_prefix_selection(key) \/ SubmitChoice(key)
         \/ handle_prefix_selection_input(key)
  PROVE  IInv'
<1>1. Typed /\ Sound(prompt) /\ Kept /\ PrefixIsPicked
  BY DEF IInv
<1>2. prompt.active # None
  BY DEF Navigate, open_prefix_selection, SubmitChoice, handle_prefix_selection_input, has_pending
<1>3. prompt.active \in Requests
  BY <1>1, <1>2 DEF Sound
<1>4. held' = held /\ UNCHANGED <<serverVars, receiver, inbox>>
  BY DEF Navigate, open_prefix_selection, SubmitChoice, handle_prefix_selection_input, Submit,
         UnchangedByKey
<1>5. ASSUME Sound(prompt)', prompt'.active = prompt.active, UNCHANGED <<program, submitted>>
      PROVE  IInv'
  <2>1. Typed'
    BY <1>1, <1>4, <1>5 DEF Typed, serverVars
  <2>2. Kept' /\ PrefixIsPicked'
    BY <1>1, <1>2, <1>4, <1>5 DEF Kept, PrefixIsPicked, has_pending
  <2>3. QED
    BY <1>5, <2>1, <2>2 DEF IInv
<1>6. CASE Navigate(key)
  <2>1. PICK p : p = apply_navigation_input(prompt, key)
    OBVIOUS
  <2>2. Sound(p) /\ p.active = prompt.active
    BY <1>1, <1>2, <2>1, NavigationKeeps
  <2>3. prompt' = p /\ UNCHANGED <<program, submitted>>
    BY <1>6, <2>1 DEF Navigate
  <2>4. Sound(prompt)' /\ prompt'.active = prompt.active
    BY <2>2, <2>3
  <2>5. QED
    BY <1>5, <2>3, <2>4
<1>7. CASE open_prefix_selection(key)
  <2>1. PICK choice : /\ requires_prefix_selection(prompt.active, choice)
                      /\ prompt' = [prompt EXCEPT !.prefix_selection
                                      = [request |-> prompt.active, choice |-> choice],
                                                  !.selected_idx = 0]
    BY <1>7 DEF open_prefix_selection
  <2>2. PICK p : p = [prompt EXCEPT !.prefix_selection
                        = [request |-> prompt.active, choice |-> choice], !.selected_idx = 0]
    OBVIOUS
  <2>3. Sound(p)
    BY <1>1, <1>2, <2>1, <2>2, SelectionKeeps
  <2>4. p.active = prompt.active
    BY <1>1, <2>2 DEF Sound
  <2>5. Sound(prompt)' /\ prompt'.active = prompt.active
    BY <2>1, <2>2, <2>3, <2>4
  <2>6. QED
    BY <1>5, <1>7, <2>5 DEF open_prefix_selection
<1>8. ASSUME NEW r \in Requests, NEW choice, NEW prefix, prompt' = prompt,
             submitted' = ResolveApprovalPayload(r, choice, prefix),
             prefix # None \/ prefix_for_scope(r, choice.scope) = None
      PROVE  IInv'
  <2>1. /\ submitted'.request = r /\ submitted'.picked = (prefix # None)
        /\ submitted'.prefix = IF prefix # None THEN prefix ELSE prefix_for_scope(r, choice.scope)
    BY <1>8 DEF ResolveApprovalPayload
  <2>2. PrefixIsPicked'
    BY <1>8, <2>1 DEF PrefixIsPicked
  <2>3. Typed'
    BY <1>1, <1>4, <2>1 DEF Typed, serverVars
  <2>4. Sound(prompt)' /\ Kept'
    BY <1>1, <1>4, <1>8 DEF Kept, has_pending
  <2>5. QED
    BY <2>2, <2>3, <2>4 DEF IInv
<1>9. CASE SubmitChoice(key)
  <2>1. PICK choice : /\ ~requires_prefix_selection(prompt.active, choice)
                      /\ Submit(ResolveApprovalPayload(prompt.active, choice, None))
    BY <1>9 DEF SubmitChoice
  <2>2. prefix_for_scope(prompt.active, choice.scope) = None
    <3>1. CASE Candidates[prompt.active] = <<>>
      BY <3>1 DEF prefix_for_scope, At
    <3>2. CASE prompt.active \notin Shell \/ choice.scope = "once"
      BY <3>2 DEF prefix_for_scope
    <3>3. QED
      BY <2>1, <3>1, <3>2 DEF requires_prefix_selection
  <2>3. /\ prompt' = prompt
        /\ submitted' = ResolveApprovalPayload(prompt.active, choice, None)
    BY <2>1 DEF Submit
  <2>4. QED
    BY <1>3, <1>8, <2>2, <2>3
<1>10. CASE handle_prefix_selection_input(key)
  <2>1. PICK selection, prefix :
          /\ selection = prompt.prefix_selection /\ prefix = SelectedPrefix(prompt, key)
    OBVIOUS
  <2>2. /\ selection # None /\ prefix # None
        /\ Submit(ResolveApprovalPayload(selection.request, selection.choice, prefix))
    BY <1>10, <2>1 DEF handle_prefix_selection_input
  <2>3. selection.request = prompt.active
    BY <1>1, <2>1, <2>2 DEF Sound
  <2>4. /\ prompt' = prompt
        /\ submitted' = ResolveApprovalPayload(selection.request, selection.choice, prefix)
    BY <2>2 DEF Submit
  <2>5. QED
    BY <1>3, <1>8, <2>2, <2>3, <2>4
<1>11. QED
  BY <1>6, <1>7, <1>9, <1>10

(* The answer to a submission clears the prompt or leaves it.              *)
LEMMA AnswerStep ==
  ASSUME WellFormed, IInv, resolve_request
  PROVE  IInv'
<1>1. Typed /\ Sound(prompt) /\ Kept /\ submitted.request \in Requests
  BY DEF IInv, Typed, resolve_request
<1>2. receiver' \in Seq(Messages)
  <2>1. CASE Resolve(submitted.request)
    <3>1. Event("resolved", TRUE, <<submitted.request>>) \in Messages
      BY <1>1, ApprovalType
    <3>2. QED
      BY <1>1, <2>1, <3>1, SendType DEF Resolve, Typed
  <2>2. CASE receiver' = receiver
    BY <1>1, <2>2 DEF Typed
  <2>3. QED
    BY <2>1, <2>2 DEF resolve_request
<1>3. Typed' /\ PrefixIsPicked'
  BY <1>1, <1>2 DEF resolve_request, Typed, PrefixIsPicked, serverVars
<1>4. Sound(prompt)' /\ Kept'
  <2>1. CASE ShowPrompt(finish_active_request(prompt))
    <3>1. PICK p : p = finish_active_request(prompt)
      OBVIOUS
    <3>2. Sound(p)
      BY <1>1, <3>1, FinishKeeps DEF Sound
    <3>3. prompt' = p
      BY <2>1, <3>1 DEF ShowPrompt
    <3>4. Kept'
      BY <1>1, <2>1, ShownKeeps
    <3>5. QED
      BY <3>2, <3>3, <3>4
  <2>2. CASE UNCHANGED <<prompt, shown, held>>
    <3>1. prompt' = prompt /\ held' = held
      BY <2>2
    <3>2. QED
      BY <1>1, <3>1 DEF Kept, has_pending
  <2>3. QED
    BY <2>1, <2>2 DEF resolve_request
<1>5. QED
  BY <1>3, <1>4 DEF IInv

-----------------------------------------------------------------------------
(* The order of the output                                                 *)

(* A chunk is in a sequence, behind a position of it, in one of the events  *)
(* from a position on.                                                     *)
In(s, c) == \E k \in 1..Len(s) : s[k] = c
After(s, k, c) == \E l \in (k + 1)..Len(s) : s[l] = c
Among(es, i, c) == \E j \in i..Len(es) : In(ChunksOf(es[j]), c)

(* A chunk is still to come, counted from the server to the screen: in the  *)
(* socket's copy from a position on, with what the socket is sent again, in *)
(* the messages from a position on, in what is kept back or written behind  *)
(* a position.                                                             *)
Copy(i, c) == Among(receiver, i, c) \/ unsent = c
Coming(c) == (lagged /\ c \in first..latest) \/ Copy(1, c)
OnWay(i, c) == Among(inbox, i, c) \/ Coming(c)
Waiting(k, c) == After(held, k, c) \/ OnWay(1, c)
Drawn(k, c) == After(shown, k, c) \/ Waiting(0, c)

(* The chunks of an event are consecutive, and those of other terminals     *)
(* have no number.                                                         *)
Fit(e, newest) ==
  /\ \A k \in 1..Len(ChunksOf(e)) : /\ ChunksOf(e)[k] \in 1..newest
                                    /\ ChunksOf(e)[k] = ChunksOf(e)[1] + k - 1
  /\ ~e.own => ChunksOf(e) = <<>>
Fits(es, newest) == \A i \in 1..Len(es) : Fit(es[i], newest)

Numbered(s) == s \in Seq(Nat) /\ \A k \in 1..Len(s) : s[k] \in 1..latest

(* Only the newest chunk is unsent; a closed socket has no events, and      *)
(* before the program runs there is nothing it could show.                 *)
Shapes ==
  /\ unsent # None => unsent = latest /\ latest > 0
  /\ Numbered(shown) /\ Numbered(held)
  /\ Fits(inbox, latest) /\ Fits(receiver, latest)
  /\ socket = "closed" => receiver = <<>> /\ ~lagged
  /\ program = "off" => /\ inbox = <<>> /\ shown = <<>> /\ held = <<>>
                        /\ ~whole /\ socket = "closed"

(* In the copy each chunk but the newest is followed by the next one, even  *)
(* if the copy lost its oldest events.                                     *)
CopyFollows == \A i \in 1..Len(receiver), c \in 1..latest :
                 c < latest /\ In(ChunksOf(receiver[i]), c) => Copy(i, c + 1)

(* Behind the socket it is so while nothing is missing: the socket has not  *)
(* gone on after a loss, and where it fell behind all of it can be sent     *)
(* again.                                                                  *)
Intact == socket # "closed" /\ ~torn /\ (lagged => first = 1)
InboxFollows == \A i \in 1..Len(inbox), c \in 1..latest :
                  c < latest /\ In(ChunksOf(inbox[i]), c) => OnWay(i, c + 1)
HeldFollows == \A k \in 1..Len(held), c \in 1..latest : c = held[k] + 1 => Waiting(k, c)
ShownFollows == \A k \in 1..Len(shown), c \in 1..latest : c = shown[k] + 1 => Drawn(k, c)
AllThere == whole => \A c \in 1..latest : Drawn(0, c)
Follows == InboxFollows /\ HeldFollows /\ ShownFollows /\ AllThere

OInv == Shapes /\ CopyFollows /\ (Intact => Follows)

(* Behind a position of a concatenation.                                   *)
LEMMA AfterConcatenation ==
  ASSUME NEW s \in Seq(Nat), NEW u \in Seq(Nat), NEW c
  PROVE  /\ s \o u \in Seq(Nat)
         /\ \A k \in 0..Len(s) : After(s \o u, k, c) <=> After(s, k, c) \/ In(u, c)
         /\ \A k \in 0..Len(u) : After(s \o u, Len(s) + k, c) <=> After(u, k, c)
<1>1. PICK m \in Nat, n \in Nat : m = Len(s) /\ n = Len(u)
  OBVIOUS
<1>2. PICK v : v = s \o u
  OBVIOUS
<1>3. v \in Seq(Nat) /\ Len(v) = m + n
  BY <1>1, <1>2, Concatenation
<1>4. \A i \in 1..m : v[i] = s[i]
  BY <1>1, <1>2
<1>5. ASSUME NEW i \in 1..n PROVE v[m + i] = u[i]
  <2>1. m + i \in 1..(m + n) /\ ~(m + i <= m) /\ m + i - m = i
    BY <1>1
  <2>2. v[m + i] = IF m + i <= m THEN s[m + i] ELSE u[m + i - m]
    BY <1>1, <1>2, <2>1
  <2>3. QED
    BY <2>1, <2>2
<1>6. ASSUME NEW k \in 0..m PROVE After(v, k, c) <=> After(s, k, c) \/ In(u, c)
  <2>1. ASSUME NEW l \in (k + 1)..(m + n), v[l] = c PROVE After(s, k, c) \/ In(u, c)
    <3>1. CASE l <= m
      BY <1>1, <1>4, <2>1, <3>1 DEF After
    <3>2. CASE l > m
      <4>1. PICK i \in 1..n : l = m + i
        <5>1. l - m \in 1..n /\ l = m + (l - m)
          BY <1>1, <3>2
        <5>2. QED
          BY <5>1
      <4>2. u[i] = c
        BY <1>5, <2>1, <4>1
      <4>3. QED
        BY <1>1, <4>2 DEF In
    <3>3. QED
      BY <3>1, <3>2
  <2>2. ASSUME NEW l \in (k + 1)..m, s[l] = c PROVE After(v, k, c)
    <3>1. l \in (k + 1)..(m + n) /\ v[l] = c
      BY <1>1, <1>4, <2>2
    <3>2. QED
      BY <1>3, <3>1 DEF After
  <2>3. ASSUME NEW i \in 1..n, u[i] = c PROVE After(v, k, c)
    <3>1. m + i \in (k + 1)..(m + n) /\ v[m + i] = c
      BY <1>1, <1>5, <2>3
    <3>2. QED
      BY <1>3, <3>1 DEF After
  <2>4. QED
    BY <1>1, <1>3, <2>1, <2>2, <2>3 DEF After, In
<1>7. ASSUME NEW k \in 0..n PROVE After(v, m + k, c) <=> After(u, k, c)
  <2>1. ASSUME NEW l \in (m + k + 1)..(m + n), v[l] = c PROVE After(u, k, c)
    <3>1. l - m \in (k + 1)..n /\ l - m \in 1..n /\ m + (l - m) = l
      BY <1>1
    <3>2. u[l - m] = c
      BY <1>5, <2>1, <3>1
    <3>3. QED
      BY <1>1, <3>1, <3>2 DEF After
  <2>2. ASSUME NEW i \in (k + 1)..n, u[i] = c PROVE After(v, m + k, c)
    <3>1. m + i \in (m + k + 1)..(m + n) /\ i \in 1..n
      BY <1>1
    <3>2. QED
      BY <1>3, <1>5, <2>2, <3>1 DEF After
  <2>3. QED
    BY <1>1, <1>3, <2>1, <2>2 DEF After
<1>8. QED
  BY <1>1, <1>2, <1>3, <1>6, <1>7

(* One more event, and one less.                                           *)
LEMMA AmongAppended ==
  ASSUME NEW es \in Seq(Messages), NEW e \in Messages, NEW c
  PROVE  \A i \in 1..(Len(es) + 1) :
           Among(Append(es, e), i, c) <=> Among(es, i, c) \/ In(ChunksOf(e), c)
<1>1. PICK n \in Nat : n = Len(es)
  OBVIOUS
<1>2. PICK v : v = Append(es, e)
  OBVIOUS
<1>3. Len(v) = n + 1 /\ v[n + 1] = e /\ \A j \in 1..n : v[j] = es[j]
  BY <1>1, <1>2
<1>4. ASSUME NEW i \in 1..(n + 1)
      PROVE  Among(v, i, c) <=> Among(es, i, c) \/ In(ChunksOf(e), c)
  <2>1. ASSUME NEW j \in i..(n + 1), In(ChunksOf(v[j]), c)
        PROVE  Among(es, i, c) \/ In(ChunksOf(e), c)
    <3>1. CASE j = n + 1
      BY <1>3, <2>1, <3>1
    <3>2. CASE j # n + 1
      <4>1. j \in i..n /\ j \in 1..n
        BY <1>1, <3>2
      <4>2. QED
        BY <1>1, <1>3, <2>1, <4>1 DEF Among
    <3>3. QED
      BY <3>1, <3>2
  <2>2. ASSUME NEW j \in i..n, In(ChunksOf(es[j]), c) PROVE Among(v, i, c)
    <3>1. j \in i..(n + 1) /\ j \in 1..n
      BY <1>1
    <3>2. QED
      BY <1>3, <2>2, <3>1 DEF Among
  <2>3. ASSUME In(ChunksOf(e), c) PROVE Among(v, i, c)
    <3>1. n + 1 \in i..(n + 1)
      BY <1>1
    <3>2. QED
      BY <1>3, <2>3, <3>1 DEF Among
  <2>4. QED
    BY <1>1, <1>3, <2>1, <2>2, <2>3 DEF Among
<1>5. QED
  BY <1>1, <1>2, <1>4

(* What the messages behind the first carry.                               *)
LEMMA AmongRest ==
  ASSUME NEW es \in Seq(Messages), es # <<>>, NEW c
  PROVE  /\ \A i \in 1..Len(es) : Among(Tail(es), i, c) <=> Among(es, i + 1, c)
         /\ Among(es, 1, c) <=> In(ChunksOf(Head(es)), c) \/ Among(Tail(es), 1, c)
<1>1. PICK n \in Nat : n + 1 = Len(es)
  <2>1. Len(es) \in Nat /\ Len(es) > 0
    OBVIOUS
  <2>2. Len(es) - 1 \in Nat /\ Len(es) - 1 + 1 = Len(es)
    BY <2>1
  <2>3. QED
    BY <2>2
<1>2. PICK v : v = Tail(es)
  OBVIOUS
<1>3. Len(v) = n /\ \A j \in 1..n : v[j] = es[j + 1]
  BY <1>1, <1>2
<1>4. ASSUME NEW i \in 1..(n + 1) PROVE Among(v, i, c) <=> Among(es, i + 1, c)
  <2>1. ASSUME NEW j \in i..n, In(ChunksOf(v[j]), c) PROVE Among(es, i + 1, c)
    <3>1. j + 1 \in (i + 1)..(n + 1) /\ j \in 1..n
      BY <1>1
    <3>2. QED
      BY <1>1, <1>3, <2>1, <3>1 DEF Among
  <2>2. ASSUME NEW j \in (i + 1)..(n + 1), In(ChunksOf(es[j]), c) PROVE Among(v, i, c)
    <3>1. j - 1 \in i..n /\ j - 1 \in 1..n /\ j - 1 + 1 = j
      BY <1>1
    <3>2. In(ChunksOf(v[j - 1]), c)
      BY <1>3, <2>2, <3>1
    <3>3. QED
      BY <1>3, <3>1, <3>2 DEF Among
  <2>3. QED
    BY <1>1, <1>3, <2>1, <2>2 DEF Among
<1>5. Among(es, 1, c) <=> In(ChunksOf(es[1]), c) \/ Among(es, 2, c)
  <2>1. \A j : j \in 1..(n + 1) <=> j = 1 \/ j \in 2..(n + 1)
    BY <1>1
  <2>2. QED
    BY <1>1, <2>1 DEF Among
<1>6. Among(v, 1, c) <=> Among(es, 2, c)
  <2>1. 1 \in 1..(n + 1) /\ 1 + 1 = 2
    BY <1>1
  <2>2. QED
    BY <1>4, <2>1
<1>7. QED
  BY <1>1, <1>2, <1>4, <1>5, <1>6

(* What comes from a position on comes from an earlier one on.             *)
LEMMA AmongSooner ==
  ASSUME NEW es \in Seq(Messages), NEW i \in Nat, NEW j \in Nat, i <= j, NEW c, Among(es, j, c)
  PROVE  Among(es, i, c)
  BY DEF Among

(* The numbers of the chunks of an event.                                  *)
LEMMA ChunksType ==
  ASSUME NEW e \in Messages
  PROVE  ChunksOf(e) \in Seq(Nat)
<1>1. CASE e.kind = "output"
  BY <1>1 DEF ChunksOf, Messages
<1>2. CASE e.kind # "output"
  BY <1>2 DEF ChunksOf
<1>3. QED
  BY <1>1, <1>2

(* Nothing is in an empty output.                                          *)
LEMMA NoneOfNothing ==
  ASSUME NEW c
  PROVE  ~In(<<>>, c) /\ \A k \in Nat : ~After(<<>>, k, c)
  BY DEF In, After

(* In an event the chunk behind a chunk is the next one.                   *)
LEMMA NextInEvent ==
  ASSUME NEW e \in Messages, NEW newest, Fit(e, newest), NEW k \in 1..Len(ChunksOf(e)), NEW c,
         c = ChunksOf(e)[k] + 1, NEW l \in 1..Len(ChunksOf(e)), ChunksOf(e)[l] = c
  PROVE  l = k + 1
<1>1. PICK s \in Seq(Nat) : s = ChunksOf(e)
  BY ChunksType
<1>2. PICK n \in Nat : n = Len(s)
  OBVIOUS
<1>3. k \in 1..n /\ l \in 1..n
  BY <1>1, <1>2
<1>4. PICK a \in Nat : a = s[1]
  BY <1>2, <1>3
<1>5. s[k] = a + k - 1 /\ s[l] = a + l - 1 /\ s[l] = s[k] + 1
  BY <1>1, <1>4 DEF Fit
<1>6. QED
  BY <1>3, <1>5

(* Messages still fit when the first is taken and when output is added.    *)
LEMMA FitsKept ==
  ASSUME NEW es \in Seq(Messages), NEW newest \in Nat, Fits(es, newest)
  PROVE  /\ es # <<>> => Fits(Tail(es), newest) /\ Fit(Head(es), newest)
         /\ Fits(es, newest + 1)
         /\ \A e \in Messages : Fit(e, newest) => Fits(Append(es, e), newest)
<1>1. ASSUME es # <<>> PROVE Fits(Tail(es), newest) /\ Fit(Head(es), newest)
  BY <1>1 DEF Fits
<1>2. Fits(es, newest + 1)
  <2>1. 1..newest \subseteq 1..(newest + 1)
    OBVIOUS
  <2>2. QED
    BY <2>1 DEF Fits, Fit
<1>3. ASSUME NEW e \in Messages, Fit(e, newest) PROVE Fits(Append(es, e), newest)
  <2>1. PICK n \in Nat : n = Len(es)
    OBVIOUS
  <2>2. PICK v : v = Append(es, e)
    OBVIOUS
  <2>3. Len(v) = n + 1 /\ v[n + 1] = e /\ \A j \in 1..n : v[j] = es[j]
    BY <2>1, <2>2
  <2>4. ASSUME NEW j \in 1..(n + 1) PROVE Fit(v[j], newest)
    <3>1. CASE j = n + 1
      BY <1>3, <2>3, <3>1
    <3>2. CASE j # n + 1
      <4>1. j \in 1..n
        BY <2>1, <3>2
      <4>2. QED
        BY <2>1, <2>3, <4>1 DEF Fits
    <3>3. QED
      BY <3>1, <3>2
  <2>5. QED
    BY <2>2, <2>3, <2>4 DEF Fits
<1>4. QED
  BY <1>1, <1>2, <1>3


(* What is seen of a snapshot of a history that is not truncated.          *)
LEMMA SnapshotHasAll ==
  ASSUME Typed, first = 1
  PROVE  /\ get_output_snapshot \in Messages /\ Fit(get_output_snapshot, latest)
         /\ \A c \in 1..latest : In(ChunksOf(get_output_snapshot), c)
<1>1. PICK a \in Nat : a = latest
  BY DEF Typed
<1>2. PICK s : s = [i \in 1..a |-> i]
  OBVIOUS
<1>3. get_output_snapshot = Event("output", TRUE, s)
  <2>1. a + 1 - first = a /\ \A i \in 1..a : first + i - 1 = i
    BY <1>1
  <2>2. [i \in 1..(a + 1 - first) |-> first + i - 1] = s
    BY <1>2, <2>1
  <2>3. QED
    BY <1>1, <2>2 DEF get_output_snapshot, Output
<1>4. /\ ChunksOf(get_output_snapshot) = s /\ get_output_snapshot.own
  BY <1>3 DEF ChunksOf, Event
<1>5. Len(s) = a /\ \A k \in 1..a : s[k] = k
  BY <1>1, <1>2
<1>6. \A k \in 1..a : s[k] = s[1] + k - 1
  <2>1. ASSUME NEW k \in 1..a PROVE s[k] = s[1] + k - 1
    <3>1. 1 \in 1..a /\ 1 + k - 1 = k
      BY <1>1
    <3>2. s[k] = k /\ s[1] = 1
      BY <1>5, <3>1
    <3>3. QED
      BY <3>1, <3>2
  <2>2. QED
    BY <2>1
<1>7. QED
  BY <1>1, <1>4, <1>5, <1>6, SnapshotType DEF Fit, In

(* If everything is on its way, nothing is missing.                        *)
LEMMA Renewed ==
  ASSUME Typed', Shapes', CopyFollows',
         \A c \in 1..latest' : OnWay(1, c)' /\ \A i \in 1..Len(inbox') : OnWay(i, c)'
  PROVE  OInv'
<1>1. PICK a \in Nat : a = latest'
  BY DEF Typed
<1>2. \A c \in 1..a : c < a => c + 1 \in 1..a
  BY <1>1
<1>3. InboxFollows'
  BY <1>1, <1>2 DEF InboxFollows
<1>4. ASSUME NEW k, NEW c \in 1..a PROVE Waiting(k, c)' /\ Drawn(k, c)'
  BY <1>1 DEF Waiting, Drawn
<1>5. HeldFollows'
  BY <1>1, <1>4 DEF HeldFollows
<1>6. ShownFollows'
  BY <1>1, <1>4 DEF ShownFollows
<1>7. AllThere'
  BY <1>1, <1>4 DEF AllThere
<1>8. QED
  BY <1>3, <1>5, <1>6, <1>7 DEF OInv, Follows

(* What was on its way to the program still is, and the newest chunk is.    *)
Onward == \A c \in 1..latest' : OnWay(1, c) \/ c > latest => OnWay(1, c)'

(* The screen, unless more is written than what was kept back.             *)
ScreenIsKept ==
  /\ whole' = whole
  /\ \/ shown' = shown /\ held' = held
     \/ shown' = shown \o held /\ held' = <<>>

(* What is shown and kept back stays output of the terminal.               *)
LEMMA ScreenNumbered ==
  ASSUME Numbered(shown), Numbered(held), latest \in Nat, latest' \in {latest, latest + 1},
         ScreenIsKept
  PROVE  Numbered(shown)' /\ Numbered(held)'
<1>1. PICK a \in Nat, b \in Nat : a = latest /\ b = latest' /\ a <= b
  OBVIOUS
<1>2. ASSUME NEW s, Numbered(s) PROVE s \in Seq(Nat) /\ \A k \in 1..Len(s) : s[k] \in 1..b
  BY <1>1, <1>2 DEF Numbered
<1>3. CASE shown' = shown /\ held' = held
  BY <1>1, <1>2, <1>3 DEF Numbered
<1>4. CASE shown' = shown \o held /\ held' = <<>>
  <2>1. PICK m, n, v : m = Len(shown) /\ n = Len(held) /\ v = shown \o held
    OBVIOUS
  <2>2. m \in Nat /\ n \in Nat /\ v \in Seq(Nat) /\ Len(v) = m + n
    BY <1>2, <2>1, Concatenation
  <2>3. ASSUME NEW k \in 1..(m + n) PROVE v[k] \in 1..b
    <3>1. CASE k <= m
      <4>1. k \in 1..m /\ v[k] = shown[k]
        BY <1>2, <2>1, <2>2, <3>1
      <4>2. QED
        BY <1>2, <2>1, <2>2, <4>1
    <3>2. CASE k > m
      <4>1. k - m \in 1..n /\ v[k] = held[k - m]
        BY <1>2, <2>1, <2>2, <3>2
      <4>2. QED
        BY <1>2, <2>1, <2>2, <4>1
    <3>3. QED
      BY <2>2, <3>1, <3>2
  <2>4. Numbered(shown)'
    BY <1>1, <1>4, <2>1, <2>2, <2>3 DEF Numbered
  <2>5. Numbered(held)'
    BY <1>4 DEF Numbered
  <2>6. QED
    BY <2>4, <2>5
<1>5. QED
  BY <1>3, <1>4 DEF ScreenIsKept

(* What is shown or kept back is still followed when what was on its way   *)
(* stays so.                                                               *)
LEMMA ScreenFollows ==
  ASSUME Numbered(shown), Numbered(held), latest \in Nat, latest' \in {latest, latest + 1},
         ScreenIsKept, Onward, HeldFollows, ShownFollows, AllThere
  PROVE  HeldFollows' /\ ShownFollows' /\ AllThere'
<1>1. PICK a \in Nat, b \in Nat : a = latest /\ b = latest' /\ a <= b
  OBVIOUS
<1>2. PICK m \in Nat, n \in Nat : m = Len(shown) /\ n = Len(held)
  BY DEF Numbered
<1>3. shown \in Seq(Nat) /\ held \in Seq(Nat)
  BY DEF Numbered
<1>4. /\ \A k \in 1..m : shown[k] \in 1..a
      /\ \A k \in 1..n : held[k] \in 1..a
  BY <1>1, <1>2 DEF Numbered
<1>5. /\ \A k \in 1..m, c \in 1..b : c = shown[k] + 1 => Drawn(k, c) \/ c > a
      /\ \A k \in 1..n, c \in 1..b : c = held[k] + 1 => Waiting(k, c) \/ c > a
      /\ whole => \A c \in 1..b : Drawn(0, c) \/ c > a
  <2>1. \A c \in 1..b : c \in 1..a \/ c > a
    BY <1>1
  <2>2. QED
    BY <1>1, <1>2, <2>1 DEF HeldFollows, ShownFollows, AllThere
<1>6. ASSUME \A k \in 1..Len(held'), c \in 1..b : c = held'[k] + 1 => Waiting(k, c)',
             \A k \in 1..Len(shown'), c \in 1..b : c = shown'[k] + 1 => Drawn(k, c)',
             whole => \A c \in 1..b : Drawn(0, c)'
      PROVE  HeldFollows' /\ ShownFollows' /\ AllThere'
  <2>1. HeldFollows'
    BY <1>1, <1>6 DEF HeldFollows
  <2>2. ShownFollows'
    BY <1>1, <1>6 DEF ShownFollows
  <2>3. AllThere'
    BY <1>1, <1>6 DEF AllThere, ScreenIsKept
  <2>4. QED
    BY <2>1, <2>2, <2>3
<1>7. ASSUME NEW c \in 1..b, OnWay(1, c) \/ c > a PROVE OnWay(1, c)'
  BY <1>1, <1>7 DEF Onward
<1>8. CASE shown' = shown /\ held' = held
  <2>1. ASSUME NEW k, NEW c \in 1..b
        PROVE  /\ Waiting(k, c) \/ c > a => Waiting(k, c)'
               /\ Drawn(k, c) \/ c > a => Drawn(k, c)'
    BY <1>7, <1>8 DEF Waiting, Drawn
  <2>2. QED
    BY <1>2, <1>5, <1>6, <1>8, <2>1
<1>9. CASE shown' = shown \o held /\ held' = <<>>
  <2>1. PICK v : v = shown \o held
    OBVIOUS
  <2>2. /\ v \in Seq(Nat) /\ Len(v) = m + n
        /\ \A k \in 1..m : v[k] = shown[k]
        /\ \A k \in (m + 1)..(m + n) : v[k] = held[k - m]
    BY <1>2, <1>3, <2>1, Concatenation
  <2>3. ASSUME NEW c
        PROVE  /\ \A k \in 0..m : After(v, k, c) <=> After(shown, k, c) \/ In(held, c)
               /\ \A k \in 0..n : After(v, m + k, c) <=> After(held, k, c)
    BY <1>2, <1>3, <2>1, AfterConcatenation
  <2>4. \A c : In(held, c) <=> After(held, 0, c)
    BY DEF In, After
  <2>5. ASSUME NEW k, NEW c \in 1..b
        PROVE  Drawn(k, c)' <=> After(v, k, c) \/ OnWay(1, c)'
    BY <1>9, <2>1, NoneOfNothing DEF Drawn, Waiting
  <2>6. ASSUME NEW k \in 0..m, NEW c \in 1..b, Drawn(k, c) \/ c > a PROVE Drawn(k, c)'
    BY <1>7, <2>3, <2>4, <2>5, <2>6 DEF Drawn, Waiting
  <2>7. ASSUME NEW k \in 0..n, NEW c \in 1..b, Waiting(k, c) \/ c > a PROVE Drawn(m + k, c)'
    BY <1>7, <2>3, <2>5, <2>7 DEF Waiting
  <2>8. ASSUME NEW k \in 1..(m + n), NEW c \in 1..b, c = v[k] + 1 PROVE Drawn(k, c)'
    <3>1. CASE k <= m
      <4>1. k \in 1..m /\ k \in 0..m /\ v[k] = shown[k]
        BY <1>2, <2>2, <3>1
      <4>2. Drawn(k, c) \/ c > a
        BY <1>5, <2>8, <4>1
      <4>3. QED
        BY <2>6, <4>1, <4>2
    <3>2. CASE k > m
      <4>1. PICK j \in 1..n : k = m + j
        <5>1. k - m \in 1..n /\ k = m + (k - m)
          BY <1>2, <3>2
        <5>2. QED
          BY <5>1
      <4>2. v[k] = held[j]
        <5>1. k \in (m + 1)..(m + n) /\ k - m = j
          BY <1>2, <4>1
        <5>2. QED
          BY <2>2, <5>1
      <4>3. Waiting(j, c) \/ c > a
        BY <1>5, <2>8, <4>2
      <4>4. j \in 0..n
        OBVIOUS
      <4>5. QED
        BY <2>7, <4>1, <4>3, <4>4
    <3>3. QED
      BY <3>1, <3>2
  <2>9. ASSUME whole, NEW c \in 1..b PROVE Drawn(0, c)'
    <3>1. 0 \in 0..m
      BY <1>2
    <3>2. QED
      BY <1>5, <2>6, <2>9, <3>1
  <2>10. 1..Len(held') = {}
    BY <1>9
  <2>11. Len(shown') = m + n /\ \A k : shown'[k] = v[k]
    BY <1>9, <2>1, <2>2
  <2>12. QED
    BY <1>6, <2>8, <2>9, <2>10, <2>11
<1>10. QED
  BY <1>8, <1>9 DEF ScreenIsKept

(* The way to the program: a message without output comes or is taken.     *)
InboxIsKept ==
  \/ inbox' = inbox
  \/ \E e \in Messages : ChunksOf(e) = <<>> /\ inbox' = Append(inbox, e)
  \/ inbox # <<>> /\ ChunksOf(Head(inbox)) = <<>> /\ inbox' = Tail(inbox)

(* A message that is taken without its output being shown carries none.    *)
LEMMA InboxKept ==
  ASSUME inbox \in Seq(Messages), InboxIsKept, NEW c
  PROVE  Among(inbox, 1, c) <=> Among(inbox', 1, c)
<1>1. CASE inbox' = inbox
  BY <1>1
<1>2. ASSUME NEW e \in Messages, ChunksOf(e) = <<>>, inbox' = Append(inbox, e)
      PROVE  Among(inbox, 1, c) <=> Among(inbox', 1, c)
  <2>1. 1 \in 1..(Len(inbox) + 1)
    OBVIOUS
  <2>2. QED
    BY <1>2, <2>1, AmongAppended, NoneOfNothing
<1>3. CASE inbox # <<>> /\ ChunksOf(Head(inbox)) = <<>> /\ inbox' = Tail(inbox)
  BY <1>3, AmongRest, NoneOfNothing
<1>4. QED
  BY <1>1, <1>2, <1>3 DEF InboxIsKept

(* What comes through the socket still does, and the newest chunk does.     *)
ComingOnward == \A c \in 1..latest' : Coming(c) \/ c > latest => Coming(c)'

(* A message that fits carries output there has been.                      *)
LEMMA ChunkIsOld ==
  ASSUME NEW e, NEW newest, Fit(e, newest), NEW c, In(ChunksOf(e), c)
  PROVE  c \in 1..newest
  BY DEF Fit, In

(* What is on its way is still followed when what was coming still is.     *)
LEMMA InboxStays ==
  ASSUME Typed, inbox' \in Seq(Messages), InboxIsKept, latest' \in {latest, latest + 1},
         Fits(inbox, latest), InboxFollows, ComingOnward
  PROVE  Onward /\ InboxFollows'
<1>1. PICK a \in Nat, b \in Nat : a = latest /\ b = latest' /\ a <= b
  BY DEF Typed
<1>2. inbox \in Seq(Messages)
  BY DEF Typed
<1>3. ASSUME NEW c \in 1..b, Coming(c) \/ c > a PROVE Coming(c)'
  BY <1>1, <1>3 DEF ComingOnward
<1>4. Onward
  <2>1. ASSUME NEW c \in 1..b, OnWay(1, c) \/ c > a PROVE OnWay(1, c)'
    BY <1>2, <1>3, <2>1, InboxKept DEF OnWay
  <2>2. QED
    BY <1>1, <2>1 DEF Onward
<1>5. ASSUME NEW i \in 1..Len(inbox'), NEW c \in 1..b, NEW d \in 1..b, d = c + 1,
             In(ChunksOf(inbox'[i]), c)
      PROVE  OnWay(i, d)'
  <2>1. PICK j \in 1..Len(inbox) :
          /\ In(ChunksOf(inbox[j]), c) /\ (Among(inbox, j, d) => Among(inbox', i, d))
    <3>1. CASE inbox' = inbox
      BY <1>5, <3>1
    <3>2. ASSUME NEW e \in Messages, ChunksOf(e) = <<>>, inbox' = Append(inbox, e)
          PROVE  \E j \in 1..Len(inbox) :
                   /\ In(ChunksOf(inbox[j]), c) /\ (Among(inbox, j, d) => Among(inbox', i, d))
      <4>1. PICK n \in Nat : n = Len(inbox)
        BY <1>2
      <4>2. i \in 1..(n + 1)
        BY <1>2, <1>5, <3>2, <4>1
      <4>3. i # n + 1
        BY <1>2, <1>5, <3>2, <4>1, NoneOfNothing
      <4>4. i \in 1..n /\ inbox'[i] = inbox[i]
        BY <1>2, <3>2, <4>1, <4>2, <4>3
      <4>5. Among(inbox, i, d) => Among(inbox', i, d)
        BY <1>2, <3>2, <4>1, <4>2, AmongAppended
      <4>6. QED
        BY <1>5, <4>1, <4>4, <4>5
    <3>3. CASE inbox # <<>> /\ ChunksOf(Head(inbox)) = <<>> /\ inbox' = Tail(inbox)
      <4>1. PICK n \in Nat : n = Len(inbox)
        BY <1>2
      <4>2. i + 1 \in 1..n /\ i \in 1..n /\ inbox'[i] = inbox[i + 1]
        BY <1>2, <1>5, <3>3, <4>1
      <4>3. Among(inbox, i + 1, d) => Among(inbox', i, d)
        BY <1>2, <3>3, <4>1, <4>2, AmongRest
      <4>4. QED
        BY <1>5, <4>1, <4>2, <4>3
    <3>4. QED
      BY <3>1, <3>2, <3>3 DEF InboxIsKept
  <2>2. c \in 1..a
    <3>1. Fit(inbox[j], a)
      BY <1>1 DEF Fits
    <3>2. QED
      BY <2>1, <3>1, ChunkIsOld
  <2>3. CASE c < a
    <3>1. OnWay(j, d)
      BY <1>1, <1>5, <2>1, <2>2, <2>3 DEF InboxFollows
    <3>2. Among(inbox, j, d) \/ Coming(d)'
      BY <1>3, <3>1 DEF OnWay
    <3>3. QED
      BY <2>1, <3>2 DEF OnWay
  <2>4. CASE c = a
    <3>1. d > a
      BY <1>1, <1>5, <2>4
    <3>2. QED
      BY <1>3, <3>1 DEF OnWay
  <2>5. QED
    BY <1>1, <2>2, <2>3, <2>4
<1>6. InboxFollows'
  <2>1. \A c \in 1..b : c < b => c + 1 \in 1..b
    BY <1>1
  <2>2. QED
    BY <1>1, <1>5, <2>1 DEF InboxFollows
<1>7. QED
  BY <1>4, <1>6

(* What is on its way still fits.                                          *)
LEMMA InboxFits ==
  ASSUME Typed, InboxIsKept, latest' \in {latest, latest + 1}, Fits(inbox, latest)
  PROVE  Fits(inbox', latest')
<1>1. PICK a \in Nat : a = latest
  BY DEF Typed
<1>2. inbox \in Seq(Messages) /\ latest' \in Nat
  BY <1>1 DEF Typed
<1>3. Fits(inbox, latest')
  BY <1>1, <1>2, FitsKept
<1>4. CASE inbox' = inbox
  BY <1>3, <1>4
<1>5. ASSUME NEW e \in Messages, ChunksOf(e) = <<>>, inbox' = Append(inbox, e)
      PROVE  Fits(inbox', latest')
  <2>1. Fit(e, latest')
    BY <1>5 DEF Fit
  <2>2. QED
    BY <1>2, <1>3, <1>5, <2>1, FitsKept
<1>6. CASE inbox # <<>> /\ inbox' = Tail(inbox)
  BY <1>2, <1>3, <1>6, FitsKept
<1>7. QED
  BY <1>4, <1>5, <1>6 DEF InboxIsKept

(* If the socket loses nothing that is not sent again, the way and the      *)
(* screen stay in order.                                                   *)
LEMMA Settled ==
  ASSUME Typed, Typed', OInv, InboxIsKept, ScreenIsKept, latest' \in {latest, latest + 1},
         Fits(receiver, latest)', CopyFollows', Intact' => Intact /\ ComingOnward,
         unsent' # None => unsent' = latest' /\ latest' > 0,
         socket' = "closed" => receiver' = <<>> /\ ~lagged',
         program' = "off" => program = "off" /\ inbox' = inbox /\ socket' = socket
  PROVE  OInv'
<1>1. Shapes /\ latest \in Nat /\ inbox' \in Seq(Messages)
  BY DEF OInv, Typed
<1>2. Numbered(shown)' /\ Numbered(held)'
  BY <1>1, ScreenNumbered DEF Shapes
<1>3. Fits(inbox', latest')
  BY <1>1, InboxFits DEF Shapes
<1>4. ASSUME program' = "off"
      PROVE  /\ inbox' = <<>> /\ shown' = <<>> /\ held' = <<>>
             /\ ~whole' /\ socket' = "closed"
  <2>1. inbox = <<>> /\ shown = <<>> /\ held = <<>> /\ ~whole /\ socket = "closed"
    BY <1>1, <1>4 DEF Shapes
  <2>2. shown' = <<>> /\ held' = <<>> /\ ~whole'
    BY <2>1 DEF ScreenIsKept
  <2>3. QED
    BY <1>4, <2>1, <2>2
<1>5. Shapes'
  BY <1>2, <1>3, <1>4 DEF Shapes
<1>6. ASSUME Intact' PROVE Follows'
  <2>1. InboxFollows /\ HeldFollows /\ ShownFollows /\ AllThere /\ ComingOnward
    BY <1>6 DEF OInv, Follows
  <2>2. Onward /\ InboxFollows'
    BY <1>1, <2>1, InboxStays DEF Shapes
  <2>3. HeldFollows' /\ ShownFollows' /\ AllThere'
    BY <1>1, <2>1, <2>2, ScreenFollows DEF Shapes
  <2>4. QED
    BY <2>2, <2>3 DEF Follows
<1>7. QED
  BY <1>5, <1>6 DEF OInv

(* An event that is sent: one without output, or with the unsent chunk.     *)
Sends(e) ==
  /\ Send(e)
  /\ \/ ChunksOf(e) = <<>> /\ unsent' = unsent
     \/ unsent # None /\ ChunksOf(e) = <<unsent>> /\ e.own /\ unsent' = None

(* An event that is published keeps the socket's copy in order.            *)
LEMMA SendKeeps ==
  ASSUME WellFormed, Typed, OInv, NEW e \in Messages, Sends(e),
         UNCHANGED <<latest, first, socket, torn>>
  PROVE  /\ Fits(receiver, latest)' /\ CopyFollows' /\ (Intact' => Intact /\ ComingOnward)
         /\ unsent' # None => unsent' = latest' /\ latest' > 0
         /\ socket' = "closed" => receiver' = <<>> /\ ~lagged'
<1>1. PICK a \in Nat : a = latest /\ a = latest'
  BY DEF Typed
<1>2. PICK n \in Nat : n = Len(receiver)
  BY DEF Typed
<1>3. /\ receiver \in Seq(Messages) /\ Fits(receiver, a) /\ \A c \in Nat : c # None
      /\ unsent # None => unsent = a /\ a > 0
      /\ socket = "closed" => receiver = <<>> /\ ~lagged
  BY <1>1 DEF Typed, OInv, Shapes, WellFormed
<1>4. Fit(e, a) /\ \A c \in 1..a : c < a => ~In(ChunksOf(e), c)
  <2>1. CASE ChunksOf(e) = <<>>
    BY <2>1, NoneOfNothing DEF Fit
  <2>2. CASE unsent # None /\ ChunksOf(e) = <<unsent>> /\ e.own
    <3>1. ChunksOf(e) = <<a>> /\ a \in 1..a
      BY <1>3, <2>2
    <3>2. Fit(e, a)
      BY <2>2, <3>1 DEF Fit
    <3>3. QED
      BY <3>1, <3>2 DEF In
  <2>3. QED
    BY <2>1, <2>2 DEF Sends
<1>5. \A c \in 1..a : unsent' = c \/ In(ChunksOf(e), c) <=> unsent = c
  <2>1. CASE ChunksOf(e) = <<>> /\ unsent' = unsent
    BY <2>1, NoneOfNothing
  <2>2. CASE unsent # None /\ ChunksOf(e) = <<unsent>> /\ unsent' = None
    BY <1>3, <2>2 DEF In
  <2>3. QED
    BY <2>1, <2>2 DEF Sends
<1>6. unsent' # None => unsent' = a /\ a > 0
  BY <1>3 DEF Sends
<1>7. lagged' => first' = 1 \/ ~Intact'
  BY DEF Intact
<1>8. ASSUME NEW c \in 1..a PROVE ~(c > a)
  BY <1>1
<1>9. CASE socket = "closed"
  <2>1. receiver' = <<>> /\ ~lagged' /\ socket' = "closed"
    BY <1>3, <1>9 DEF Sends, Send
  <2>2. Fits(receiver, latest)' /\ CopyFollows' /\ ~Intact'
    BY <2>1 DEF Fits, CopyFollows, Intact
  <2>3. QED
    BY <1>1, <1>6, <2>1, <2>2
<1>10. CASE socket # "closed" /\ receiver' = Append(receiver, e) /\ lagged' = lagged
  <2>1. Fits(receiver, latest)'
    BY <1>1, <1>3, <1>4, <1>10, FitsKept
  <2>2. ASSUME NEW i \in 1..(n + 1), NEW c \in 1..a PROVE Copy(i, c)' <=> Copy(i, c)
    BY <1>2, <1>3, <1>5, <1>10, AmongAppended DEF Copy
  <2>3. /\ Len(receiver') = n + 1 /\ receiver'[n + 1] = e
        /\ \A i \in 1..n : receiver'[i] = receiver[i]
    BY <1>2, <1>3, <1>10
  <2>4. ASSUME NEW i \in 1..(n + 1), NEW c \in 1..a, c < a, In(ChunksOf(receiver'[i]), c)
        PROVE  Copy(i, c + 1)'
    <3>1. i \in 1..n
      BY <1>2, <1>4, <2>3, <2>4
    <3>2. Copy(i, c + 1) /\ c + 1 \in 1..a
      BY <1>1, <1>2, <2>3, <2>4, <3>1 DEF OInv, CopyFollows
    <3>3. QED
      BY <2>2, <3>2
  <2>5. CopyFollows'
    BY <1>1, <2>3, <2>4 DEF CopyFollows
  <2>6. Intact' => Intact
    BY <1>10 DEF Intact
  <2>7. ComingOnward
    <3>1. ASSUME NEW c \in 1..a, Coming(c) PROVE Coming(c)'
      <4>1. 1 \in 1..(n + 1)
        BY <1>2
      <4>2. QED
        BY <1>1, <1>10, <2>2, <3>1, <4>1 DEF Coming
    <3>2. QED
      BY <1>1, <1>8, <3>1 DEF ComingOnward
  <2>8. QED
    BY <1>1, <1>6, <1>10, <2>1, <2>5, <2>6, <2>7
<1>11. CASE socket # "closed" /\ receiver # <<>> /\ receiver' = Append(Tail(receiver), e) /\ lagged'
  <2>1. PICK rest \in Seq(Messages) : rest = Tail(receiver)
    <3>1. receiver \in Seq(Messages) /\ receiver # <<>>
      BY <1>3, <1>11
    <3>2. Tail(receiver) \in Seq(Messages)
      BY <3>1
    <3>3. QED
      BY <3>2
  <2>2. PICK m \in Nat : n = m + 1 /\ m = Len(rest)
    BY <1>2, <1>3, <1>11, <2>1
  <2>3. Fits(receiver, latest)'
    BY <1>1, <1>3, <1>4, <1>11, <2>1, FitsKept
  <2>4. ASSUME NEW i \in 1..(m + 1), NEW c \in 1..a PROVE Copy(i, c)' <=> Copy(i + 1, c)
    <3>1. Among(receiver', i, c) <=> Among(rest, i, c) \/ In(ChunksOf(e), c)
      BY <1>11, <2>1, <2>2, AmongAppended
    <3>2. Among(rest, i, c) <=> Among(receiver, i + 1, c)
      BY <1>2, <1>3, <1>11, <2>1, <2>2, AmongRest
    <3>3. QED
      BY <1>5, <3>1, <3>2 DEF Copy
  <2>5. /\ Len(receiver') = m + 1 /\ receiver'[m + 1] = e
        /\ \A i \in 1..m : receiver'[i] = receiver[i + 1]
    <3>1. \A i \in 1..m : rest[i] = receiver[i + 1]
      BY <1>2, <1>3, <1>11, <2>1, <2>2
    <3>2. Len(receiver') = m + 1 /\ receiver'[m + 1] = e /\ \A i \in 1..m : receiver'[i] = rest[i]
      BY <1>11, <2>1, <2>2
    <3>3. QED
      BY <3>1, <3>2
  <2>6. ASSUME NEW i \in 1..(m + 1), NEW c \in 1..a, c < a, In(ChunksOf(receiver'[i]), c)
        PROVE  Copy(i, c + 1)'
    <3>1. i \in 1..m
      BY <1>4, <2>5, <2>6
    <3>2. In(ChunksOf(receiver[i + 1]), c) /\ i + 1 \in 1..n
      BY <2>2, <2>5, <2>6, <3>1
    <3>3. Copy(i + 1, c + 1) /\ c + 1 \in 1..a
      BY <1>1, <1>2, <2>6, <3>2 DEF OInv, CopyFollows
    <3>4. QED
      BY <2>4, <3>3
  <2>7. CopyFollows'
    BY <1>1, <2>5, <2>6 DEF CopyFollows
  <2>8. ASSUME Intact' PROVE Intact /\ ComingOnward
    <3>1. first = 1 /\ first' = 1
      BY <1>11, <2>8 DEF Intact
    <3>2. Intact
      BY <2>8, <3>1 DEF Intact
    <3>3. ASSUME NEW c \in 1..a PROVE Coming(c)'
      BY <1>1, <1>11, <3>1 DEF Coming
    <3>4. QED
      BY <1>1, <3>2, <3>3 DEF ComingOnward
  <2>9. QED
    BY <1>1, <1>6, <1>11, <2>3, <2>7, <2>8
<1>12. QED
  <2>1. ~(Len(receiver) < Capacity) => receiver # <<>>
    BY <1>2 DEF WellFormed
  <2>2. QED
    BY <1>9, <1>10, <1>11, <2>1 DEF Sends, Send

(* Nothing happens at the socket.                                          *)
LEMMA Untouched ==
  ASSUME Typed, OInv, UNCHANGED <<latest, first, unsent, receiver>>
  PROVE  /\ Fits(receiver, latest)' /\ CopyFollows' /\ (lagged' = lagged => ComingOnward)
         /\ unsent' # None => unsent' = latest' /\ latest' > 0
<1>1. PICK a \in Nat : a = latest /\ a = latest'
  BY DEF Typed
<1>2. Shapes /\ CopyFollows
  BY DEF OInv
<1>3. ASSUME NEW i, NEW c PROVE Copy(i, c)' <=> Copy(i, c)
  BY DEF Copy
<1>4. CopyFollows'
  BY <1>2, <1>3 DEF CopyFollows
<1>5. ASSUME lagged' = lagged PROVE ComingOnward
  <2>1. \A c \in 1..a : ~(c > a)
    BY <1>1
  <2>2. QED
    BY <1>1, <1>3, <1>5, <2>1 DEF ComingOnward, Coming
<1>6. QED
  BY <1>2, <1>4, <1>5 DEF Shapes

(* Showing the prompt shows none of the output.                            *)
LEMMA PromptKeepsScreen ==
  ASSUME NEW p, ShowPrompt(p), whole' = whole
  PROVE  ScreenIsKept
  BY DEF ShowPrompt, ScreenIsKept

-----------------------------------------------------------------------------
(* A chunk is appended: it is the newest and the one to be sent.           *)
LEMMA AppendOrder ==
  ASSUME WellFormed, Typed, Typed', OInv, append
  PROVE  OInv'
<1>1. PICK a \in Nat, b \in Nat : a = latest /\ b = first /\ b >= 1
  BY DEF Typed
<1>2. /\ unsent = None /\ latest' = a + 1 /\ unsent' = a + 1 /\ first' \in {b, b + 1}
      /\ UNCHANGED <<socket, receiver, lagged, inbox, program, shown, held, whole, torn>>
  BY <1>1 DEF append, programVars
<1>3. Shapes /\ CopyFollows /\ receiver \in Seq(Messages) /\ Fits(receiver, a) /\ None \notin Nat
  BY <1>1 DEF OInv, Shapes, Typed, WellFormed
<1>4. Fits(receiver, latest)'
  BY <1>1, <1>2, <1>3, FitsKept
<1>5. ASSUME NEW i, NEW c \in 1..(a + 1) PROVE Copy(i, c)' <=> Copy(i, c) \/ c = a + 1
  BY <1>1, <1>2, <1>3 DEF Copy
<1>6. CopyFollows'
  <2>1. ASSUME NEW i \in 1..Len(receiver), NEW c \in 1..(a + 1), c < a + 1,
               In(ChunksOf(receiver[i]), c)
        PROVE  Copy(i, c + 1)'
    <3>1. c + 1 \in 1..(a + 1) /\ c \in 1..a
      BY <1>1, <2>1
    <3>2. CASE c < a
      BY <1>1, <1>3, <1>5, <2>1, <3>1, <3>2 DEF CopyFollows
    <3>3. CASE c = a
      BY <1>5, <3>1, <3>3
    <3>4. QED
      BY <1>1, <3>1, <3>2, <3>3
  <2>2. QED
    BY <1>2, <2>1 DEF CopyFollows
<1>7. ASSUME Intact' PROVE Intact /\ ComingOnward
  <2>1. lagged => b = 1 /\ first' = 1
    BY <1>1, <1>2, <1>7 DEF Intact
  <2>2. Intact
    BY <1>1, <1>2, <1>7, <2>1 DEF Intact
  <2>3. ASSUME NEW c \in 1..(a + 1), Coming(c) \/ c > a PROVE Coming(c)'
    <3>1. CASE lagged
      BY <1>2, <2>1, <2>3, <3>1 DEF Coming
    <3>2. CASE c > a
      <4>1. c = a + 1
        BY <1>1, <3>2
      <4>2. QED
        BY <1>5, <4>1 DEF Coming
    <3>3. CASE ~lagged /\ Coming(c)
      BY <1>5, <3>3 DEF Coming
    <3>4. QED
      BY <2>3, <3>1, <3>2, <3>3
  <2>4. QED
    BY <1>1, <1>2, <2>2, <2>3 DEF ComingOnward
<1>8. InboxIsKept /\ ScreenIsKept
  BY <1>2 DEF InboxIsKept, ScreenIsKept
<1>9. a + 1 > 0
  BY <1>1
<1>10. socket' = "closed" => receiver' = <<>> /\ ~lagged'
  BY <1>2, <1>3 DEF Shapes
<1>11. QED
  BY <1>1, <1>2, <1>4, <1>6, <1>7, <1>8, <1>9, <1>10, Settled

(* The server sends an event.                                              *)
LEMMA SendOrder ==
  ASSUME WellFormed, Typed, Typed', OInv, NEW e \in Messages, Sends(e), ScreenIsKept,
         UNCHANGED <<latest, first, socket, torn, inbox>>, program' = "off" => program = "off"
  PROVE  OInv'
<1>1. InboxIsKept
  BY DEF InboxIsKept
<1>2. QED
  BY <1>1, SendKeeps, Settled

(* The server's own steps keep the order.                                  *)
LEMMA ServerOrder ==
  ASSUME WellFormed, Typed, Typed', OInv,
         \/ flush_terminal_output \/ stream_terminal_output
         \/ \E kind \in {"output", "ready", "closed"} : Stranger(kind)
         \/ \E r \in Requests : publish_approval_request(r) \/ ResolvedElsewhere(r)
  PROVE  OInv'
<1>1. ASSUME NEW e \in Messages, Sends(e),
             UNCHANGED <<latest, first, socket, torn, inbox, programVars, whole>>
      PROVE  OInv'
  BY <1>1, SendOrder DEF ScreenIsKept, programVars
<1>2. CASE flush_terminal_output
  <2>1. PICK e : e = Output(<<unsent>>)
    OBVIOUS
  <2>2. unsent \in Nat
    BY <1>2 DEF flush_terminal_output, Typed
  <2>3. e \in Messages
    <3>1. <<unsent>> \in Seq(Nat)
      BY <2>2
    <3>2. QED
      BY <2>1, <3>1, OutputType
  <2>4. ChunksOf(e) = <<unsent>> /\ e.own
    BY <2>1 DEF ChunksOf, Output, Event
  <2>5. Sends(e)
    BY <1>2, <2>1, <2>4 DEF flush_terminal_output, Sends
  <2>6. QED
    BY <1>1, <1>2, <2>3, <2>5 DEF flush_terminal_output
<1>3. CASE stream_terminal_output
  <2>1. PICK e : e = Event("closed", TRUE, <<>>)
    OBVIOUS
  <2>2. e \in Messages /\ ChunksOf(e) = <<>>
    BY <2>1 DEF Event, Messages, ChunksOf
  <2>3. Sends(e)
    BY <1>3, <2>1, <2>2 DEF stream_terminal_output, Sends
  <2>4. QED
    BY <1>1, <1>3, <2>2, <2>3 DEF stream_terminal_output
<1>4. CASE \E kind \in {"output", "ready", "closed"} : Stranger(kind)
  <2>1. PICK kind \in {"output", "ready", "closed"} : Stranger(kind)
    BY <1>4
  <2>2. PICK e : e = Event(kind, FALSE, <<>>)
    OBVIOUS
  <2>3. e \in Messages /\ ChunksOf(e) = <<>>
    BY <2>2 DEF Event, Messages, ChunksOf
  <2>4. Sends(e)
    BY <2>1, <2>2, <2>3 DEF Stranger, Sends, serverVars
  <2>5. QED
    BY <1>1, <2>1, <2>3, <2>4 DEF Stranger, serverVars
<1>5. CASE \E r \in Requests : publish_approval_request(r) \/ ResolvedElsewhere(r)
  <2>1. PICK r \in Requests : publish_approval_request(r) \/ ResolvedElsewhere(r)
    BY <1>5
  <2>2. PICK kind \in {"request", "resolved"} :
          /\ Send(Event(kind, TRUE, <<r>>))
          /\ UNCHANGED <<serverVars, socket, inbox, programVars, whole, torn>>
    BY <2>1 DEF publish_approval_request, ResolvedElsewhere
  <2>3. PICK e : e = Event(kind, TRUE, <<r>>)
    OBVIOUS
  <2>4. e \in Messages /\ ChunksOf(e) = <<>>
    BY <2>3, ApprovalType DEF Event, ChunksOf
  <2>5. Sends(e)
    BY <2>2, <2>3, <2>4 DEF Sends, serverVars
  <2>6. QED
    BY <1>1, <2>2, <2>4, <2>5 DEF serverVars
<1>6. QED
  BY <1>2, <1>3, <1>4, <1>5

(* A message without output comes or is taken, or the user types.          *)
LEMMA QuietOrder ==
  ASSUME Typed, Typed', OInv, InboxIsKept, ScreenIsKept, program # "off", program' # "off",
         UNCHANGED <<latest, first, unsent, receiver, lagged, torn>>,
         socket' = "closed" <=> socket = "closed"
  PROVE  OInv'
<1>1. Intact' => Intact
  BY DEF Intact
<1>2. socket' = "closed" => receiver' = <<>> /\ ~lagged'
  BY DEF OInv, Shapes
<1>3. QED
  BY <1>1, <1>2, Untouched, Settled

(* A socket that is open has its program.                                  *)
LEMMA ProgramRuns ==
  ASSUME OInv, socket # "closed"
  PROVE  program # "off"
  BY DEF OInv, Shapes

(* Attaching keeps the order.                                              *)
LEMMA AttachOrder ==
  ASSUME Typed, Typed', OInv, handle_attach
  PROVE  OInv'
<1>1. PICK e \in Messages : inbox' = Append(inbox, e) /\ ChunksOf(e) = <<>>
  <2>1. PICK kind \in {"ready", "error"} : inbox' = Append(inbox, Event(kind, TRUE, <<>>))
    BY DEF handle_attach, Reply
  <2>2. Event(kind, TRUE, <<>>) \in Messages /\ ChunksOf(Event(kind, TRUE, <<>>)) = <<>>
    BY DEF Event, Messages, ChunksOf
  <2>3. QED
    BY <2>1, <2>2
<1>2. /\ UNCHANGED <<latest, first, unsent, receiver, lagged, torn, shown, held, whole, program>>
      /\ socket # "closed" /\ socket' # "closed"
  BY DEF handle_attach, serverVars, programVars
<1>3. InboxIsKept /\ ScreenIsKept
  BY <1>1, <1>2 DEF InboxIsKept, ScreenIsKept
<1>4. QED
  BY <1>2, <1>3, ProgramRuns, QuietOrder

(* All of it is sent.                                                      *)
LEMMA AllIsSent ==
  ASSUME Typed, Typed', OInv, SendSnapshot, alive, first = 1, socket # "closed",
         socket' # "closed",
         UNCHANGED <<latest, first, unsent, receiver, program, shown, held>>
  PROVE  OInv'
<1>1. PICK a \in Nat : a = latest /\ a = latest'
  BY DEF Typed
<1>2. PICK e \in Messages : /\ e = get_output_snapshot /\ Fit(e, a)
                            /\ \A c \in 1..a : In(ChunksOf(e), c)
  BY <1>1, SnapshotHasAll
<1>3. inbox' = IF a = 0 THEN inbox ELSE Append(inbox, e)
  BY <1>1, <1>2 DEF SendSnapshot, history_truncated
<1>4. inbox \in Seq(Messages) /\ Shapes
  BY DEF Typed, OInv
<1>5. Fits(inbox', a)
  <2>1. Fits(inbox, a)
    BY <1>1, <1>4 DEF Shapes
  <2>2. QED
    BY <1>2, <1>3, <1>4, <2>1, FitsKept
<1>6. program # "off"
  BY ProgramRuns
<1>7. Shapes'
  BY <1>1, <1>4, <1>5, <1>6 DEF Shapes, Numbered
<1>8. ASSUME NEW c \in 1..a, NEW i \in 1..Len(inbox') PROVE OnWay(i, c)'
  <2>1. inbox' = Append(inbox, e)
    BY <1>1, <1>3, <1>8
  <2>2. Len(inbox') = Len(inbox) + 1
    BY <1>4, <2>1
  <2>3. Among(inbox', i, c)
    BY <1>2, <1>4, <1>8, <2>1, <2>2, AmongAppended
  <2>4. QED
    BY <2>3 DEF OnWay
<1>9. ASSUME NEW c \in 1..a PROVE 1 \in 1..Len(inbox')
  <2>1. inbox' = Append(inbox, e)
    BY <1>1, <1>3, <1>9
  <2>2. QED
    BY <1>4, <2>1
<1>10. QED
  BY <1>1, <1>7, <1>8, <1>9, Untouched, Renewed

(* A snapshot keeps the order, the first as well as the one after a lag.   *)
LEMMA SnapshotOrder ==
  ASSUME Typed, Typed', OInv, attach_snapshot \/ forward_lagged
  PROVE  OInv'
<1>1. /\ UNCHANGED <<latest, first, unsent, receiver, program, shown, held>>
      /\ socket # "closed" /\ socket' # "closed" /\ program # "off"
  BY ProgramRuns DEF attach_snapshot, forward_lagged, serverVars, programVars
<1>2. first = 1 \/ history_truncated
  BY DEF Typed, history_truncated
<1>3. CASE SendSnapshot /\ alive /\ ~history_truncated
  BY <1>1, <1>2, <1>3, AllIsSent
<1>4. CASE attach_snapshot /\ (~alive \/ history_truncated)
  <2>1. UNCHANGED <<inbox, whole, torn, lagged>>
    BY <1>4 DEF attach_snapshot, SendSnapshot
  <2>2. InboxIsKept /\ ScreenIsKept
    BY <1>1, <2>1 DEF InboxIsKept, ScreenIsKept
  <2>3. QED
    BY <1>1, <2>1, <2>2, QuietOrder
<1>5. CASE torn' /\ UNCHANGED <<inbox, whole>>
  <2>1. ~Intact'
    BY <1>5 DEF Intact
  <2>2. Shapes'
    BY <1>1, <1>5 DEF OInv, Shapes, Numbered
  <2>3. QED
    BY <1>1, <2>1, <2>2, Untouched DEF OInv
<1>6. QED
  BY <1>3, <1>4, <1>5 DEF attach_snapshot, forward_lagged

(* The next event is passed on, or has no output.                          *)
LEMMA ForwardOrder ==
  ASSUME Typed, Typed', OInv, forward
  PROVE  OInv'
<1>1. PICK a \in Nat : a = latest /\ a = latest'
  BY DEF Typed, forward, serverVars
<1>2. PICK e \in Messages, rest \in Seq(Messages) : e = Head(receiver) /\ rest = Tail(receiver)
  <2>1. receiver \in Seq(Messages) /\ receiver # <<>>
    BY DEF Typed, forward
  <2>2. Head(receiver) \in Messages /\ Tail(receiver) \in Seq(Messages)
    BY <2>1
  <2>3. QED
    BY <2>2
<1>3. /\ ~lagged /\ ~lagged' /\ receiver # <<>> /\ receiver' = rest
      /\ (inbox' = inbox /\ ~e.own) \/ inbox' = Append(inbox, e)
      /\ socket' = socket /\ socket # "closed" /\ program # "off"
      /\ UNCHANGED <<first, unsent, torn, program, shown, held, whole>>
  BY <1>2, ProgramRuns DEF forward, should_forward_to_raw_terminal_socket, serverVars, programVars
<1>4. /\ receiver \in Seq(Messages) /\ inbox \in Seq(Messages)
      /\ Shapes /\ CopyFollows /\ Fits(receiver, a) /\ Fits(inbox, a)
  BY <1>1 DEF Typed, OInv, Shapes
<1>5. Fit(e, a) /\ Fits(rest, a)
  BY <1>2, <1>3, <1>4, FitsKept
<1>6. inbox' = Append(inbox, e) \/ (inbox' = inbox /\ ChunksOf(e) = <<>>)
  BY <1>3, <1>5 DEF Fit
<1>7. Shapes'
  <2>1. Fits(inbox', a)
    BY <1>4, <1>5, <1>6, FitsKept
  <2>2. QED
    BY <1>1, <1>3, <1>4, <1>5, <2>1 DEF Shapes, Numbered
<1>8. PICK m \in Nat : m = Len(rest) /\ m + 1 = Len(receiver)
  <2>1. Len(rest) \in Nat /\ Len(rest) + 1 = Len(receiver)
    BY <1>2, <1>3, <1>4
  <2>2. QED
    BY <2>1
<1>9. ASSUME NEW c
      PROVE  /\ Copy(1, c) <=> In(ChunksOf(e), c) \/ Copy(1, c)'
             /\ \A i \in 1..m : Copy(i + 1, c) <=> Copy(i, c)'
  <2>1. /\ \A i \in 1..(m + 1) : Among(rest, i, c) <=> Among(receiver, i + 1, c)
        /\ Among(receiver, 1, c) <=> In(ChunksOf(e), c) \/ Among(rest, 1, c)
    BY <1>2, <1>3, <1>4, <1>8, AmongRest
  <2>2. \A i \in 1..m : i \in 1..(m + 1)
    BY <1>8
  <2>3. QED
    BY <1>3, <2>1, <2>2 DEF Copy
<1>10. ASSUME NEW c \in 1..a, c < a PROVE c + 1 \in 1..a
  BY <1>1, <1>10
<1>11. CopyFollows'
  <2>1. ASSUME NEW i \in 1..m, NEW c \in 1..a, c < a, In(ChunksOf(rest[i]), c)
        PROVE  Copy(i, c + 1)'
    <3>1. i + 1 \in 1..(m + 1) /\ rest[i] = receiver[i + 1]
      BY <1>2, <1>3, <1>4, <1>8
    <3>2. Copy(i + 1, c + 1)
      BY <1>1, <1>4, <1>8, <2>1, <3>1 DEF CopyFollows
    <3>3. QED
      BY <1>9, <3>2
  <2>2. QED
    BY <1>1, <1>3, <1>8, <2>1 DEF CopyFollows
<1>12. PICK n \in Nat : n = Len(inbox)
  BY <1>4
<1>13. ASSUME NEW i \in 1..(n + 1), NEW c, OnWay(i, c) PROVE OnWay(i, c)'
  <2>1. Among(inbox', i, c) <=> Among(inbox, i, c) \/ In(ChunksOf(e), c)
    <3>1. CASE inbox' = Append(inbox, e)
      BY <1>4, <1>12, <3>1, AmongAppended
    <3>2. CASE inbox' = inbox /\ ChunksOf(e) = <<>>
      BY <3>2, NoneOfNothing
    <3>3. QED
      BY <1>6, <3>1, <3>2
  <2>2. Among(inbox, i, c) \/ Copy(1, c)
    BY <1>3, <1>13 DEF OnWay, Coming
  <2>3. Among(inbox', i, c) \/ Copy(1, c)'
    BY <1>9, <2>1, <2>2
  <2>4. QED
    BY <2>3 DEF OnWay, Coming
<1>14. ASSUME Intact' PROVE Follows'
  <2>1. Follows
    BY <1>3, <1>14 DEF OInv, Intact
  <2>2. ASSUME NEW i \in 1..Len(inbox'), NEW c \in 1..a, c < a, In(ChunksOf(inbox'[i]), c)
        PROVE  OnWay(i, c + 1)'
    <3>1. CASE i \in 1..n /\ inbox'[i] = inbox[i]
      <4>1. OnWay(i, c + 1)
        BY <1>1, <1>12, <2>1, <2>2, <3>1 DEF Follows, InboxFollows
      <4>2. i \in 1..(n + 1)
        BY <3>1, <1>12
      <4>3. QED
        BY <1>13, <4>1, <4>2
    <3>2. CASE i = n + 1 /\ inbox'[i] = e
      <4>1. In(ChunksOf(receiver[1]), c) /\ 1 \in 1..(m + 1)
        BY <1>2, <1>3, <1>4, <1>8, <2>2, <3>2
      <4>2. Copy(1, c + 1)
        BY <1>1, <1>4, <1>8, <2>2, <4>1 DEF CopyFollows
      <4>3. OnWay(i, c + 1)
        BY <4>2 DEF OnWay, Coming
      <4>4. i \in 1..(n + 1)
        BY <3>2, <1>12
      <4>5. QED
        BY <1>13, <4>3, <4>4
    <3>3. (i \in 1..n /\ inbox'[i] = inbox[i]) \/ (i = n + 1 /\ inbox'[i] = e)
      <4>1. CASE inbox' = inbox
        BY <1>12, <2>2, <4>1
      <4>2. CASE inbox' = Append(inbox, e)
        BY <1>4, <1>12, <2>2, <4>2
      <4>3. QED
        BY <1>6, <4>1, <4>2
    <3>4. QED
      BY <3>1, <3>2, <3>3
  <2>3. InboxFollows'
    BY <1>1, <2>2 DEF InboxFollows
  <2>4. Onward
    <3>1. \A c \in 1..a : ~(c > a)
      BY <1>1
    <3>2. 1 \in 1..(n + 1)
      BY <1>12
    <3>3. QED
      BY <1>1, <1>13, <3>1, <3>2 DEF Onward
  <2>5. ScreenIsKept
    BY <1>3 DEF ScreenIsKept
  <2>6. HeldFollows' /\ ShownFollows' /\ AllThere'
    BY <1>1, <1>4, <2>1, <2>4, <2>5, ScreenFollows DEF Follows, Shapes
  <2>7. QED
    BY <2>3, <2>6 DEF Follows
<1>15. QED
  BY <1>7, <1>11, <1>14 DEF OInv

(* The program starts.                                                     *)
LEMMA StartOrder ==
  ASSUME OInv, attach_session
  PROVE  OInv'
<1>1. Shapes /\ program = "off"
  BY DEF OInv, attach_session
<1>2. /\ inbox = <<>> /\ shown = <<>> /\ held = <<>> /\ ~whole /\ receiver = <<>> /\ ~lagged
  BY <1>1 DEF Shapes
<1>3. /\ UNCHANGED <<latest, first, unsent, receiver, lagged, inbox, shown, held, whole>>
      /\ program' = "running" /\ socket' = "open"
  BY DEF attach_session, serverVars
<1>4. Shapes'
  BY <1>1, <1>3 DEF Shapes, Numbered
<1>5. CopyFollows'
  BY <1>2, <1>3 DEF CopyFollows
<1>6. Follows'
  BY <1>2, <1>3 DEF Follows, InboxFollows, HeldFollows, ShownFollows, AllThere
<1>7. QED
  BY <1>4, <1>5, <1>6 DEF OInv

(* The program ends.                                                       *)
LEMMA LeaveOrder ==
  ASSUME OInv, Leave
  PROVE  OInv'
<1>1. /\ UNCHANGED <<latest, unsent, shown, held>> /\ program' = "ended"
      /\ socket' = "closed" /\ receiver' = <<>> /\ ~lagged' /\ inbox' = <<>>
  BY DEF Leave
<1>2. Shapes'
  BY <1>1 DEF OInv, Shapes, Numbered, Fits
<1>3. CopyFollows' /\ ~Intact'
  BY <1>1 DEF CopyFollows, Intact
<1>4. QED
  BY <1>2, <1>3 DEF OInv

(* A message about the terminal or an approval is taken.                   *)
LEMMA NoticeOrder ==
  ASSUME Typed, Typed', OInv, message_marks_terminal_ready \/ ReceiveApproval
  PROVE  OInv'
<1>1. /\ inbox # <<>> /\ Head(inbox).kind # "output" /\ inbox' = Tail(inbox)
      /\ program = "running" /\ program' = "running"
      /\ UNCHANGED <<latest, first, unsent, receiver, lagged, torn, whole, socket>>
  BY DEF message_marks_terminal_ready, ReceiveApproval, Take, UnchangedByTaking, serverVars
<1>2. InboxIsKept
  BY <1>1 DEF InboxIsKept, ChunksOf
<1>3. ScreenIsKept
  <2>1. CASE shown' = shown /\ held' = held
    BY <1>1, <2>1 DEF ScreenIsKept
  <2>2. CASE \E p : ShowPrompt(p)
    BY <1>1, <2>2, PromptKeepsScreen
  <2>3. QED
    BY <2>1, <2>2 DEF message_marks_terminal_ready, ReceiveApproval
<1>4. QED
  BY <1>1, <1>2, <1>3, QuietOrder

(* A key that is pressed keeps the order.                                  *)
LEMMA KeyOrder ==
  ASSUME Typed, Typed', OInv, NEW key,
         \/ Navigate(key) \/ open_prefix_selection(key) \/ SubmitChoice(key)
         \/ handle_prefix_selection_input(key)
  PROVE  OInv'
<1>1. UnchangedByKey /\ program = "running" /\ program' \in {"running", "submitting"}
  BY DEF Navigate, open_prefix_selection, SubmitChoice, handle_prefix_selection_input, Submit
<1>2. InboxIsKept /\ ScreenIsKept
  BY <1>1 DEF UnchangedByKey, InboxIsKept, ScreenIsKept
<1>3. UNCHANGED <<latest, first, unsent, receiver, lagged, torn, socket>>
  BY <1>1 DEF UnchangedByKey, serverVars
<1>4. QED
  BY <1>1, <1>2, <1>3, QuietOrder

(* The answer to a submission: it may be sent to everybody, and the prompt  *)
(* may go.                                                                 *)
LEMMA AnswerOrder ==
  ASSUME WellFormed, Typed, Typed', OInv, resolve_request
  PROVE  OInv'
<1>1. /\ program = "submitting" /\ program' = "running" /\ submitted.request \in Requests
      /\ UNCHANGED <<latest, first, unsent, socket, inbox, whole, torn>>
  BY DEF resolve_request, serverVars, Typed
<1>2. ScreenIsKept
  <2>1. CASE \E p : ShowPrompt(p)
    BY <1>1, <2>1, PromptKeepsScreen
  <2>2. CASE UNCHANGED <<shown, held>>
    BY <1>1, <2>2 DEF ScreenIsKept
  <2>3. QED
    BY <2>1, <2>2 DEF resolve_request
<1>3. CASE Resolve(submitted.request)
  <2>1. PICK e : e = Event("resolved", TRUE, <<submitted.request>>)
    OBVIOUS
  <2>2. e \in Messages /\ ChunksOf(e) = <<>>
    BY <1>1, <2>1, ApprovalType DEF Event, ChunksOf
  <2>3. Sends(e)
    BY <1>1, <1>3, <2>1, <2>2 DEF Resolve, Sends
  <2>4. QED
    BY <1>1, <1>2, <2>2, <2>3, SendOrder
<1>4. CASE UNCHANGED <<receiver, lagged>>
  <2>1. InboxIsKept
    BY <1>1 DEF InboxIsKept
  <2>2. QED
    BY <1>1, <1>2, <1>4, <2>1, QuietOrder
<1>5. QED
  BY <1>3, <1>4 DEF resolve_request

(* Output is taken, and kept back or written.                              *)
LEMMA OutputOrder ==
  ASSUME Typed, Typed', Kept, OInv, ReceiveOutput
  PROVE  OInv'
<1>1. PICK a \in Nat : a = latest /\ a = latest'
  BY DEF Typed, ReceiveOutput, UnchangedByTaking, serverVars
<1>2. PICK e \in Messages, rest \in Seq(Messages) : e = Head(inbox) /\ rest = Tail(inbox)
  <2>1. inbox \in Seq(Messages) /\ inbox # <<>>
    BY DEF Typed, ReceiveOutput, Take
  <2>2. Head(inbox) \in Messages /\ Tail(inbox) \in Seq(Messages)
    BY <2>1
  <2>3. QED
    BY <2>2
<1>3. PICK w \in Seq(Nat) : w = ChunksOf(e)
  BY ChunksType
<1>4. /\ inbox # <<>> /\ inbox' = rest /\ e.kind = "output"
      /\ program = "running" /\ program' = "running"
      /\ UNCHANGED <<first, unsent, receiver, lagged, socket, torn, whole>>
  BY <1>2 DEF ReceiveOutput, Take, UnchangedByTaking, serverVars
<1>5. \/ held' = held \o w /\ shown' = shown
      \/ held = <<>> /\ held' = <<>> /\ shown' = shown \o w
  BY <1>2, <1>3, <1>4 DEF ReceiveOutput, Kept, ChunksOf
<1>6. /\ inbox \in Seq(Messages) /\ Shapes /\ CopyFollows /\ Fits(inbox, a)
      /\ Numbered(shown) /\ Numbered(held)
  BY <1>1 DEF Typed, OInv, Shapes
<1>7. Fit(e, a) /\ Fits(rest, a)
  BY <1>2, <1>4, <1>6, FitsKept
<1>8. \A k \in 1..Len(w) : w[k] \in 1..a
  BY <1>3, <1>7 DEF Fit
<1>9. PICK m \in Nat, n \in Nat, o \in Nat : m = Len(shown) /\ n = Len(held) /\ o = Len(w)
  BY <1>6 DEF Numbered
<1>10. ASSUME NEW s, Numbered(s)
       PROVE  /\ s \o w \in Seq(Nat) /\ Len(s \o w) = Len(s) + o
              /\ \A k \in 1..Len(s) : (s \o w)[k] = s[k]
              /\ \A k \in (Len(s) + 1)..(Len(s) + o) : k - Len(s) \in 1..o /\ (s \o w)[k] = w[k - Len(s)]
              /\ \A k \in 1..Len(s \o w) : (s \o w)[k] \in 1..a
  <2>1. PICK r \in Nat : r = Len(s)
    BY <1>10 DEF Numbered
  <2>2. s \in Seq(Nat) /\ \A k \in 1..r : s[k] \in 1..a
    BY <1>1, <1>10, <2>1 DEF Numbered
  <2>3. PICK v : v = s \o w
    OBVIOUS
  <2>4. v \in Seq(Nat) /\ Len(v) = r + o
    BY <1>9, <2>1, <2>2, <2>3, Concatenation
  <2>5. \A k \in 1..r : v[k] = s[k]
    BY <1>9, <2>1, <2>2, <2>3
  <2>6. ASSUME NEW k \in (r + 1)..(r + o) PROVE k - r \in 1..o /\ v[k] = w[k - r]
    <3>1. k - r \in 1..o /\ ~(k <= r)
      BY <2>1, <1>9
    <3>2. QED
      BY <1>9, <2>1, <2>2, <2>3, <3>1
  <2>7. ASSUME NEW k \in 1..(r + o) PROVE v[k] \in 1..a
    <3>1. CASE k \in 1..r
      BY <2>2, <2>5, <3>1
    <3>2. CASE k \in (r + 1)..(r + o)
      BY <1>8, <1>9, <2>6, <3>2
    <3>3. QED
      BY <2>1, <1>9, <3>1, <3>2
  <2>8. QED
    BY <2>1, <2>3, <2>4, <2>5, <2>6, <2>7
<1>11. Numbered(shown)' /\ Numbered(held)'
  <2>1. PICK v, u : v = shown \o w /\ u = held \o w
    OBVIOUS
  <2>2. /\ v \in Seq(Nat) /\ \A k \in 1..Len(v) : v[k] \in 1..a
        /\ u \in Seq(Nat) /\ \A k \in 1..Len(u) : u[k] \in 1..a
    BY <1>6, <1>10, <2>1
  <2>3. CASE held' = held \o w /\ shown' = shown
    BY <1>1, <1>6, <2>1, <2>2, <2>3 DEF Numbered
  <2>4. CASE held' = <<>> /\ shown' = shown \o w
    <3>1. Numbered(held)'
      BY <2>4 DEF Numbered
    <3>2. Numbered(shown)'
      BY <1>1, <2>1, <2>2, <2>4 DEF Numbered
    <3>3. QED
      BY <3>1, <3>2
  <2>5. QED
    BY <1>5, <2>3, <2>4
<1>12. Shapes' /\ CopyFollows'
  <2>1. Shapes'
    BY <1>1, <1>4, <1>6, <1>7, <1>11 DEF Shapes
  <2>2. QED
    BY <1>1, <1>4, <2>1, Untouched
<1>13. ASSUME NEW c
       PROVE  /\ OnWay(1, c) <=> In(w, c) \/ OnWay(1, c)'
              /\ \A i \in 1..Len(rest) : OnWay(i + 1, c) <=> OnWay(i, c)'
  <2>1. Coming(c)' <=> Coming(c)
    BY <1>1, <1>4 DEF Coming, Copy
  <2>2. /\ \A i \in 1..Len(inbox) : Among(rest, i, c) <=> Among(inbox, i + 1, c)
        /\ Among(inbox, 1, c) <=> In(w, c) \/ Among(rest, 1, c)
    BY <1>2, <1>3, <1>4, <1>6, AmongRest
  <2>3. \A i \in 1..Len(rest) : i \in 1..Len(inbox)
    BY <1>2, <1>4, <1>6
  <2>4. QED
    BY <1>4, <2>1, <2>2, <2>3 DEF OnWay
<1>14. ASSUME Intact' PROVE Follows'
  <2>1. Follows
    BY <1>4, <1>14 DEF OInv, Intact
  <2>2. InboxFollows'
    <3>1. PICK p \in Nat : p = Len(rest) /\ p + 1 = Len(inbox)
      <4>1. Len(rest) \in Nat /\ Len(rest) + 1 = Len(inbox)
        BY <1>2, <1>4, <1>6
      <4>2. QED
        BY <4>1
    <3>2. ASSUME NEW i \in 1..p, NEW c \in 1..a, c < a, In(ChunksOf(rest[i]), c)
          PROVE  OnWay(i, c + 1)'
      <4>1. i + 1 \in 1..(p + 1) /\ rest[i] = inbox[i + 1]
        BY <1>2, <1>4, <1>6, <3>1
      <4>2. OnWay(i + 1, c + 1)
        BY <1>1, <2>1, <3>1, <3>2, <4>1 DEF Follows, InboxFollows
      <4>3. QED
        BY <1>13, <3>1, <4>2
    <3>3. QED
      BY <1>1, <1>4, <3>1, <3>2 DEF InboxFollows
  <2>3. ASSUME NEW k \in 1..o, NEW c \in 1..a, c = w[k] + 1 PROVE After(w, k, c) \/ OnWay(1, c)'
    <3>1. PICK b \in 1..a : b = w[k] /\ c = b + 1 /\ b < a
      BY <1>1, <1>8, <1>9, <2>3
    <3>2. In(w, b)
      BY <1>9, <3>1 DEF In
    <3>3. In(ChunksOf(inbox[1]), b) /\ 1 \in 1..Len(inbox)
      BY <1>2, <1>3, <1>4, <1>6, <3>2
    <3>4. OnWay(1, c)
      BY <1>1, <2>1, <3>1, <3>3 DEF Follows, InboxFollows
    <3>5. CASE In(w, c)
      <4>1. PICK l \in 1..o : w[l] = c
        BY <1>9, <3>5 DEF In
      <4>2. l = k + 1
        BY <1>3, <1>7, <1>9, <2>3, <4>1, NextInEvent
      <4>3. l \in (k + 1)..o
        BY <1>9, <4>2
      <4>4. QED
        BY <1>9, <4>1, <4>3 DEF After
    <3>6. QED
      BY <1>13, <3>4, <3>5
  <2>4. ASSUME NEW s, Numbered(s), NEW c
        PROVE  /\ \A k \in 0..Len(s) : After(s \o w, k, c) <=> After(s, k, c) \/ In(w, c)
               /\ \A k \in 0..o : After(s \o w, Len(s) + k, c) <=> After(w, k, c)
    BY <1>9, <2>4, AfterConcatenation DEF Numbered
  <2>5. /\ \A k \in 1..n, c \in 1..a : c = held[k] + 1 => Waiting(k, c)
        /\ \A k \in 1..m, c \in 1..a : c = shown[k] + 1 => Drawn(k, c)
        /\ whole => \A c \in 1..a : Drawn(0, c)
    BY <1>1, <1>9, <2>1 DEF Follows, HeldFollows, ShownFollows, AllThere
  <2>6. CASE held' = held \o w /\ shown' = shown
    <3>1. PICK v : v = held \o w
      OBVIOUS
    <3>2. /\ Len(v) = n + o /\ \A k \in 1..n : v[k] = held[k]
          /\ \A k \in (n + 1)..(n + o) : k - n \in 1..o /\ v[k] = w[k - n]
      BY <1>6, <1>9, <1>10, <3>1
    <3>3. ASSUME NEW c
          PROVE  /\ \A k \in 0..n : After(v, k, c) <=> After(held, k, c) \/ In(w, c)
                 /\ \A k \in 0..o : After(v, n + k, c) <=> After(w, k, c)
      BY <1>6, <1>9, <2>4, <3>1
    <3>4. ASSUME NEW k \in 0..n, NEW c, Waiting(k, c) PROVE Waiting(k, c)'
      BY <1>13, <2>6, <3>1, <3>3, <3>4 DEF Waiting
    <3>5. ASSUME NEW k \in 1..(n + o), NEW c \in 1..a, c = v[k] + 1 PROVE Waiting(k, c)'
      <4>1. CASE k \in 1..n
        <5>1. Waiting(k, c) /\ k \in 0..n
          BY <2>5, <3>2, <3>5, <4>1
        <5>2. QED
          BY <3>4, <5>1
      <4>2. CASE k \in (n + 1)..(n + o)
        <5>1. PICK j \in 1..o : k = n + j /\ v[k] = w[j]
          <6>1. k - n \in 1..o /\ k = n + (k - n) /\ v[k] = w[k - n]
            BY <1>9, <3>2, <4>2
          <6>2. QED
            BY <6>1
        <5>2. After(w, j, c) \/ OnWay(1, c)'
          BY <2>3, <3>5, <5>1
        <5>3. After(v, k, c) <=> After(w, j, c)
          <6>1. j \in 0..o
            BY <1>9, <5>1
          <6>2. QED
            BY <3>3, <5>1, <6>1
        <5>4. QED
          BY <2>6, <3>1, <5>2, <5>3 DEF Waiting
      <4>3. QED
        BY <1>9, <3>5, <4>1, <4>2
    <3>6. HeldFollows'
      BY <1>1, <2>6, <3>1, <3>2, <3>5 DEF HeldFollows
    <3>7. ASSUME NEW k, NEW c, Drawn(k, c) PROVE Drawn(k, c)'
      <4>1. 0 \in 0..n
        BY <1>9
      <4>2. QED
        BY <2>6, <3>4, <3>7, <4>1 DEF Drawn
    <3>8. ShownFollows'
      BY <1>1, <1>9, <2>5, <2>6, <3>7 DEF ShownFollows
    <3>9. AllThere'
      BY <1>1, <1>4, <2>5, <3>7 DEF AllThere
    <3>10. QED
      BY <2>2, <3>6, <3>8, <3>9 DEF Follows
  <2>7. CASE held = <<>> /\ held' = <<>> /\ shown' = shown \o w
    <3>1. PICK v : v = shown \o w
      OBVIOUS
    <3>2. /\ Len(v) = m + o /\ \A k \in 1..m : v[k] = shown[k]
          /\ \A k \in (m + 1)..(m + o) : k - m \in 1..o /\ v[k] = w[k - m]
      BY <1>6, <1>9, <1>10, <3>1
    <3>3. ASSUME NEW c
          PROVE  /\ \A k \in 0..m : After(v, k, c) <=> After(shown, k, c) \/ In(w, c)
                 /\ \A k \in 0..o : After(v, m + k, c) <=> After(w, k, c)
      BY <1>6, <1>9, <2>4, <3>1
    <3>4. ASSUME NEW k, NEW c
          PROVE  /\ Drawn(k, c) <=> After(shown, k, c) \/ OnWay(1, c)
                 /\ Drawn(k, c)' <=> After(v, k, c) \/ OnWay(1, c)'
      BY <2>7, <3>1, NoneOfNothing DEF Drawn, Waiting
    <3>5. ASSUME NEW k \in 0..m, NEW c, Drawn(k, c) PROVE Drawn(k, c)'
      BY <1>13, <3>3, <3>4, <3>5
    <3>6. ASSUME NEW k \in 1..(m + o), NEW c \in 1..a, c = v[k] + 1 PROVE Drawn(k, c)'
      <4>1. CASE k \in 1..m
        <5>1. Drawn(k, c) /\ k \in 0..m
          BY <2>5, <3>2, <3>6, <4>1
        <5>2. QED
          BY <3>5, <5>1
      <4>2. CASE k \in (m + 1)..(m + o)
        <5>1. PICK j \in 1..o : k = m + j /\ v[k] = w[j]
          <6>1. k - m \in 1..o /\ k = m + (k - m) /\ v[k] = w[k - m]
            BY <1>9, <3>2, <4>2
          <6>2. QED
            BY <6>1
        <5>2. After(w, j, c) \/ OnWay(1, c)'
          BY <2>3, <3>6, <5>1
        <5>3. After(v, k, c) <=> After(w, j, c)
          <6>1. j \in 0..o
            BY <1>9, <5>1
          <6>2. QED
            BY <3>3, <5>1, <6>1
        <5>4. QED
          BY <3>4, <5>2, <5>3
      <4>3. QED
        BY <1>9, <3>6, <4>1, <4>2
    <3>7. HeldFollows'
      BY <2>7 DEF HeldFollows
    <3>8. ShownFollows'
      BY <1>1, <2>7, <3>1, <3>2, <3>6 DEF ShownFollows
    <3>9. AllThere'
      <4>1. 0 \in 0..m
        BY <1>9
      <4>2. QED
        BY <1>1, <1>4, <2>5, <3>5, <4>1 DEF AllThere
    <3>10. QED
      BY <2>2, <3>7, <3>8, <3>9 DEF Follows
  <2>8. QED
    BY <1>5, <2>6, <2>7
<1>15. QED
  BY <1>12, <1>14 DEF OInv

-----------------------------------------------------------------------------
(* Places of the stream                                                    *)

(* At a place of the stream there is a chunk.                              *)
Seen(p, i, k, c) == /\ p \in 1..6 /\ i \in 1..Len(Stream[p]) /\ k \in 1..Len(Stream[p][i])
                    /\ Stream[p][i][k] = c

(* What the stream consists of.                                            *)
LEMMA StreamIs ==
  ASSUME Typed
  PROVE  /\ Stream[1] = <<shown>> /\ Stream[2] = <<held>>
         /\ Stream[4] = <<IF lagged THEN get_output_snapshot.what ELSE <<>>>>
         /\ Stream[6] = <<IF unsent = None THEN <<>> ELSE <<unsent>>>>
         /\ Len(Stream[3]) = Len(inbox) /\ Len(Stream[5]) = Len(receiver)
         /\ \A i \in 1..Len(inbox) : Stream[3][i] = ChunksOf(inbox[i])
         /\ \A i \in 1..Len(receiver) : Stream[5][i] = ChunksOf(receiver[i])
<1>1. inbox \in Seq(Messages) /\ receiver \in Seq(Messages)
  BY DEF Typed
<1>2. PICK in, copy : /\ in = [i \in 1..Len(inbox) |-> ChunksOf(inbox[i])]
                      /\ copy = [i \in 1..Len(receiver) |-> ChunksOf(receiver[i])]
  OBVIOUS
<1>3. Len(in) = Len(inbox) /\ Len(copy) = Len(receiver)
  BY <1>1, <1>2
<1>4. Stream[3] = in /\ Stream[5] = copy
  BY <1>2 DEF Stream
<1>5. /\ Stream[1] = <<shown>> /\ Stream[2] = <<held>>
      /\ Stream[4] = <<IF lagged THEN get_output_snapshot.what ELSE <<>>>>
      /\ Stream[6] = <<IF unsent = None THEN <<>> ELSE <<unsent>>>>
  BY DEF Stream
<1>6. QED
  BY <1>2, <1>3, <1>4, <1>5

(* What is sent again is the history, one chunk after the other.           *)
LEMMA Again ==
  ASSUME Typed, NEW k, NEW c
  PROVE  Seen(4, 1, k, c) <=> lagged /\ k \in 1..(latest + 1 - first) /\ c = first + k - 1
<1>1. PICK a \in Nat, b \in Nat : a = latest /\ b = first /\ b <= a + 1
  BY DEF Typed
<1>2. PICK s : s = [i \in 1..(a + 1 - b) |-> b + i - 1]
  OBVIOUS
<1>3. get_output_snapshot.what = s
  BY <1>1, <1>2 DEF get_output_snapshot, Output, Event
<1>4. Len(s) = a + 1 - b /\ \A i \in 1..(a + 1 - b) : s[i] = b + i - 1
  <2>1. a + 1 - b \in Nat
    BY <1>1
  <2>2. QED
    BY <1>2, <2>1
<1>5. Seen(4, 1, k, c) <=> k \in 1..Len(Stream[4][1]) /\ Stream[4][1][k] = c
  BY StreamIs DEF Seen
<1>6. CASE lagged
  <2>1. Stream[4][1] = s
    BY <1>3, <1>6, StreamIs
  <2>2. QED
    BY <1>1, <1>4, <1>5, <1>6, <2>1
<1>7. CASE ~lagged
  <2>1. Stream[4][1] = <<>>
    BY <1>7, StreamIs
  <2>2. QED
    BY <1>5, <1>7, <2>1
<1>8. QED
  BY <1>6, <1>7

(* What is still to come has a place, and not an earlier one.              *)
LEMMA PlaceOfCopy ==
  ASSUME Typed, NEW c, c # None, NEW i \in Nat, i > 0, Copy(i, c)
  PROVE  \E p, j, l : Seen(p, j, l, c) /\ (p = 6 \/ (p = 5 /\ j \in Nat /\ j >= i))
<1>1. CASE unsent = c
  <2>1. Stream[6] = <<<<c>>>>
    BY <1>1, StreamIs
  <2>2. Seen(6, 1, 1, c)
    BY <2>1 DEF Seen
  <2>3. QED
    BY <2>2
<1>2. CASE Among(receiver, i, c)
  <2>1. PICK j \in i..Len(receiver) : In(ChunksOf(receiver[j]), c)
    BY <1>2 DEF Among
  <2>2. PICK l \in 1..Len(ChunksOf(receiver[j])) : ChunksOf(receiver[j])[l] = c
    BY <2>1 DEF In
  <2>3. j \in 1..Len(receiver) /\ j \in Nat /\ j >= i
    <3>1. Len(receiver) \in Nat
      BY DEF Typed
    <3>2. QED
      BY <2>1, <3>1
  <2>4. Seen(5, j, l, c)
    BY <2>2, <2>3, StreamIs DEF Seen
  <2>5. QED
    BY <2>3, <2>4
<1>3. QED
  BY <1>1, <1>2 DEF Copy

(* A chunk that is still coming has a place in the stream.                 *)
LEMMA PlaceOfComing ==
  ASSUME Typed, NEW c \in Nat, c # None, Coming(c)
  PROVE  \E p, j, l : Seen(p, j, l, c) /\ p \in {4, 5, 6}
<1>1. CASE Copy(1, c)
  BY <1>1, PlaceOfCopy
<1>2. CASE lagged /\ c \in first..latest
  <2>1. c - first + 1 \in 1..(latest + 1 - first) /\ first + (c - first + 1) - 1 = c
    BY <1>2 DEF Typed
  <2>2. Seen(4, 1, c - first + 1, c)
    BY <1>2, <2>1, Again
  <2>3. QED
    BY <2>2
<1>3. QED
  BY <1>1, <1>2 DEF Coming

(* So has one on its way, at its message or later.                         *)
LEMMA PlaceOnWay ==
  ASSUME Typed, NEW c \in Nat, c # None, NEW i \in Nat, i > 0, OnWay(i, c)
  PROVE  \E p, j, l : Seen(p, j, l, c) /\ (p \in {4, 5, 6} \/ (p = 3 /\ j \in Nat /\ j >= i))
<1>1. CASE Coming(c)
  BY <1>1, PlaceOfComing
<1>2. CASE Among(inbox, i, c)
  <2>1. PICK j \in i..Len(inbox) : In(ChunksOf(inbox[j]), c)
    BY <1>2 DEF Among
  <2>2. PICK l \in 1..Len(ChunksOf(inbox[j])) : ChunksOf(inbox[j])[l] = c
    BY <2>1 DEF In
  <2>3. j \in 1..Len(inbox) /\ j \in Nat /\ j >= i
    <3>1. Len(inbox) \in Nat
      BY DEF Typed
    <3>2. QED
      BY <2>1, <3>1
  <2>4. Seen(3, j, l, c)
    BY <2>2, <2>3, StreamIs DEF Seen
  <2>5. QED
    BY <2>3, <2>4
<1>3. QED
  BY <1>1, <1>2 DEF OnWay

(* So has one that waits, behind what is kept back before it.              *)
LEMMA PlaceOfWaiting ==
  ASSUME Typed, Shapes, NEW c \in Nat, c # None, NEW k \in Nat, Waiting(k, c)
  PROVE  \E p, j, l : Seen(p, j, l, c) /\ (p \in 3..6 \/ (p = 2 /\ j = 1 /\ l \in Nat /\ l > k))
<1>1. CASE OnWay(1, c)
  BY <1>1, PlaceOnWay
<1>2. CASE After(held, k, c)
  <2>1. PICK n \in Nat : n = Len(held)
    BY DEF Shapes, Numbered
  <2>2. PICK l \in (k + 1)..n : held[l] = c
    BY <1>2, <2>1 DEF After
  <2>3. l \in 1..n /\ l > k /\ l \in Nat
    BY <2>1
  <2>4. Seen(2, 1, l, c)
    <3>1. Stream[2] = <<held>>
      BY StreamIs
    <3>2. Len(Stream[2]) = 1 /\ Stream[2][1] = held
      BY <3>1
    <3>3. QED
      BY <2>1, <2>2, <2>3, <3>2 DEF Seen
  <2>5. QED
    BY <2>3, <2>4
<1>3. QED
  BY <1>1, <1>2 DEF Waiting

(* So has one that is shown, behind what is shown before it.               *)
LEMMA PlaceOfDrawn ==
  ASSUME Typed, Shapes, NEW c \in Nat, c # None, NEW k \in Nat, Drawn(k, c)
  PROVE  \E p, j, l : Seen(p, j, l, c) /\ (p \in 2..6 \/ (p = 1 /\ j = 1 /\ l \in Nat /\ l > k))
<1>1. CASE Waiting(0, c)
  BY <1>1, PlaceOfWaiting
<1>2. CASE After(shown, k, c)
  <2>1. PICK n \in Nat : n = Len(shown)
    BY DEF Shapes, Numbered
  <2>2. PICK l \in (k + 1)..n : shown[l] = c
    BY <1>2, <2>1 DEF After
  <2>3. l \in 1..n /\ l > k /\ l \in Nat
    BY <2>1
  <2>4. Seen(1, 1, l, c)
    <3>1. Stream[1] = <<shown>>
      BY StreamIs
    <3>2. Len(Stream[1]) = 1 /\ Stream[1][1] = shown
      BY <3>1
    <3>3. QED
      BY <2>1, <2>2, <2>3, <3>2 DEF Seen
  <2>5. QED
    BY <2>3, <2>4
<1>3. QED
  BY <1>1, <1>2 DEF Drawn

(* Each chunk of the stream is a chunk of the terminal, and what follows it *)
(* has a later place.                                                      *)
LEMMA NextIsLater ==
  ASSUME WellFormed, Typed, OInv, Intact,
         NEW p, NEW i, NEW k, NEW c, Seen(p, i, k, c), c # latest
  PROVE  \E q, j, l : Seen(q, j, l, c + 1) /\ Before(<<p, i, k>>, <<q, j, l>>)
<1>1. PICK a \in Nat, b \in Nat : a = latest /\ b = first /\ b >= 1 /\ b <= a + 1
  BY DEF Typed
<1>2. Shapes /\ CopyFollows /\ InboxFollows /\ HeldFollows /\ ShownFollows
  BY DEF OInv, Follows
<1>3. inbox \in Seq(Messages) /\ receiver \in Seq(Messages) /\ None \notin Nat
  BY DEF Typed, WellFormed
<1>4. ASSUME NEW q, NEW j, NEW l, Seen(q, j, l, c + 1), q \in Nat, p \in Nat,
             \/ p < q \/ (p = q /\ i < j) \/ (p = q /\ i = j /\ k < l)
      PROVE  \E r, m, n : Seen(r, m, n, c + 1) /\ Before(<<p, i, k>>, <<r, m, n>>)
  BY <1>4 DEF Before
<1>5. CASE p = 1
  <2>1. i = 1 /\ k \in 1..Len(shown) /\ shown[k] = c
    BY <1>5, StreamIs DEF Seen
  <2>2. k \in Nat /\ c \in 1..a
    BY <1>1, <1>2, <2>1 DEF Shapes, Numbered
  <2>3. c + 1 \in 1..a /\ c + 1 \in Nat /\ c + 1 # None
    BY <1>1, <1>3, <2>2
  <2>4. Drawn(k, c + 1)
    BY <1>1, <1>2, <2>1, <2>3 DEF ShownFollows
  <2>5. PICK q, j, l : /\ Seen(q, j, l, c + 1)
                       /\ q \in 2..6 \/ (q = 1 /\ j = 1 /\ l \in Nat /\ l > k)
    BY <1>2, <2>2, <2>3, <2>4, PlaceOfDrawn
  <2>6. q \in Nat /\ (p < q \/ (p = q /\ i = j /\ k < l))
    BY <1>5, <2>1, <2>2, <2>5
  <2>7. QED
    BY <1>4, <1>5, <2>5, <2>6
<1>6. CASE p = 2
  <2>1. i = 1 /\ k \in 1..Len(held) /\ held[k] = c
    BY <1>6, StreamIs DEF Seen
  <2>2. k \in Nat /\ c \in 1..a
    BY <1>1, <1>2, <2>1 DEF Shapes, Numbered
  <2>3. c + 1 \in 1..a /\ c + 1 \in Nat /\ c + 1 # None
    BY <1>1, <1>3, <2>2
  <2>4. Waiting(k, c + 1)
    BY <1>1, <1>2, <2>1, <2>3 DEF HeldFollows
  <2>5. PICK q, j, l : /\ Seen(q, j, l, c + 1)
                       /\ q \in 3..6 \/ (q = 2 /\ j = 1 /\ l \in Nat /\ l > k)
    BY <1>2, <2>2, <2>3, <2>4, PlaceOfWaiting
  <2>6. q \in Nat /\ (p < q \/ (p = q /\ i = j /\ k < l))
    BY <1>6, <2>1, <2>2, <2>5
  <2>7. QED
    BY <1>4, <1>6, <2>5, <2>6
<1>7. CASE p = 3
  <2>1. i \in 1..Len(inbox) /\ i \in Nat /\ i > 0
    BY <1>3, <1>7, StreamIs DEF Seen
  <2>2. PICK e \in Messages : e = inbox[i]
    BY <1>3, <2>1
  <2>3. k \in 1..Len(ChunksOf(e)) /\ ChunksOf(e)[k] = c /\ Fit(e, a)
    BY <1>1, <1>2, <1>7, <2>1, <2>2, StreamIs DEF Seen, Shapes, Fits
  <2>4. c \in 1..a /\ In(ChunksOf(inbox[i]), c)
    BY <2>2, <2>3 DEF Fit, In
  <2>5. c < a /\ c + 1 \in Nat /\ c + 1 # None
    BY <1>1, <1>3, <2>4
  <2>6. OnWay(i, c + 1)
    BY <1>1, <1>2, <2>1, <2>4, <2>5 DEF InboxFollows
  <2>7. PICK q, j, l : /\ Seen(q, j, l, c + 1)
                       /\ q \in {4, 5, 6} \/ (q = 3 /\ j \in Nat /\ j >= i)
    BY <2>1, <2>5, <2>6, PlaceOnWay
  <2>8. CASE q = 3 /\ j = i
    <3>1. l \in 1..Len(ChunksOf(e)) /\ ChunksOf(e)[l] = c + 1
      BY <2>1, <2>2, <2>7, <2>8, StreamIs DEF Seen
    <3>2. l = k + 1
      BY <2>3, <3>1, NextInEvent
    <3>3. Len(ChunksOf(e)) \in Nat
      BY <2>2, ChunksType
    <3>4. k < l
      BY <2>3, <3>2, <3>3
    <3>5. QED
      BY <1>4, <1>7, <2>7, <2>8, <3>4
  <2>9. CASE ~(q = 3 /\ j = i)
    <3>1. q \in Nat /\ (p < q \/ (p = q /\ i < j))
      BY <1>7, <2>1, <2>7, <2>9
    <3>2. QED
      BY <1>4, <1>7, <2>7, <3>1
  <2>10. QED
    BY <2>8, <2>9
<1>8. CASE p = 4
  <2>1. i = 1
    BY <1>8, StreamIs DEF Seen
  <2>2. lagged /\ k \in 1..(a + 1 - b) /\ c = b + k - 1
    BY <1>1, <1>8, <2>1, Again
  <2>3. k + 1 \in 1..(a + 1 - b) /\ c + 1 = b + (k + 1) - 1 /\ k < k + 1
    BY <1>1, <2>2
  <2>4. Seen(4, 1, k + 1, c + 1)
    BY <1>1, <2>2, <2>3, Again
  <2>5. QED
    BY <1>4, <1>8, <2>1, <2>3, <2>4
<1>9. CASE p = 5
  <2>1. i \in 1..Len(receiver) /\ i \in Nat /\ i > 0
    BY <1>3, <1>9, StreamIs DEF Seen
  <2>2. PICK e \in Messages : e = receiver[i]
    BY <1>3, <2>1
  <2>3. k \in 1..Len(ChunksOf(e)) /\ ChunksOf(e)[k] = c /\ Fit(e, a)
    BY <1>1, <1>2, <1>9, <2>1, <2>2, StreamIs DEF Seen, Shapes, Fits
  <2>4. c \in 1..a /\ In(ChunksOf(receiver[i]), c)
    BY <2>2, <2>3 DEF Fit, In
  <2>5. c < a /\ c + 1 \in Nat /\ c + 1 # None
    BY <1>1, <1>3, <2>4
  <2>6. Copy(i, c + 1)
    BY <1>1, <1>2, <2>1, <2>4, <2>5 DEF CopyFollows
  <2>7. PICK q, j, l : /\ Seen(q, j, l, c + 1)
                       /\ q = 6 \/ (q = 5 /\ j \in Nat /\ j >= i)
    BY <2>1, <2>5, <2>6, PlaceOfCopy
  <2>8. CASE q = 5 /\ j = i
    <3>1. l \in 1..Len(ChunksOf(e)) /\ ChunksOf(e)[l] = c + 1
      BY <2>1, <2>2, <2>7, <2>8, StreamIs DEF Seen
    <3>2. l = k + 1
      BY <2>3, <3>1, NextInEvent
    <3>3. Len(ChunksOf(e)) \in Nat
      BY <2>2, ChunksType
    <3>4. k < l
      BY <2>3, <3>2, <3>3
    <3>5. QED
      BY <1>4, <1>9, <2>7, <2>8, <3>4
  <2>9. CASE ~(q = 5 /\ j = i)
    <3>1. q \in Nat /\ (p < q \/ (p = q /\ i < j))
      BY <1>9, <2>1, <2>7, <2>9
    <3>2. QED
      BY <1>4, <1>9, <2>7, <3>1
  <2>10. QED
    BY <2>8, <2>9
<1>10. CASE p = 6
  <2>1. i = 1
    BY <1>10, StreamIs DEF Seen
  <2>2. unsent # None /\ c = unsent
    BY <1>10, <2>1, StreamIs DEF Seen
  <2>3. QED
    BY <1>2, <2>2 DEF Shapes
<1>11. p \in 1..6
  BY DEF Seen
<1>12. QED
  BY <1>5, <1>6, <1>7, <1>8, <1>9, <1>10, <1>11

-----------------------------------------------------------------------------
(* Theorems                                                                *)

(* The prompt is sound, and only requests are on their way to it.          *)
THEOREM Inductive == WellFormed => (Spec => []IInv)
<1> SUFFICES ASSUME WellFormed PROVE Spec => []IInv
  OBVIOUS
<1>1. Init => IInv
  BY InitHolds
<1>2. IInv /\ [Next]_vars => IInv'
  <2>1. ASSUME IInv, Next PROVE IInv'
    BY <2>1, ServerStep, SocketStep, TakeStep, EndStep, KeyStep, AnswerStep DEF Next
  <2>2. ASSUME IInv, UNCHANGED vars PROVE IInv'
    <3>1. UNCHANGED programVars /\ Typed'
      BY <2>2 DEF vars, serverVars, programVars, IInv, Typed
    <3>2. QED
      BY <2>2, <3>1, ProgramFrame
  <2>3. QED
    BY <2>1, <2>2
<1>3. QED
  BY <1>1, <1>2, PTL DEF Spec

(* Whatever is announced, answered elsewhere, typed and submitted, in any   *)
(* order and however often, the parts of the prompt belong together: no     *)
(* selection, queue or output kept back is left without its request, the    *)
(* cursor is on a line, no request is shown twice and no rule is made of a  *)
(* prefix nobody chose (cli_approval.rs).                                  *)
THEOREM PromptHoldsTogetherAlways == WellFormed => (Spec => []PromptHoldsTogether)
<1> SUFFICES ASSUME WellFormed PROVE Spec => []PromptHoldsTogether
  OBVIOUS
<1>1. ASSUME IInv PROVE PromptHoldsTogether
  <2> DEFINE all == IF prompt.active = None THEN prompt.queue ELSE <<prompt.active>> \o prompt.queue
  <2>1. Sound(prompt) /\ Kept /\ PrefixIsPicked
    BY <1>1 DEF IInv
  <2>2. \A i, j \in 1..Len(all) : all[i] = all[j] => i = j
    <3>1. CASE prompt.active = None
      BY <2>1, <3>1 DEF Sound
    <3>2. CASE prompt.active # None
      <4>1. PICK n \in Nat : n = Len(prompt.queue)
        BY <2>1 DEF Sound
      <4>2. /\ Len(all) = n + 1 /\ all[1] = prompt.active
            /\ \A i \in 2..(n + 1) : all[i] = prompt.queue[i - 1] /\ i - 1 \in 1..n
        BY <2>1, <3>2, <4>1 DEF Sound
      <4> HIDE DEF all
      <4>3. /\ \A i, j \in 1..n : prompt.queue[i] = prompt.queue[j] => i = j
            /\ \A i \in 1..n : prompt.queue[i] # prompt.active
        BY <2>1, <4>1 DEF Sound
      <4>4. ASSUME NEW i \in 1..(n + 1), NEW j \in 1..(n + 1), all[i] = all[j] PROVE i = j
        <5>1. CASE i = 1 /\ j # 1
          BY <4>2, <4>3, <4>4, <5>1
        <5>2. CASE i # 1 /\ j = 1
          BY <4>2, <4>3, <4>4, <5>2
        <5>3. CASE i # 1 /\ j # 1
          <6>1. prompt.queue[i - 1] = prompt.queue[j - 1] /\ i - 1 \in 1..n /\ j - 1 \in 1..n
            <7>1. i \in 2..(n + 1) /\ j \in 2..(n + 1)
              BY <5>3
            <7>2. QED
              BY <4>2, <4>4, <7>1
          <6>2. i - 1 = j - 1
            BY <4>3, <6>1
          <6>3. QED
            BY <6>2
        <5>4. QED
          BY <5>1, <5>2, <5>3
      <4>5. QED
        BY <4>2, <4>4
    <3>3. QED
      BY <3>1, <3>2
  <2>3. QED
    BY <2>1, <2>2 DEF PromptHoldsTogether, Sound, Kept, PrefixIsPicked, has_pending
<1>2. QED
  BY <1>1, Inductive, PTL
(* What is seen and still to come is in order, and where the socket fell    *)
(* behind it is sent all of it again.                                      *)
THEOREM InductiveOrder == WellFormed => (Spec => []OInv)
<1> SUFFICES ASSUME WellFormed PROVE Spec => []OInv
  OBVIOUS
<1>1. Init => OInv
  <2> SUFFICES ASSUME Init PROVE OInv
    OBVIOUS
  <2>1. /\ unsent = None /\ latest = 0 /\ shown = <<>> /\ held = <<>> /\ inbox = <<>>
        /\ receiver = <<>> /\ ~lagged /\ socket = "closed" /\ ~whole
    BY DEF Init
  <2>2. Shapes
    BY <2>1 DEF Shapes, Numbered, Fits
  <2>3. CopyFollows /\ ~Intact
    BY <2>1 DEF CopyFollows, Intact
  <2>4. QED
    BY <2>2, <2>3 DEF OInv
<1>2. IInv /\ IInv' /\ OInv /\ [Next]_vars => OInv'
  <2> SUFFICES ASSUME IInv, IInv', OInv, [Next]_vars PROVE OInv'
    OBVIOUS
  <2>1. Typed /\ Typed' /\ Kept
    BY DEF IInv
  <2>2. CASE append
    BY <2>1, <2>2, AppendOrder
  <2>3. CASE \/ flush_terminal_output \/ stream_terminal_output
             \/ \E kind \in {"output", "ready", "closed"} : Stranger(kind)
             \/ \E r \in Requests : publish_approval_request(r) \/ ResolvedElsewhere(r)
    BY <2>1, <2>3, ServerOrder
  <2>4. CASE handle_attach
    BY <2>1, <2>4, AttachOrder
  <2>5. CASE attach_snapshot \/ forward_lagged
    BY <2>1, <2>5, SnapshotOrder
  <2>6. CASE forward
    BY <2>1, <2>6, ForwardOrder
  <2>7. CASE attach_session
    BY <2>7, StartOrder
  <2>8. CASE ReceiveOutput
    BY <2>1, <2>8, OutputOrder
  <2>9. CASE message_marks_terminal_ready \/ ReceiveApproval
    BY <2>1, <2>9, NoticeOrder
  <2>10. CASE SessionClosed \/ UserDetached
    BY <2>10, LeaveOrder DEF SessionClosed, UserDetached
  <2>11. CASE \E key \in Keys : \/ Navigate(key) \/ open_prefix_selection(key)
                                \/ SubmitChoice(key) \/ handle_prefix_selection_input(key)
    BY <2>1, <2>11, KeyOrder
  <2>12. CASE resolve_request
    BY <2>1, <2>12, AnswerOrder
  <2>13. CASE UNCHANGED vars
    <3>1. /\ UNCHANGED <<latest, first, unsent, receiver, lagged, inbox, socket, program, shown,
                         held, whole, torn>>
      BY <2>13 DEF vars, serverVars, programVars
    <3>2. InboxIsKept /\ ScreenIsKept
      BY <3>1 DEF InboxIsKept, ScreenIsKept
    <3>3. Intact' => Intact
      BY <3>1 DEF Intact
    <3>4. socket' = "closed" => receiver' = <<>> /\ ~lagged'
      BY <3>1 DEF OInv, Shapes
    <3>5. QED
      BY <2>1, <3>1, <3>2, <3>3, <3>4, Untouched, Settled
  <2>14. QED
    BY <2>2, <2>3, <2>4, <2>5, <2>6, <2>7, <2>8, <2>9, <2>10, <2>11, <2>12, <2>13 DEF Next
<1>3. QED
  BY <1>1, <1>2, Inductive, PTL DEF Spec

(* What an attached program has written, has kept back and will still      *)
(* receive is the output of the terminal, in order and without a hole,     *)
(* from the snapshot to the newest chunk, although the snapshot crosses    *)
(* the events it contains, the socket falls behind and is sent all of it    *)
(* again, and the prompt keeps output back (api/ws.rs, bin/sirix.rs).       *)
THEOREM OutputInOrderAlways == WellFormed => (Spec => []OutputInOrder)
<1> SUFFICES ASSUME WellFormed PROVE Spec => []OutputInOrder
  OBVIOUS
<1>1. ASSUME IInv, OInv PROVE OutputInOrder
  <2> SUFFICES ASSUME socket = "streaming", alive, ~torn, lagged => ~history_truncated
               PROVE  LET stream == Stream
                          places == Places(stream)
                          Chunk(x) == stream[x[1]][x[2]][x[3]]
                      IN  /\ whole => \A c \in 1..latest : \E x \in places : Chunk(x) = c
                          /\ \A x \in places : Chunk(x) # latest =>
                               \E y \in places : Before(x, y) /\ Chunk(y) = Chunk(x) + 1
    BY DEF OutputInOrder
  <2>1. Typed
    BY <1>1 DEF IInv
  <2>2. Intact
    BY <2>1 DEF Typed, Intact, history_truncated
  <2>3. ASSUME NEW p, NEW i, NEW k, NEW c, Seen(p, i, k, c)
        PROVE  <<p, i, k>> \in Places(Stream)
    <3>1. p \in 1..6 /\ i \in 1..Len(Stream[p]) /\ k \in 1..Len(Stream[p][i])
      BY <2>3 DEF Seen
    <3>2. <<p, i, k>> \in {<<p, i, l>> : l \in 1..Len(Stream[p][i])}
      BY <3>1
    <3>3. <<p, i, k>> \in UNION {{<<p, j, l>> : l \in 1..Len(Stream[p][j])}
                                : j \in 1..Len(Stream[p])}
      BY <3>1, <3>2
    <3>4. QED
      BY <3>1, <3>3 DEF Places
  <2>4. ASSUME NEW x \in Places(Stream)
        PROVE  \E p, i, k : x = <<p, i, k>> /\ Seen(p, i, k, Stream[p][i][k])
    BY <2>4 DEF Seen, Places
  <2>5. ASSUME whole, NEW c \in 1..latest
        PROVE  \E x \in Places(Stream) : Stream[x[1]][x[2]][x[3]] = c
    <3>1. Drawn(0, c) /\ Shapes
      BY <1>1, <2>2, <2>5 DEF OInv, Follows, AllThere
    <3>2. c \in Nat /\ c # None
      BY <2>1 DEF Typed, WellFormed
    <3>3. PICK p, i, k : Seen(p, i, k, c)
      BY <2>1, <3>1, <3>2, PlaceOfDrawn
    <3>4. <<p, i, k>> \in Places(Stream) /\ Stream[p][i][k] = c
      BY <2>3, <3>3 DEF Seen
    <3>5. QED
      BY <3>4
  <2>6. ASSUME NEW x \in Places(Stream), Stream[x[1]][x[2]][x[3]] # latest
        PROVE  \E y \in Places(Stream) :
                 Before(x, y) /\ Stream[y[1]][y[2]][y[3]] = Stream[x[1]][x[2]][x[3]] + 1
    <3>1. PICK p, i, k : x = <<p, i, k>> /\ Seen(p, i, k, Stream[p][i][k])
      BY <2>4
    <3>2. PICK c : c = Stream[p][i][k]
      OBVIOUS
    <3>3. c = Stream[x[1]][x[2]][x[3]]
      BY <3>1, <3>2
    <3>4. PICK q, j, l : Seen(q, j, l, c + 1) /\ Before(x, <<q, j, l>>)
      BY <1>1, <2>1, <2>2, <2>6, <3>1, <3>2, <3>3, NextIsLater
    <3>5. <<q, j, l>> \in Places(Stream) /\ Stream[q][j][l] = c + 1
      BY <2>3, <3>4 DEF Seen
    <3>6. QED
      BY <3>3, <3>4, <3>5
  <2>7. QED
    BY <2>5, <2>6
<1>2. QED
  BY <1>1, Inductive, InductiveOrder, PTL
=============================================================================
