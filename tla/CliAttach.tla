------------------------------- MODULE CliAttach -------------------------------
(***************************************************************************)
(* A terminal shown in the system's terminal: the raw stream of the desktop *)
(* server and the programs `sirix` and `sirix-terminal` that attach to it,  *)
(* with the approval prompt both draw over it (desktop-server bin/sirix.rs, *)
(* bin/sirix-terminal.rs, cli_approval.rs, api/ws.rs, terminal/manager.rs). *)
(*                                                                         *)
(* Output is numbered by its chunks. The server numbers and keeps a chunk,  *)
(* then sends it to the subscribers of its events; a socket reads its own   *)
(* copy, which overflows, and filters it once the attachment was handled.   *)
(* The program is one loop; while it waits for the answer to a submitted    *)
(* approval it reads nothing. Bytes typed into the terminal, resizes and    *)
(* the drawing of the prompt are left out.                                 *)
(***************************************************************************)
EXTENDS Naturals, Sequences, FiniteSets, SequencesExt

CONSTANTS Requests, None,
          Shell,         \* the requests that are about a shell command
          Scopes,        \* the supported scopes of a request, a sequence
          Candidates,      \* its candidate prefixes, a sequence
          Keys,          \* what the user types at the prompt
          Chunks,        \* bound: chunks of output
          Capacity,      \* events a subscriber can be behind
          ReplayCap,     \* chunks the server keeps
          MaxStrangers,  \* bound: events of other terminals
          MaxEchoes,     \* bound: requests announced once more
          MaxFailures    \* bound: submissions that fail

VARIABLES latest, first, unsent,     \* newest and oldest chunk kept, chunk still to be sent
          alive,                     \* the terminal has a handle
          requests,                  \* approvals: None, "pending", "resolved"
          socket,                    \* "closed", "open", "ready", "streaming"
          receiver, lagged,          \* the socket's copy of the events
          inbox,                     \* messages on their way to the program
          program, attached_once,    \* "off", "running", "submitting", "ended"
          prompt, submitted,         \* CliApprovalPrompt; the answer being submitted
          shown, held,               \* chunks written to the terminal, chunks buffered
          whole, torn,               \* history: the stream has a beginning, has a hole
          strangers, echoes, failures

serverVars == <<latest, first, unsent, alive>>
countVars == <<strangers, echoes, failures>>
programVars == <<program, attached_once, prompt, submitted, shown, held>>
vars == <<serverVars, requests, socket, receiver, lagged, inbox, programVars, whole, torn, countVars>>

history_truncated == first > 1

----------------------------------------------------------------------------
(* The events of the server                                                *)

Event(kind, own, what) == [kind |-> kind, own |-> own, what |-> what]
Output(chunks) == Event("output", TRUE, chunks)

(* A full copy loses its oldest event.                                     *)
Send(e) ==
  IF socket = "closed" THEN UNCHANGED <<receiver, lagged>>
  ELSE IF Len(receiver) < Capacity
         THEN receiver' = Append(receiver, e) /\ UNCHANGED lagged
         ELSE receiver' = Append(Tail(receiver), e) /\ lagged' = TRUE

get_output_snapshot == Output([i \in 1..(latest + 1 - first) |-> first + i - 1])

(* TerminalReplayBuffer::append, then the event of what was appended.       *)
append ==
  /\ alive /\ unsent = None /\ latest < Chunks
  /\ latest' = latest + 1 /\ unsent' = latest + 1
  /\ first' = IF latest + 1 - first < ReplayCap THEN first ELSE first + 1
  /\ UNCHANGED <<alive, requests, socket, receiver, lagged, inbox, programVars, whole, torn, countVars>>

flush_terminal_output ==
  /\ unsent # None
  /\ Send(Output(<<unsent>>)) /\ unsent' = None
  /\ UNCHANGED <<latest, first, alive, requests, socket, inbox, programVars, whole, torn, countVars>>

(* Another terminal has output, becomes ready or is closed.                *)
Stranger(kind) ==
  /\ strangers < MaxStrangers /\ socket # "closed"
  /\ strangers' = strangers + 1
  /\ Send(Event(kind, FALSE, <<>>))
  /\ UNCHANGED <<serverVars, requests, socket, inbox, programVars, whole, torn, echoes, failures>>

(* The terminal is closed, or its process has ended and was flushed.       *)
stream_terminal_output ==
  /\ alive /\ unsent = None
  /\ alive' = FALSE
  /\ Send(Event("closed", TRUE, <<>>))
  /\ UNCHANGED <<latest, first, unsent, requests, socket, inbox, programVars, whole, torn, countVars>>

(* A request is announced; the mirror may announce it again, even late.    *)
publish_approval_request(r) ==
  /\ \/ requests[r] = None /\ requests' = [requests EXCEPT ![r] = "pending"] /\ UNCHANGED echoes
     \/ /\ requests[r] # None /\ echoes < MaxEchoes
        /\ echoes' = echoes + 1 /\ UNCHANGED requests
  /\ Send(Event("request", TRUE, <<r>>))
  /\ UNCHANGED <<serverVars, socket, inbox, programVars, whole, torn, strangers, failures>>

(* resolve_approval for another endpoint.                                  *)
ResolvedElsewhere(r) ==
  /\ requests[r] = "pending"
  /\ requests' = [requests EXCEPT ![r] = "resolved"]
  /\ Send(Event("resolved", TRUE, <<r>>))
  /\ UNCHANGED <<serverVars, socket, inbox, programVars, whole, torn, countVars>>

----------------------------------------------------------------------------
(* The socket of the program at the server                                 *)

Reply(e) == inbox' = Append(inbox, e)

(* terminal.attach: from here on the socket filters. Between the messages   *)
(* ready and snapshot it reads no events, the terminal goes on.            *)
handle_attach ==
  /\ socket = "open"
  /\ IF alive THEN socket' = "ready" /\ Reply(Event("ready", TRUE, <<>>))
     ELSE socket' = "streaming" /\ Reply(Event("error", TRUE, <<>>))
  /\ UNCHANGED <<serverVars, requests, receiver, lagged, programVars, whole, torn, countVars>>

(* A snapshot of everything, or none: a truncated one is not sent.         *)
SendSnapshot ==
  IF alive /\ ~history_truncated
    THEN /\ inbox' = IF latest = 0 THEN inbox ELSE Append(inbox, get_output_snapshot)
         /\ whole' = TRUE /\ torn' = FALSE
    ELSE UNCHANGED <<inbox, whole, torn>>

attach_snapshot ==
  /\ socket = "ready"
  /\ socket' = "streaming"
  /\ SendSnapshot
  /\ UNCHANGED <<serverVars, requests, receiver, lagged, programVars, countVars>>

should_forward_to_raw_terminal_socket(e) == e.own

(* The next event; before the attachment was handled all of them pass.     *)
forward ==
  /\ socket \in {"open", "streaming"} /\ ~lagged /\ receiver # <<>>
  /\ receiver' = Tail(receiver)
  /\ inbox' = IF socket = "streaming" /\ ~should_forward_to_raw_terminal_socket(Head(receiver))
                THEN inbox ELSE Append(inbox, Head(receiver))
  /\ UNCHANGED <<serverVars, requests, socket, lagged, programVars, whole, torn, countVars>>

forward_lagged_on == \* Mutant: goes on with the next event.
  /\ socket \in {"open", "streaming"} /\ lagged
  /\ lagged' = FALSE /\ torn' = (torn \/ socket = "open" \/ history_truncated \/ ~alive)
  /\ UNCHANGED <<serverVars, requests, socket, receiver, inbox, programVars, whole, countVars>>

(* The socket learns that events were lost.                                *)
forward_lagged ==
  /\ socket \in {"open", "streaming"} /\ lagged
  /\ lagged' = FALSE
  /\ IF socket = "streaming" /\ alive /\ ~history_truncated
       THEN SendSnapshot
       ELSE torn' = TRUE /\ UNCHANGED <<inbox, whole>>
  /\ UNCHANGED <<serverVars, requests, socket, receiver, programVars, countVars>>

----------------------------------------------------------------------------
(* The approval prompt                                                     *)

NoPrompt == [active |-> None, queue |-> <<>>, prefix_selection |-> None, selected_idx |-> 0]
has_pending(p) == p.active # None

(* To allow and to deny, for each scope.                                   *)
choices(r) == [i \in 1..(2 * Len(Scopes[r])) |->
                 [decision |-> IF i % 2 = 1 THEN "allow" ELSE "deny",
                  scope |-> Scopes[r][(i + 1) \div 2]]]

requires_prefix_selection(r, choice) ==
  r \in Shell /\ choice.scope # "once" /\ Candidates[r] # <<>>

contains_request(p, r) == p.active = r \/ r \in ToSet(p.queue)

handle_request_event(p, r) ==
  IF contains_request(p, r) THEN p
  ELSE IF p.active = None THEN [p EXCEPT !.active = r, !.selected_idx = 0]
  ELSE [p EXCEPT !.queue = Append(@, r)]

finish_active_request_of_choice(p) == \* Mutant: a selection that was open stays open.
  [p EXCEPT !.active = IF p.queue = <<>> THEN None ELSE Head(p.queue),
            !.queue = IF p.queue = <<>> THEN <<>> ELSE Tail(p.queue),
            !.selected_idx = 0]

finish_active_request(p) ==
  [active |-> IF p.queue = <<>> THEN None ELSE Head(p.queue),
   queue |-> IF p.queue = <<>> THEN <<>> ELSE Tail(p.queue),
   prefix_selection |-> None, selected_idx |-> 0]

(* queue.retain, of a queue that holds a request once.                     *)
Retained(queue, r) ==
  IF r \in ToSet(queue) THEN RemoveAt(queue, CHOOSE i \in 1..Len(queue) : queue[i] = r) ELSE queue

handle_resolved_event(p, r) ==
  LET left == [p EXCEPT !.queue = Retained(@, r)] IN
  IF p.active = r THEN finish_active_request(left) ELSE left

(* How many lines the arrows move among.                                   *)
Lines(p) == IF p.prefix_selection # None THEN Len(Candidates[p.prefix_selection.request])
            ELSE Len(choices(p.active))

Digits == <<"1", "2", "3", "4", "5", "6", "7", "8", "9">>
DigitOf(key) == CHOOSE i \in 1..9 : Digits[i] = key
IsDigit(key) == key \in ToSet(Digits)
At(seq, i) == IF i \in 1..Len(seq) THEN seq[i] ELSE None

apply_navigation_input(p, key) ==
  [p EXCEPT !.selected_idx = IF key = "up" THEN (@ + Lines(p) - 1) % Lines(p)
                                           ELSE (@ + 1) % Lines(p)]

choice_from_shortcut(key, r) ==
  LET firstOf(P(_)) == At(SelectSeq(choices(r), P), 1)
      allow(scopes) == firstOf(LAMBDA c : c.decision = "allow" /\ c.scope \in scopes)
  IN CASE key = "y" -> allow({"once", "session"})
       [] key = "a" -> IF allow({"session"}) # None THEN allow({"session"})
                       ELSE firstOf(LAMBDA c : c.decision = "allow")
       [] key = "p" -> allow({"workspace"})
       [] key = "g" -> allow({"global"})
       [] key = "n" -> firstOf(LAMBDA c : c.decision = "deny")

choice_from_input(p, key) ==
  IF key = "enter" THEN At(choices(p.active), p.selected_idx + 1)
  ELSE IF key = "esc" THEN [decision |-> "deny", scope |-> "once"]
  ELSE IF key \in {"y", "a", "p", "g", "n"} THEN choice_from_shortcut(key, p.active)
  ELSE IF IsDigit(key) THEN At(choices(p.active), DigitOf(key))
  ELSE None

(* The prefix chosen in the second dialog.                                 *)
SelectedPrefix(p, key) ==
  LET prefixes == Candidates[p.prefix_selection.request] IN
  IF key = "enter" THEN At(prefixes, p.selected_idx + 1)
  ELSE IF IsDigit(key) THEN At(prefixes, DigitOf(key))
  ELSE None

prefix_for_scope(r, scope) ==
  IF r \notin Shell \/ scope = "once" THEN None ELSE At(Candidates[r], 1)

ResolveApprovalPayload(r, choice, prefix) ==
  [request |-> r, choice |-> choice,
   prefix |-> IF prefix # None THEN prefix ELSE prefix_for_scope(r, choice.scope),
   picked |-> prefix # None]

----------------------------------------------------------------------------
(* The program                                                             *)

Init == /\ latest = 0 /\ first = 1 /\ unsent = None /\ alive = TRUE
        /\ requests = [r \in Requests |-> None]
        /\ socket = "closed" /\ receiver = <<>> /\ lagged = FALSE /\ inbox = <<>>
        /\ program = "off" /\ attached_once = FALSE
        /\ prompt = NoPrompt /\ submitted = None /\ shown = <<>> /\ held = <<>>
        /\ whole = FALSE /\ torn = FALSE
        /\ strangers = 0 /\ echoes = 0 /\ failures = 0

(* attach_session connects and sends terminal.attach at once.              *)
attach_session ==
  /\ program = "off"
  /\ program' = "running" /\ socket' = "open"
  /\ UNCHANGED <<serverVars, requests, receiver, lagged, inbox, attached_once, prompt, submitted,
                 shown, held, whole, torn, countVars>>

Take(kinds) == /\ program = "running" /\ inbox # <<>> /\ Head(inbox).kind \in kinds
               /\ inbox' = Tail(inbox)

UnchangedByTaking == UNCHANGED <<serverVars, requests, socket, receiver, lagged, submitted,
                                 whole, torn, countVars>>

(* Output and snapshots, of whatever terminal: written, or kept back while  *)
(* the prompt is shown. A chunk of another terminal has no number here.     *)
ReceiveOutput ==
  /\ Take({"output"})
  /\ IF has_pending(prompt)
       THEN held' = held \o Head(inbox).what /\ UNCHANGED shown
       ELSE shown' = shown \o Head(inbox).what /\ UNCHANGED held
  /\ UNCHANGED <<program, attached_once, prompt>>
  /\ UnchangedByTaking

message_marks_terminal_ready ==
  /\ Take({"ready"})
  /\ attached_once' = TRUE
  /\ UNCHANGED <<program, prompt, shown, held>>
  /\ UnchangedByTaking

(* The prompt changes; what was kept back is written once it is gone.       *)
ShowPrompt(p) ==
  /\ prompt' = p
  /\ IF has_pending(prompt) /\ ~has_pending(p)
       THEN shown' = shown \o held /\ held' = <<>> ELSE UNCHANGED <<shown, held>>

ReceiveApproval ==
  /\ Take({"request", "resolved"})
  /\ ShowPrompt(IF Head(inbox).kind = "request"
                  THEN handle_request_event(prompt, Head(inbox).what[1])
                  ELSE handle_resolved_event(prompt, Head(inbox).what[1]))
  /\ UNCHANGED <<program, attached_once>>
  /\ UnchangedByTaking

(* The loop ends: sirix-terminal closes a terminal it never saw ready.      *)
Leave ==
  /\ program' = "ended" /\ socket' = "closed"
  /\ receiver' = <<>> /\ lagged' = FALSE /\ inbox' = <<>>
  /\ alive' \in {alive, alive /\ attached_once}
  /\ UNCHANGED <<latest, first, unsent, requests, attached_once, prompt, submitted, shown, held,
                 whole, torn, countVars>>

(* terminal.closed or terminal.error, of whatever terminal.                 *)
SessionClosed ==
  /\ program = "running" /\ inbox # <<>> /\ Head(inbox).kind \in {"closed", "error"}
  /\ Leave

UserDetached ==
  /\ program = "running" /\ has_pending(prompt)
  /\ Leave

(* handle_stdin_bytes where nothing is submitted.                          *)
UnchangedByKey == UNCHANGED <<serverVars, requests, socket, receiver, lagged, inbox, attached_once,
                              shown, held, whole, torn, countVars>>

Navigate(key) ==
  /\ program = "running" /\ has_pending(prompt) /\ key \in {"up", "down"}
  /\ prompt' = apply_navigation_input(prompt, key)
  /\ UNCHANGED <<program, submitted>> /\ UnchangedByKey

open_prefix_selection(key) ==
  /\ program = "running" /\ has_pending(prompt) /\ key \notin {"up", "down"}
  /\ prompt.prefix_selection = None
  /\ LET choice == choice_from_input(prompt, key) IN
     /\ choice # None /\ requires_prefix_selection(prompt.active, choice)
     /\ prompt' = [prompt EXCEPT !.prefix_selection = [request |-> prompt.active, choice |-> choice],
                                 !.selected_idx = 0]
  /\ UNCHANGED <<program, submitted>> /\ UnchangedByKey

Submit(payload) ==
  /\ program' = "submitting" /\ submitted' = payload
  /\ UNCHANGED prompt /\ UnchangedByKey

SubmitChoice(key) ==
  /\ program = "running" /\ has_pending(prompt) /\ key \notin {"up", "down"}
  /\ prompt.prefix_selection = None
  /\ LET choice == choice_from_input(prompt, key) IN
     /\ choice # None /\ ~requires_prefix_selection(prompt.active, choice)
     /\ Submit(ResolveApprovalPayload(prompt.active, choice, None))

handle_prefix_selection_input(key) ==
  /\ program = "running" /\ has_pending(prompt) /\ key \notin {"up", "down"}
  /\ prompt.prefix_selection # None /\ SelectedPrefix(prompt, key) # None
  /\ LET selection == prompt.prefix_selection IN
     Submit(ResolveApprovalPayload(selection.request, selection.choice,
                                   SelectedPrefix(prompt, key)))

(* The answer to a submission. A stale request is cleared like a resolved   *)
(* one; after any other failure, also of an answer that took effect, the    *)
(* prompt stays.                                                           *)
Resolve(r) == /\ requests' = [requests EXCEPT ![r] = "resolved"]
              /\ Send(Event("resolved", TRUE, <<r>>))

resolve_request ==
  /\ program = "submitting"
  /\ program' = "running" /\ submitted' = None
  /\ \/ /\ IF requests[submitted.request] = "pending" THEN Resolve(submitted.request)
           ELSE UNCHANGED <<requests, receiver, lagged>>
        /\ ShowPrompt(finish_active_request(prompt))
        /\ UNCHANGED failures
     \/ /\ failures < MaxFailures /\ failures' = failures + 1
        /\ \/ UNCHANGED <<requests, receiver, lagged>>
           \/ requests[submitted.request] = "pending" /\ Resolve(submitted.request)
        /\ UNCHANGED <<prompt, shown, held>>
  /\ UNCHANGED <<serverVars, socket, inbox, attached_once, whole, torn, strangers, echoes>>

----------------------------------------------------------------------------
Next ==
  \/ append \/ flush_terminal_output \/ stream_terminal_output
  \/ \E kind \in {"output", "ready", "closed"} : Stranger(kind)
  \/ \E r \in Requests : publish_approval_request(r) \/ ResolvedElsewhere(r)
  \/ handle_attach \/ attach_snapshot \/ forward \/ forward_lagged
  \/ attach_session \/ ReceiveOutput \/ message_marks_terminal_ready \/ ReceiveApproval
  \/ SessionClosed \/ UserDetached
  \/ \E key \in Keys : \/ Navigate(key) \/ open_prefix_selection(key) \/ SubmitChoice(key)
                       \/ handle_prefix_selection_input(key)
  \/ resolve_request

Spec == Init /\ [][Next]_vars

----------------------------------------------------------------------------
(* Properties                                                              *)

(* Types of the variables.                                                 *)
TypeOK ==
  /\ latest \in 0..Chunks /\ first \in 1..(latest + 1) /\ unsent \in {None} \cup 1..latest
  /\ socket \in {"closed", "open", "ready", "streaming"}
  /\ program \in {"off", "running", "submitting", "ended"}
  /\ Len(receiver) <= Capacity /\ ToSet(prompt.queue) \subseteq Requests

(* What the user sees, and will see of what is on its way: what is written, *)
(* what is kept back, messages, what a socket that fell behind is sent      *)
(* again, its copy of the events, the chunk still to be sent.  A place is a *)
(* position in one of these.                                               *)
ChunksOf(e) == IF e.kind = "output" THEN e.what ELSE <<>>
Stream == <<<<shown>>, <<held>>, [i \in 1..Len(inbox) |-> ChunksOf(inbox[i])],
            <<IF lagged THEN get_output_snapshot.what ELSE <<>>>>,
            [i \in 1..Len(receiver) |-> ChunksOf(receiver[i])],
            <<IF unsent = None THEN <<>> ELSE <<unsent>>>>>>
Places(stream) == UNION {UNION {{<<p, i, k>> : k \in 1..Len(stream[p][i])}
                                : i \in 1..Len(stream[p])} : p \in 1..6}
Before(x, y) == \/ x[1] < y[1]
                \/ x[1] = y[1] /\ x[2] < y[2]
                \/ x[1] = y[1] /\ x[2] = y[2] /\ x[3] < y[3]

(* Each chunk that is seen is followed by the next one, up to the newest:   *)
(* although a snapshot crosses the events it contains, the socket falls     *)
(* behind and is sent all of it again, and the prompt keeps output back,    *)
(* nothing is lost and nothing old is drawn over something new. Not where   *)
(* the socket fell behind and the history was truncated.                   *)
OutputInOrder ==
  socket = "streaming" /\ alive /\ ~torn /\ (lagged => ~history_truncated) =>
    LET stream == Stream
        places == Places(stream)
        Chunk(x) == stream[x[1]][x[2]][x[3]]
    IN  /\ whole => \A c \in 1..latest : \E x \in places : Chunk(x) = c
        /\ \A x \in places : Chunk(x) # latest =>
             \E y \in places : Before(x, y) /\ Chunk(y) = Chunk(x) + 1

(* The parts of the prompt belong together: what waits, is selected or is   *)
(* kept back belongs to a prompt that is shown, its cursor is on one of its *)
(* lines, no request is shown twice, and no answer makes a rule for a shell *)
(* command of a prefix nobody chose.                                       *)
PromptHoldsTogether ==
  LET all == IF prompt.active = None THEN prompt.queue ELSE <<prompt.active>> \o prompt.queue IN
  /\ prompt.queue # <<>> \/ prompt.prefix_selection # None \/ held # <<>> => has_pending(prompt)
  /\ prompt.prefix_selection # None => prompt.prefix_selection.request = prompt.active
  /\ \A i, j \in 1..Len(all) : all[i] = all[j] => i = j
  /\ has_pending(prompt) => prompt.selected_idx < Lines(prompt)
  /\ submitted # None /\ submitted.prefix # None => submitted.picked
=============================================================================
