----------------------------- MODULE ScreenHistory -----------------------------
(***************************************************************************)
(* The screen of a terminal as the desktop server keeps it for its viewers  *)
(* (vt_authority.rs, state_cache.rs): the emulator's lines, the numbered    *)
(* history with its generations, the events every change is announced with, *)
(* and a viewer of the Flutter client that rebuilds screen and history from *)
(* them.                                                                    *)
(*                                                                         *)
(* A line is <<id, piece>>: a "short" one (the blank line is one), a long   *)
(* one "whole" or as its "head" and "tail" where the terminal is so narrow  *)
(* that it wraps, or what a resize "cut" it to.  The program that runs in   *)
(* the terminal writes one of Scripts, chunk by chunk.                      *)
(***************************************************************************)
EXTENDS Integers, FiniteSets, Sequences, SequencesExt

CONSTANTS
    Scripts,    \* what the program may write: sequences of chunks
    Sizes,      \* geometries [rows, narrow]; the first is the terminal's
    First,
    Cap,        \* TERMINAL_STATE_CACHE_MAX_LINES, the emulator's scrollback too
    Preview,    \* TERMINAL_HISTORY_PREVIEW_MAX_LINES
    CacheMax,   \* _terminalAuthorityCacheMaxLines of the client
    Prefetch,   \* _terminalHistoryPrefetchChunkLines
    ScrollChunk,\* lines asked for on scrolling
    Capacity,   \* the bus of local events: what a slow socket may be behind
    MaxResizes, MaxLeaves,
    MaxOthers,  \* bound: events of other terminals, of settings, of the AI
    None

VARIABLES
    script,     \* what the program still writes
    sync,       \* TerminalSyncState with its VtAuthority
    out, res,   \* the bundles that the output thread and a resize publish
    bus,        \* local_events that the viewer's socket has not read, None without one
    asks,       \* requests of the viewer that its socket has not handled
    view,       \* TerminalAuthorityCache of the client
    resizes, leaves, others,
    older,      \* of two unfinished bundles the one computed first
    crossed,    \* kept for the properties: bundles overtook each other or were cut
    missed      \* the types of announcement the viewer lost and has not made up for

vars == <<script, sync, out, res, bus, asks, view, resizes, leaves, others, older, crossed,
          missed>>

----------------------------------------------------------------------------
(* The emulator: scrollback and screen of the main buffer as one sequence   *)

Blank == <<0, "short">>
Blanks(n) == [i \in 1..n |-> Blank]
Lower(a, b) == IF a < b THEN a ELSE b
Upper(a, b) == IF a > b THEN a ELSE b
LastOf(s, n) == SubSeq(s, Upper(1, Len(s) - n + 1), Len(s))

NewParser(size, lines) ==
    LET shown == IF Len(lines) < size.rows THEN lines \o Blanks(size.rows - Len(lines))
                                           ELSE LastOf(lines, Cap + size.rows)
    IN  [lines |-> shown, rows |-> size.rows, narrow |-> size.narrow,
         cur |-> Upper(1, Lower(Len(lines), size.rows)), alt |-> None]

CursorLine(p) == Len(p.lines) - p.rows + p.cur
Put(p, l) == [p EXCEPT !.lines[CursorLine(p)] = l]
Down(p) == IF p.cur < p.rows THEN [p EXCEPT !.cur = @ + 1]
                             ELSE [p EXCEPT !.lines = LastOf(Append(@, Blank), Cap + p.rows)]
scroll_up(p, id) ==
    IF p.narrow THEN Down(Put(Down(Put(p, <<id, "head">>)), <<id, "tail">>))
                ELSE Down(Put(p, <<id, "whole">>))
erase_all(p) == [p EXCEPT !.lines = SubSeq(@, 1, Len(@) - p.rows) \o Blanks(p.rows)]

Clip(l) == IF l[2] = "short" THEN l ELSE <<l[1], "cut">>
set_size(p, size) ==
    LET back == SubSeq(p.lines, 1, Len(p.lines) - p.rows)
        same == LastOf(p.lines, p.rows)
        rows == IF size.narrow = p.narrow THEN same ELSE [i \in DOMAIN same |-> Clip(same[i])]
        kept == SubSeq(rows, 1, Lower(size.rows, p.rows)) \o Blanks(Upper(0, size.rows - p.rows))
    IN  [p EXCEPT !.lines = back \o kept, !.rows = size.rows, !.narrow = size.narrow,
                  !.cur = Lower(@, size.rows)]

(* What a chunk does: a long line; a short text over the cursor's row, like *)
(* a prompt; an empty line; CSI 2J, CSI 3J, ESC c; the alternate screen.    *)
process(p, chunk, id) ==
    CASE chunk = "enter" -> [p EXCEPT !.alt = id]
      [] chunk = "leave" -> [p EXCEPT !.alt = None]
      [] chunk = "reset" -> NewParser([rows |-> p.rows, narrow |-> p.narrow], <<>>)
      [] chunk \notin {"enter", "leave", "reset"} /\ p.alt # None -> [p EXCEPT !.alt = id]
      [] chunk = "line" /\ p.alt = None -> scroll_up(p, id)
      [] chunk = "text" /\ p.alt = None -> Put(p, <<id, "short">>)
      [] chunk = "feed" /\ p.alt = None -> Down(p)
      [] chunk = "wipe" /\ p.alt = None -> erase_all(p)
      [] chunk = "drop" /\ p.alt = None -> p

BufferChanges(p, q, chunk) == \/ (p.alt = None) # (q.alt = None)
                              \/ chunk \in {"wipe", "reset", "enter", "leave"}

canonical_lines_to_transcript(lines) == SelectSeq(lines, LAMBDA l: l[2] # "head")
Reflow(size, l) == IF l[2] \in {"short", "cut"} THEN <<l>>
                   ELSE IF size.narrow THEN <<<<l[1], "head">>, <<l[1], "tail">>>>
                   ELSE <<<<l[1], "whole">>>>
resize_main_from_canonical_lines(size, lines) ==
    LET transcript == canonical_lines_to_transcript(lines)
    IN  NewParser(size, FlattenSeq([i \in DOMAIN transcript |-> Reflow(size, transcript[i])]))

----------------------------------------------------------------------------
(* The state of the server and its announcements                           *)

Kind(p) == IF p.alt = None THEN "main" ELSE "alt"
ScreenOf(p) == IF p.alt = None THEN LastOf(p.lines, p.rows) ELSE <<<<p.alt, "alt">>>>
EndOf(s) == s.start + Len(s.main)

state_snapshot_payload(s) ==
    [type |-> "state", kind |-> Kind(s.parser), buffer |-> s.buffer, layout |-> s.layout,
     gen |-> s.gen, start |-> s.start, end |-> EndOf(s),
     viewport |-> EndOf(s) - Lower(s.viewport_rows, Len(s.main))]
screen_snapshot_payload(s) ==
    [type |-> "screen", buffer |-> s.buffer, layout |-> s.layout, screen |-> ScreenOf(s.parser)]
invalidated_payload(s, reason) ==
    LET lines == LastOf(s.main, Preview)
    IN  [type |-> "invalidated", gen |-> s.gen, start |-> s.start, end |-> EndOf(s),
         from |-> EndOf(s) - Len(lines), lines |-> lines, reason |-> reason]
layout_payload(s) == [type |-> "layout", layout |-> s.layout]
buffer_payload(s) == [type |-> "buffer", kind |-> Kind(s.parser), buffer |-> s.buffer]

(* Every change is announced with what it did and then with both snapshots. *)
(* Mutant: the snapshots are sent only with something else to announce.     *)
SnapshotsOfChanges(s, told) ==
    IF told = <<>> THEN <<>>
    ELSE told \o <<state_snapshot_payload(s), screen_snapshot_payload(s)>>
WithSnapshots(s, told) == told \o <<state_snapshot_payload(s), screen_snapshot_payload(s)>>

(* apply_snapshot: q is the emulator afterwards, chunk what was written or  *)
(* "resize".  The result is the new state and the events it announces.      *)
apply_snapshot(s, q, chunk) ==
    LET resized == chunk = "resize"
        buffered == ~resized /\ BufferChanges(s.parser, q, chunk)
        t == [s EXCEPT !.parser = q, !.layout = IF resized THEN @ + 1 ELSE @,
                       !.buffer = IF buffered THEN @ + 1 ELSE @]
        next == IF chunk = "drop" THEN LastOf(q.lines, q.rows) ELSE q.lines
        shrunk == Len(next) < Len(s.main) /\ Len(next) <= q.rows /\ Len(s.main) > q.rows
        grown == IsStrictPrefix(s.main, next)
        anew == resized /\ ~shrunk
        main == IF shrunk /\ chunk # "drop" THEN s.main ELSE next
        removed == IF chunk = "drop" THEN Upper(0, Len(s.main) - Len(next)) ELSE 0
        overflow == Upper(0, Len(main) - Cap)
        u == IF q.alt # None THEN t
             ELSE [t EXCEPT !.main = LastOf(main, Cap), !.viewport_rows = q.rows,
                            !.gen = IF anew THEN @ + 1 ELSE @,
                            !.start = (IF anew THEN 0 ELSE @ + removed) + overflow]
        onMain == q.alt = None
    IN  [state |-> u,
         events |-> WithSnapshots(u,
           (IF onMain /\ anew THEN <<invalidated_payload(u, "geometry_changed")>> ELSE <<>>)
           \o (IF onMain /\ grown /\ ~resized /\ chunk # "drop"
               THEN <<[type |-> "append", gen |-> u.gen, from |-> EndOf(s),
                       lines |-> SubSeq(next, Len(s.main) + 1, Len(next))]>> ELSE <<>>)
           \o (IF onMain /\ ~anew /\ removed + overflow > 0
               THEN <<[type |-> "trimmed", gen |-> u.gen, start |-> u.start,
                       end |-> EndOf(u)]>> ELSE <<>>)
           \o (IF resized THEN <<layout_payload(u)>> ELSE <<>>)
           \o (IF buffered THEN <<buffer_payload(u)>> ELSE <<>>))]

bootstrap_events(s) ==
    <<state_snapshot_payload(s), screen_snapshot_payload(s)>>
    \o (IF s.parser.alt # None \/ s.main = <<>> THEN <<>>
        ELSE <<invalidated_payload(s, "bootstrap")>>)

history_range_response(s, ask) ==
    IF ask.gen # s.gen THEN [type |-> "mismatch"]
    ELSE IF ask.from < s.start \/ ask.to > EndOf(s) THEN [type |-> "outside", ask |-> ask]
    ELSE [type |-> "range", ask |-> ask, gen |-> s.gen, from |-> ask.from,
          lines |-> SubSeq(s.main, ask.from - s.start + 1, ask.to - s.start)]

----------------------------------------------------------------------------
(* The cache of the client: a cached line keeps the generation it came with *)

TerminalAuthorityCache ==
    [kind |-> "main", buffer |-> 0, layout |-> 0, gen |-> 0, start |-> 1, end |-> 1,
     viewport |-> 1, screen |-> <<>>, lines |-> <<>>, signature |-> None, pending |-> {}]

Oldest(v) == CHOOSE n \in DOMAIN v.lines : \A k \in DOMAIN v.lines : n <= k

(* Lines numbered from `from` on replace those cached, the oldest of too    *)
(* many are dropped.                                                        *)
Remember(old, from, lines, gen) ==
    LET new == from..(from + Len(lines) - 1)
        all == DOMAIN old \cup new
        keep == {n \in all : Cardinality({k \in all : k > n}) < CacheMax}
    IN  [n \in keep |-> IF n \in new THEN [line |-> lines[n - from + 1], gen |-> gen] ELSE old[n]]

(* Mutant: the signature of an invalidation is that of its lines.          *)
SignatureOfLines(e) == e.lines
historyInvalidationSignature(e) == e

applyStateSnapshot(v, e) ==
    [v EXCEPT !.kind = e.kind, !.buffer = e.buffer, !.layout = e.layout, !.gen = e.gen,
              !.start = e.start, !.end = e.end, !.viewport = e.viewport]
applyScreenSnapshot(v, e) ==
    [v EXCEPT !.buffer = e.buffer, !.layout = e.layout, !.screen = e.screen]
appendHistory(v, e) ==
    [v EXCEPT !.gen = e.gen, !.lines = Remember(@, e.from, e.lines, e.gen),
              !.end = e.from + Len(e.lines)]
applyTrimmed(v, e) ==
    [v EXCEPT !.gen = e.gen, !.start = e.start, !.end = e.end,
              !.lines = [n \in {k \in DOMAIN @ : k >= e.start} |-> @[n]]]
applyHistoryRangeResponse(v, e) ==
    [v EXCEPT !.gen = e.gen, !.lines = Remember(@, e.from, e.lines, e.gen),
              !.pending = @ \ {e.ask}]
applyHistoryInvalidated(v, e) ==
    [v EXCEPT !.signature = historyInvalidationSignature(e), !.gen = e.gen, !.start = e.start,
              !.end = e.end, !.lines = Remember(<<>>, e.from, e.lines, e.gen)]

(* After an invalidation the client asks for lines before the preview.      *)
Backfill(v, e) ==
    LET wanted == Upper(0, Lower(CacheMax - Len(e.lines), Prefetch))
        from == Lower(Upper(e.from - wanted, v.start), e.from)
    IN  IF from < e.from THEN {[gen |-> v.gen, from |-> from, to |-> e.from]} ELSE {}

(* What an event makes of the cache, and the ranges the client asks for.    *)
Handled(v, e) ==
    LET forgotten == [v EXCEPT !.pending = {}]
        cleared == applyHistoryInvalidated(forgotten, e)
        wanted == Backfill(cleared, e)
    IN  CASE e.type = "state" -> [view |-> applyStateSnapshot(v, e), asked |-> {}]
          [] e.type = "screen" -> [view |-> applyScreenSnapshot(v, e), asked |-> {}]
          [] e.type = "append" -> [view |-> appendHistory(v, e), asked |-> {}]
          [] e.type = "trimmed" -> [view |-> applyTrimmed(v, e), asked |-> {}]
          [] e.type = "layout" -> [view |-> [v EXCEPT !.layout = e.layout], asked |-> {}]
          [] e.type = "buffer" -> [view |-> [v EXCEPT !.kind = e.kind, !.buffer = e.buffer],
                                   asked |-> {}]
          [] e.type = "range" -> [view |-> applyHistoryRangeResponse(v, e), asked |-> {}]
          [] e.type = "outside" -> [view |-> [v EXCEPT !.pending = @ \ {e.ask}], asked |-> {}]
          [] e.type \in {"mismatch", "other"} -> [view |-> v, asked |-> {}]
          [] e.type = "invalidated" /\ v.signature = historyInvalidationSignature(e)
               -> [view |-> forgotten, asked |-> {}]
          [] e.type = "invalidated" /\ v.signature # historyInvalidationSignature(e)
               -> [view |-> [cleared EXCEPT !.pending = wanted], asked |-> wanted]

----------------------------------------------------------------------------
Init ==
    /\ script \in Scripts
    /\ LET p == NewParser(First, <<>>)
       IN  sync = [parser |-> p, main |-> p.lines, start |-> 1, gen |-> 0, buffer |-> 0,
                   layout |-> 0, viewport_rows |-> p.rows]
    /\ out = <<>> /\ res = <<>> /\ bus = None /\ asks = <<>> /\ view = TerminalAuthorityCache
    /\ resizes = 0 /\ leaves = 0 /\ others = 0
    /\ older = None /\ crossed = FALSE /\ missed = {}

(* What the viewer lost and has not made up for: by a later snapshot, or by *)
(* an invalidation that it applies, which brings the lines anew.           *)
Repairable == {"state", "screen", "append", "invalidated"}
Misses(events) == missed' = missed \cup ({e.type : e \in events} \cap Repairable)

(* One channel of bounded length carries the events of every terminal, of   *)
(* the settings and of the AI; a socket too far behind loses the oldest.   *)
Send(e) ==
    LET all == Append(bus, e)
    IN  IF bus = None THEN bus' = None /\ Misses({e})
        ELSE bus' = LastOf(all, Capacity)
             /\ Misses(IF Len(all) > Capacity THEN {Head(all)} ELSE {})

(* An event that is not about this screen; its raw output is none either.  *)
Other == [type |-> "other"]

OthersSend ==
    /\ bus # None /\ others < MaxOthers /\ others' = others + 1
    /\ Send(Other)
    /\ UNCHANGED <<script, sync, out, res, asks, view, resizes, leaves, older, crossed>>

(* The output thread flushes a chunk: the raw output is sent, the state     *)
(* changes under its lock, and the events are sent after it.               *)
flush_terminal_output ==
    /\ script # <<>> /\ out = <<>>
    /\ LET chunk == Head(script)
           a == apply_snapshot(sync, process(sync.parser, chunk, Len(script)), chunk)
       IN  sync' = a.state /\ out' = a.events
    /\ script' = Tail(script) /\ Send(Other)
    /\ older' = IF res # <<>> THEN "res" ELSE None
    /\ UNCHANGED <<res, asks, view, resizes, leaves, others, crossed>>

(* So does a resize; geometry.changed, sent last, repeats the layout epoch. *)
resize_internal(size) ==
    /\ resizes < MaxResizes /\ res = <<>>
    /\ size # [rows |-> sync.parser.rows, narrow |-> sync.parser.narrow]
    /\ LET q == IF sync.parser.alt = None THEN resize_main_from_canonical_lines(size, sync.main)
                                          ELSE set_size(sync.parser, size)
           a == apply_snapshot(sync, q, "resize")
       IN  sync' = a.state /\ res' = Append(a.events, layout_payload(a.state))
    /\ resizes' = resizes + 1
    /\ older' = IF out # <<>> THEN "out" ELSE None
    /\ UNCHANGED <<script, out, bus, asks, view, leaves, others, crossed, missed>>

(* A bundle is sent event by event, so that two of them may mix: an event   *)
(* overtakes one of an older bundle that says something of the same.       *)
Subject(e) == IF e.type \in {"append", "trimmed", "invalidated"} THEN "history" ELSE e.type
Overtakes(e, left) == \E i \in DOMAIN left : Subject(left[i]) = Subject(e)

publish_output ==
    /\ out # <<>> /\ Send(Head(out)) /\ out' = Tail(out)
    /\ crossed' = (crossed \/ (older = "res" /\ Overtakes(Head(out), res)))
    /\ older' = IF out' = <<>> THEN None ELSE older
    /\ UNCHANGED <<script, sync, res, asks, view, resizes, leaves, others>>

(* For a mirrored terminal each event of a resize is also posted to the     *)
(* backend, and a failure drops the rest of its bundle.                    *)
publish_v2_events ==
    /\ res # <<>> /\ Send(Head(res))
    /\ res' \in {Tail(res), <<>>}
    /\ crossed' = (crossed \/ res' # Tail(res)
                           \/ (older = "out" /\ Overtakes(Head(res), out)))
    /\ older' = IF res' = <<>> THEN None ELSE older
    /\ UNCHANGED <<script, sync, out, asks, view, resizes, leaves, others>>

(* The client opens its socket and asks for a bootstrap; it may lose the    *)
(* socket and keeps its cache.                                             *)
attachTerminal ==
    /\ bus = None
    /\ bus' = <<>> /\ asks' = <<[type |-> "bootstrap"]>>
    /\ UNCHANGED <<script, sync, out, res, view, resizes, leaves, others, older, crossed, missed>>

Leave ==
    /\ bus # None /\ leaves < MaxLeaves
    /\ bus' = None /\ asks' = <<>> /\ leaves' = leaves + 1
    /\ Misses(ToSet(bus))
    /\ UNCHANGED <<script, sync, out, res, view, resizes, others, older, crossed>>

Handle(events, left) ==
    LET step(h, e) == LET n == Handled(h.view, e)
                      IN  [view |-> n.view, asked |-> h.asked \cup n.asked]
        h == FoldLeft(step, [view |-> view, asked |-> {}], events)
        had == {events[i].type : i \in DOMAIN events}
    IN  /\ view' = h.view
        /\ asks' = left \o SetToSeq({[type |-> "range", ask |-> a] : a \in h.asked})
        /\ missed' = missed \ (IF h.view.signature = view.signature
                                THEN had \ {"append", "invalidated"} ELSE had \cup {"append"})

(* The socket's task forwards an event or handles a request.               *)
forward_event ==
    /\ bus \notin {None, <<>>}
    /\ Handle(<<Head(bus)>>, asks) /\ bus' = Tail(bus)
    /\ UNCHANGED <<script, sync, out, res, resizes, leaves, others, older, crossed>>

handle_request ==
    /\ asks # <<>>
    /\ Handle(IF Head(asks).type = "bootstrap" THEN bootstrap_events(sync)
              ELSE <<history_range_response(sync, Head(asks).ask)>>, Tail(asks))
    /\ UNCHANGED <<script, sync, out, res, bus, resizes, leaves, others, older, crossed>>

(* A request that fails is not answered, and the client asks no more.      *)
RequestFails ==
    /\ asks # <<>> /\ asks' = Tail(asks)
    /\ missed' = IF Head(asks).type = "bootstrap" THEN Repairable
                 ELSE missed
    /\ UNCHANGED <<script, sync, out, res, bus, view, resizes, leaves, others, older, crossed>>

(* The user scrolls to the top of what is cached.                          *)
handleTerminalVerticalScroll ==
    /\ bus # None /\ view.lines # <<>>
    /\ Oldest(view) - view.start \in 1..(ScrollChunk - 1)
    /\ LET ask == [gen |-> view.gen, from |-> Upper(Oldest(view) - ScrollChunk, view.start),
                   to |-> Oldest(view)]
       IN  /\ ask \notin view.pending
           /\ view' = [view EXCEPT !.pending = @ \cup {ask}]
           /\ asks' = Append(asks, [type |-> "range", ask |-> ask])
    /\ UNCHANGED <<script, sync, out, res, bus, resizes, leaves, others, older, crossed, missed>>

Next ==
    \/ flush_terminal_output \/ publish_output \/ publish_v2_events
    \/ \E size \in Sizes : resize_internal(size)
    \/ OthersSend \/ attachTerminal \/ Leave
    \/ forward_event \/ handle_request \/ RequestFails \/ handleTerminalVerticalScroll

Spec == Init /\ [][Next]_vars

----------------------------------------------------------------------------
(* Properties                                                              *)

(* Everything announced has arrived, and the bootstrap was answered.       *)
Quiet == /\ bus = <<>> /\ out = <<>> /\ res = <<>>
         /\ \A i \in DOMAIN asks : asks[i].type # "bootstrap"

(* Whatever a viewer missed, by falling behind or by being away, once a     *)
(* snapshot of the state and one of the screen came after the last it lost  *)
(* and all announcements have arrived, it shows the server's screen and     *)
(* knows its buffer, epochs and the bounds of its history.  (What others    *)
(* send may push the last snapshots of a quiet terminal out of the channel, *)
(* a bootstrap may fail, and nothing is sent again: such a viewer shows the *)
(* old screen until the terminal's next output.  Bundles that overtook      *)
(* each other or were cut short are excepted too.)                         *)
ViewConverges ==
    Quiet /\ ~crossed /\ missed \cap {"state", "screen"} = {} =>
        /\ view.screen = ScreenOf(sync.parser)
        /\ view = applyScreenSnapshot(applyStateSnapshot(view, state_snapshot_payload(sync)),
                                      screen_snapshot_payload(sync))

(* When it lost no invalidation for good either, it has lines of the current *)
(* generation only: numbers of another would name other lines.             *)
OneGeneration ==
    Quiet /\ ~crossed /\ missed \subseteq {"append"} =>
        \A n \in DOMAIN view.lines : view.lines[n].gen = view.gen

(* The comment of apply_snapshot: events suffice to render, all viewers     *)
(* observe the same baseline.  Between its oldest line and the screen a     *)
(* viewer that missed nothing has every line of the history.               *)
HistoryWhole ==
    Quiet /\ leaves = 0 /\ ~crossed /\ missed = {}
    /\ view.kind = "main" /\ view.lines # <<>> =>
        \A n \in Oldest(view)..(view.viewport - 1) :
            n \in DOMAIN view.lines /\ view.lines[n].line = sync.main[n - sync.start + 1]
=============================================================================
