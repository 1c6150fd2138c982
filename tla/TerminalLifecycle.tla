--------------------------- MODULE TerminalLifecycle ---------------------------
(***************************************************************************)
(* The life of a terminal: the row the backend keeps of it, the process,    *)
(* the tmux session and the handle on the desktop, and the record in the    *)
(* registry of runtimes that a restarted server reads                       *)
(* (desktop-server terminal/manager.rs, terminal/persistence.rs,            *)
(* terminal_launch.rs, api/terminals.rs, tasks.rs, main.rs;                 *)
(* backend-server api/terminals.rs).                                        *)
(*                                                                         *)
(* A step is the code between two waits for an answer or a lock that others *)
(* hold across one. The desktop's event loop handles an event to its end    *)
(* before the next, so it creates and closes one terminal at a time; the    *)
(* local API, the launch of an AI session, the output thread of a terminal  *)
(* and the clean-up at shutdown run beside it. Each terminal is created     *)
(* once: its id is new. A report to the backend is applied or lost, and an  *)
(* applied one may be answered or not.                                     *)
(***************************************************************************)
EXTENDS Naturals, Sequences, FiniteSets, SequencesExt

CONSTANTS Terminals, None,
          MaxLosses,    \* reports and streams that are lost, programs that do not start,
                        \* files of the registry that fail
          MaxCrashes    \* ends of the desktop server, orderly or not

ASSUME BoundsAssumption == MaxLosses \in Nat /\ MaxCrashes \in Nat

(* What the launcher may prefer.                                           *)
select_terminal_launch == {"tmux", "legacy"}

(* Values of the variables.                                                *)
Rows == {"opening", "active", "closed", "error"}
HandleStates == {"active", "closed", "error"}
Handles == [remote_sync : BOOLEAN, tmux : BOOLEAN, state : HandleStates]
RuntimeRecords == [strategy : {"tmux_takeover", "process_bound_ephemeral"}, state : HandleStates]
Creations == [by : {"loop", "local", "ai", "start"}, plan : select_terminal_launch,
              remote_sync : BOOLEAN,
              step : {"spawn", "update", "report", "undo", "thread", "persist", "failed"}]
OutputThreads == [step : {"reading", "report", "cleanup"}, state : {"closed", "error"},
                  remote_sync : BOOLEAN]
Closings == [t : Terminals, by : {"loop", "local", "shutdown"}, state : {"closed", "error"}]
Events == {"create", "close"} \X Terminals

ASSUME NoneAssumption ==
  None \notin Rows \cup Handles \cup RuntimeRecords \cup Creations \cup OutputThreads
             \cup select_terminal_launch

VARIABLES made,       \* ids already used
          row,        \* backend: state column of the row, None without one
          publishing, \* backend: events a request still has to publish
          events,     \* events on their way to the desktop's loop
          connected,  \* the desktop's event stream is subscribed
          mode,       \* desktop server: "down", "starting", "up", "stopping", "leaving"
          backlog,    \* records the start has still to reconcile
          sessions,   \* desktop: handle of each terminal
          records,    \* the registry of runtimes on disk
          procs,      \* terminals whose process (shell, tmux client, agent) runs
          tmux,       \* terminals whose tmux session exists
          tasks,      \* creations under way
          closers,    \* closings that wait for the backend's answer
          threads,    \* output threads
          sweep,      \* terminals shutdown_cleanup has still to close
          losses, crashes,
          \* history: records of an earlier server or whose removal failed; tmux
          \* sessions that lost their record; terminals about which something
          \* was lost
          inherited, orphaned, astray

backendVars == <<row, publishing, events, connected>>
localVars == <<sessions, records, procs, tmux>>
workVars == <<tasks, closers, threads>>
startVars == <<mode, backlog, sweep, crashes>>
historyVars == <<inherited, orphaned, astray>>
vars == <<made, backendVars, localVars, workVars, startVars, losses, historyVars>>

Running == mode \in {"up", "stopping", "leaving"}
Serving == mode = "up"

(* The local API accepts requests until the first clean-up is through.     *)
Accepting == Serving \/ (mode = "stopping" /\ (sweep # {} \/ \E c \in closers : c.by = "shutdown"))

Handle(shadowed, plan) == [remote_sync |-> shadowed, tmux |-> plan = "tmux", state |-> "active"]

(* What the launcher falls back to.                                        *)
FallbackOf(task) == IF task.plan = "tmux" /\ task.by \in {"loop", "local"} THEN "legacy" ELSE None

runtime_recovery_strategy(handle) ==
  IF handle.tmux THEN "tmux_takeover" ELSE "process_bound_ephemeral"

(* The registry of runtimes: a file for each terminal, read as a whole.     *)
load_runtime_records == {t \in Terminals : records[t] # None}
remove_runtime_record(t) == [records EXCEPT ![t] = None]

(* A failure to remove the file, if there is one, is only logged.          *)
remove_runtime_registry_entry(t) ==
  \/ records' = remove_runtime_record(t) /\ UNCHANGED <<losses, inherited>>
  \/ /\ records[t] # None /\ losses < MaxLosses /\ losses' = losses + 1
     /\ inherited' = inherited \cup {t} /\ UNCHANGED records

(* What the local list shows of a terminal: its handle's state, or what can *)
(* become of its record. Closed ones are left out.                         *)
persisted_runtime_list_state(record) ==
  IF record.strategy = "tmux_takeover" THEN "recovering" ELSE "restart_required"

list_snapshots(t) ==
  IF sessions[t] # None THEN IF sessions[t].state = "closed" THEN None ELSE sessions[t].state
  ELSE IF t \in load_runtime_records /\ records[t].state # "closed"
         THEN persisted_runtime_list_state(records[t]) ELSE None

LoopBusy == \/ \E t \in Terminals : tasks[t] # None /\ tasks[t].by = "loop"
            \/ \E c \in closers : c.by = "loop"

----------------------------------------------------------------------------
(* Initial state: the server runs, nothing was created                     *)

Nothing == [t \in Terminals |-> None]

Init == /\ made = {} /\ row = Nothing /\ publishing = {} /\ events = <<>> /\ connected = TRUE
        /\ mode = "up" /\ backlog = {} /\ sweep = {} /\ losses = 0 /\ crashes = 0
        /\ sessions = Nothing /\ records = Nothing /\ procs = {} /\ tmux = {}
        /\ tasks = Nothing /\ closers = {} /\ threads = Nothing
        /\ inherited = {} /\ orphaned = {} /\ astray = {}

----------------------------------------------------------------------------
(* Backend                                                                 *)

(* POST /terminals of a phone: the row, then the event for the desktop.    *)
create_terminal(t) ==
  /\ t \notin made /\ row[t] = None
  /\ made' = made \cup {t}
  /\ row' = [row EXCEPT ![t] = "opening"]
  /\ publishing' = publishing \cup {<<"create", t>>}
  /\ UNCHANGED <<events, connected, localVars, workVars, startVars, losses, historyVars>>

(* close_terminal of a phone: the row is closed whatever it is, then the    *)
(* desktop is told, unless the row of the AI session cannot be updated.    *)
close_terminal(t) ==
  /\ row[t] \in {"opening", "active", "error"}
  /\ row' = [row EXCEPT ![t] = "closed"]
  /\ \/ publishing' = publishing \cup {<<"close", t>>} /\ UNCHANGED <<losses, astray>>
     \/ /\ losses < MaxLosses /\ losses' = losses + 1
        /\ astray' = astray \cup {t} /\ UNCHANGED publishing
  /\ UNCHANGED <<made, events, connected, localVars, workVars, startVars, inherited, orphaned>>

(* The terminal's web socket only passes a closing on; one at a time here.  *)
handle_terminal_socket(t) ==
  /\ row[t] # None /\ <<"close", t>> \notin publishing \cup ToSet(events)
  /\ publishing' = publishing \cup {<<"close", t>>}
  /\ UNCHANGED <<made, row, events, connected, localVars, workVars, startVars, losses,
                 historyVars>>

(* The event reaches the bus. Without a subscriber a creation is taken      *)
(* back, a closing is told to nobody.                                      *)
PublishToDesktop(e) ==
  /\ e \in publishing
  /\ publishing' = publishing \ {e}
  /\ IF connected
       THEN /\ events' = Append(events, e)
            /\ UNCHANGED <<row, astray>>
       ELSE /\ UNCHANGED events
            /\ row' = IF e[1] = "create" THEN [row EXCEPT ![e[2]] = "closed"] ELSE row
            /\ astray' = IF e[1] = "close" THEN astray \cup {e[2]} ELSE astray
  /\ UNCHANGED <<made, connected, localVars, workVars, startVars, losses, inherited, orphaned>>

(* The stream breaks: what was not read is lost.                           *)
Disconnect ==
  /\ connected /\ losses < MaxLosses
  /\ connected' = FALSE /\ losses' = losses + 1 /\ events' = <<>>
  /\ astray' = astray \cup {e[2] : e \in {x \in ToSet(events) : x[1] = "close"}}
  /\ UNCHANGED <<made, row, publishing, localVars, workVars, startVars, inherited, orphaned>>

Connect ==
  /\ ~connected /\ Running
  /\ connected' = TRUE
  /\ UNCHANGED <<made, row, publishing, events, localVars, workVars, startVars, losses,
                 historyVars>>

(* What update_terminal_state makes of a report: it has no guard on the     *)
(* state the row is in.                                                    *)
update_terminal_state(t, state) == [row EXCEPT ![t] = state]

----------------------------------------------------------------------------
(* Desktop: creation                                                       *)

StartTask(t, task) == tasks' = [tasks EXCEPT ![t] = task]
Task(by, plan, shadowed, step) == [by |-> by, plan |-> plan, remote_sync |-> shadowed, step |-> step]

(* The loop takes the creation from its stream.                            *)
handle_terminal_create ==
  /\ Running /\ events # <<>> /\ Head(events)[1] = "create" /\ ~LoopBusy
  /\ events' = Tail(events)
  /\ \E plan \in select_terminal_launch : StartTask(Head(events)[2], Task("loop", plan, TRUE, "spawn"))
  /\ UNCHANGED <<made, row, publishing, connected, localVars, closers, threads, startVars, losses,
                 historyVars>>

(* POST /terminals of the local API asks for a row when it knows the        *)
(* backend's stream connected and somebody logged in, and starts without    *)
(* one otherwise. When the answer is lost the row stays and the terminal    *)
(* gets another id.                                                        *)
remote_sync_available == connected

create_local_desktop_terminal(t) == [row EXCEPT ![t] = "opening"]

create_local_terminal_session(t) ==
  /\ Accepting /\ t \notin made
  /\ made' = made \cup {t}
  /\ \E plan \in select_terminal_launch :
       \/ StartTask(t, Task("local", plan, FALSE, "spawn")) /\ UNCHANGED <<row, losses>>
       \/ /\ remote_sync_available
          /\ row' = create_local_desktop_terminal(t)
          /\ \/ StartTask(t, Task("local", plan, TRUE, "spawn")) /\ UNCHANGED losses
             \/ losses < MaxLosses /\ losses' = losses + 1 /\ UNCHANGED tasks
  /\ UNCHANGED <<publishing, events, connected, localVars, closers, threads, startVars, historyVars>>

(* The launch of an AI session in a terminal of its own: the agent's        *)
(* program, without tmux, mirrored when the session has a row.             *)
create_codex_terminal(t) ==
  /\ Accepting /\ t \notin made
  /\ made' = made \cup {t}
  /\ \E shadowed \in {TRUE, FALSE} :
       /\ shadowed => connected
       /\ row' = IF shadowed THEN [row EXCEPT ![t] = "opening"] ELSE row
       /\ StartTask(t, Task("ai", "legacy", shadowed, "spawn"))
  /\ UNCHANGED <<publishing, events, connected, localVars, closers, threads, startVars, losses,
                 historyVars>>

(* What a failed plan leaves of the task: the fallback's, or the end.      *)
AfterError(task) ==
  IF FallbackOf(task) # None THEN [task EXCEPT !.plan = FallbackOf(task), !.step = "spawn"]
  ELSE [task EXCEPT !.step = "failed"]

(* create_process_terminal: the process starts and the handle is inserted,  *)
(* or the PTY or the program cannot be had. A fallback may so start while   *)
(* the closing of the first plan's process has still to be reported.       *)
SpawnProcess(t) ==
  LET task == tasks[t] IN
  /\ task # None /\ task.step = "spawn"
  /\ \/ /\ procs' = procs \cup {t}
        /\ tmux' = IF task.plan = "tmux" THEN tmux \cup {t} ELSE tmux
        /\ sessions' = [sessions EXCEPT ![t] = Handle(task.remote_sync, task.plan)]
        /\ tasks' = [tasks EXCEPT ![t].step = "update"]
        /\ astray' = IF \E c \in closers : c.t = t THEN astray \cup {t} ELSE astray
        /\ UNCHANGED losses
     \/ /\ losses < MaxLosses /\ losses' = losses + 1
        /\ tasks' = [tasks EXCEPT ![t] = AfterError(task)]
        /\ UNCHANGED <<procs, tmux, sessions, astray>>
  /\ UNCHANGED <<made, backendVars, records, closers, threads, startVars, inherited, orphaned>>

(* update_state reports only a terminal that still has a mirrored handle.  *)
is_remote_sync(t) == sessions[t] # None /\ sessions[t].remote_sync

update_state(t) ==
  /\ tasks[t] # None /\ tasks[t].step = "update"
  /\ tasks' = [tasks EXCEPT ![t].step = IF is_remote_sync(t) THEN "report" ELSE "thread"]
  /\ UNCHANGED <<made, backendVars, localVars, closers, threads, startVars, losses, historyVars>>

(* The report "active": applied and answered, applied without an answer, or *)
(* lost.                                                                   *)
ReportActive(t) ==
  /\ tasks[t] # None /\ tasks[t].step = "report"
  /\ \/ /\ row' = update_terminal_state(t, "active")
        /\ tasks' = [tasks EXCEPT ![t].step = "thread"] /\ UNCHANGED losses
     \/ /\ losses < MaxLosses /\ losses' = losses + 1
        /\ row' \in {row, update_terminal_state(t, "active")}
        /\ tasks' = [tasks EXCEPT ![t].step = "undo"]
  /\ UNCHANGED <<made, publishing, events, connected, localVars, closers, threads, startVars,
                 historyVars>>

(* Taking a handle out of the map, killing the process and the session:     *)
(* close_session, the end of an output thread and a failed report do it.   *)
DropHandle(t) ==
  /\ sessions' = [sessions EXCEPT ![t] = None]
  /\ procs' = IF sessions[t] = None THEN procs ELSE procs \ {t}
  /\ tmux' = IF sessions[t] # None /\ sessions[t].tmux THEN tmux \ {t} ELSE tmux

UndoCreation(t) ==
  /\ tasks[t] # None /\ tasks[t].step = "undo"
  /\ DropHandle(t)
  /\ tasks' = [tasks EXCEPT ![t] = AfterError(tasks[t])]
  /\ UNCHANGED <<made, backendVars, records, closers, threads, startVars, losses, historyVars>>

StartThread(t) ==
  /\ tasks[t] # None /\ tasks[t].step = "thread"
  /\ threads' = [threads EXCEPT ![t] = [step |-> "reading", state |-> "closed",
                                        remote_sync |-> tasks[t].remote_sync]]
  /\ tasks' = [tasks EXCEPT ![t].step = "persist"]
  /\ UNCHANGED <<made, backendVars, localVars, closers, startVars, losses, historyVars>>

(* persist_runtime_registry_entry looks the handle up and writes under the  *)
(* same lock; a failure is only logged. The terminal is then announced as   *)
(* ready.                                                                  *)
RecordOf(t) == [strategy |-> runtime_recovery_strategy(sessions[t]), state |-> sessions[t].state]

persist_runtime_registry_entry_unlooked(t) == \* Mutant: written from what was spawned.
  [records EXCEPT ![t] = [strategy |-> IF tasks[t].plan = "tmux" THEN "tmux_takeover"
                                       ELSE "process_bound_ephemeral", state |-> "active"]]

persist_runtime_registry_entry(t) ==
  IF sessions[t] = None THEN records ELSE [records EXCEPT ![t] = RecordOf(t)]

FinishCreation(t) ==
  /\ tasks[t] # None /\ tasks[t].step = "persist"
  /\ \/ records' = persist_runtime_registry_entry(t) /\ UNCHANGED losses
     \/ losses < MaxLosses /\ losses' = losses + 1 /\ UNCHANGED records
  /\ tasks' = [tasks EXCEPT ![t] = None]
  /\ UNCHANGED <<made, backendVars, sessions, procs, tmux, closers, threads, startVars,
                 historyVars>>

(* Both plans failed: the loop and the local API report the error, the      *)
(* launch of an AI session and the start do not.                           *)
ReportFailure(t) ==
  /\ tasks[t] # None /\ tasks[t].step = "failed"
  /\ tasks' = [tasks EXCEPT ![t] = None]
  /\ IF tasks[t].remote_sync /\ tasks[t].by \in {"loop", "local"}
       THEN \/ row' = update_terminal_state(t, "error") /\ UNCHANGED <<losses, astray>>
            \/ /\ losses < MaxLosses /\ losses' = losses + 1
               /\ astray' = astray \cup {t} /\ UNCHANGED row
       ELSE astray' = astray \cup {t} /\ UNCHANGED <<row, losses>>
  /\ UNCHANGED <<made, publishing, events, connected, localVars, closers, threads, startVars,
                 inherited, orphaned>>

----------------------------------------------------------------------------
(* Desktop: closing                                                        *)

(* close_session up to its report: the handle, the record, the processes.  *)
close_session(t, by, state) ==
  IF sessions[t] = None THEN UNCHANGED <<localVars, closers, losses, inherited>>
  ELSE /\ DropHandle(t)
       /\ remove_runtime_registry_entry(t)
       /\ closers' = IF sessions[t].remote_sync
                       THEN closers \cup {[t |-> t, by |-> by, state |-> state]} ELSE closers

(* close: a terminal without a handle but with a record is a runtime of an  *)
(* earlier server; only its record is removed.                             *)
close(t, by) ==
  IF sessions[t] = None /\ records[t] # None
    THEN /\ remove_runtime_registry_entry(t)
         /\ orphaned' = IF t \in tmux /\ records'[t] = None THEN orphaned \cup {t} ELSE orphaned
         /\ UNCHANGED <<sessions, procs, tmux, closers>>
    ELSE close_session(t, by, "closed") /\ UNCHANGED orphaned

handle_terminal_close ==
  /\ Running /\ events # <<>> /\ Head(events)[1] = "close" /\ ~LoopBusy
  /\ events' = Tail(events)
  /\ close(Head(events)[2], "loop")
  /\ UNCHANGED <<made, row, publishing, connected, tasks, threads, startVars, astray>>

close_local_terminal_session(t) ==
  /\ Accepting /\ (sessions[t] # None \/ records[t] # None)
  /\ close(t, "local")
  /\ UNCHANGED <<made, backendVars, tasks, threads, startVars, astray>>

(* A write to the terminal fails because its process is gone.              *)
write_input(t, by) ==
  /\ Running /\ sessions[t] # None /\ t \notin procs
  /\ by = "loop" => ~LoopBusy
  /\ close_session(t, by, "error")
  /\ UNCHANGED <<made, backendVars, tasks, threads, startVars, orphaned, astray>>

(* The report of a closing, applied or lost; a failure is only logged.     *)
ReportClosing(c) ==
  /\ c \in closers
  /\ closers' = closers \ {c}
  /\ \/ row' = update_terminal_state(c.t, c.state) /\ UNCHANGED losses
     \/ losses < MaxLosses /\ losses' = losses + 1 /\ UNCHANGED row
  /\ UNCHANGED <<made, publishing, events, connected, localVars, tasks, threads, startVars,
                 historyVars>>

----------------------------------------------------------------------------
(* Desktop: output thread                                                  *)

(* The process ends: a shell with its session, or only the client of a      *)
(* session that lives on.                                                  *)
ProcessExits(t) ==
  /\ t \in procs
  /\ procs' = procs \ {t}
  /\ tmux' \in {tmux, tmux \ {t}}
  /\ UNCHANGED <<made, backendVars, sessions, records, workVars, startVars, losses, historyVars>>

(* End of file or an error of the reader: the rest is flushed, the handle's *)
(* state changes, a mirrored terminal is reported.                         *)
stream_terminal_output(t) ==
  /\ threads[t] # None /\ threads[t].step = "reading" /\ t \notin procs
  /\ \E state \in {"closed", "error"} :
       /\ threads' = [threads EXCEPT ![t].step = "report", ![t].state = state]
       /\ sessions' = IF sessions[t] = None THEN sessions ELSE [sessions EXCEPT ![t].state = state]
  /\ UNCHANGED <<made, backendVars, records, procs, tmux, tasks, closers, startVars, losses,
                 historyVars>>

ReportsEndOfHandle(t) == is_remote_sync(t) \* Mutant: through update_state, as the creation does.

ReportsEnd(t) == threads[t].remote_sync

update_terminal_remote_state(t) ==
  /\ threads[t] # None /\ threads[t].step = "report"
  /\ threads' = [threads EXCEPT ![t].step = "cleanup"]
  /\ IF ReportsEnd(t)
       THEN \/ row' = update_terminal_state(t, threads[t].state) /\ UNCHANGED <<losses, astray>>
            \/ /\ losses < MaxLosses /\ losses' = losses + 1
               /\ astray' = astray \cup {t} /\ UNCHANGED row
       ELSE UNCHANGED <<row, losses, astray>>
  /\ UNCHANGED <<made, publishing, events, connected, localVars, tasks, closers, startVars,
                 inherited, orphaned>>

cleanup_finished_local_terminal_session(t) ==
  /\ threads[t] # None /\ threads[t].step = "cleanup"
  /\ threads' = [threads EXCEPT ![t] = None]
  /\ DropHandle(t)
  /\ IF sessions[t] = None THEN UNCHANGED <<records, losses, inherited>>
                           ELSE remove_runtime_registry_entry(t)
  /\ UNCHANGED <<made, backendVars, tasks, closers, startVars, orphaned, astray>>

----------------------------------------------------------------------------
(* Desktop: end and start of the server                                    *)

(* A signal: the terminals there are now are closed one by one, each with   *)
(* its report, while requests are still served.                            *)
shutdown_signal ==
  /\ Serving /\ crashes < MaxCrashes
  /\ mode' = "stopping" /\ sweep' = {t \in Terminals : sessions[t] # None}
  /\ UNCHANGED <<made, backendVars, localVars, workVars, backlog, crashes, losses, historyVars>>

shutdown_cleanup(t) ==
  /\ mode \in {"stopping", "leaving"} /\ t \in sweep
  /\ ~\E c \in closers : c.by = "shutdown"
  /\ sweep' = sweep \ {t}
  /\ close_session(t, "shutdown", "error")
  /\ UNCHANGED <<made, backendVars, tasks, threads, mode, backlog, crashes, orphaned, astray>>

(* The server stops serving once its requests are answered, and the         *)
(* terminals made meanwhile are closed too.                                *)
ServeLoopExit ==
  /\ mode = "stopping" /\ sweep = {}
  /\ ~\E c \in closers : c.by \in {"shutdown", "local"}
  /\ \A t \in Terminals : tasks[t] # None => tasks[t].by = "loop"
  /\ mode' = "leaving" /\ sweep' = {t \in Terminals : sessions[t] # None}
  /\ UNCHANGED <<made, backendVars, localVars, workVars, backlog, crashes, losses, historyVars>>

(* The server ends, by a crash or at the end of the clean-up: everything in *)
(* memory is gone, shells lose their PTY, tmux sessions live on.           *)
ServerEnds ==
  /\ \/ mode \in {"starting", "up", "stopping"} /\ crashes < MaxCrashes
     \/ mode = "leaving" /\ sweep = {} /\ ~\E c \in closers : c.by = "shutdown"
  /\ mode' = "down" /\ crashes' = crashes + 1 /\ backlog' = {} /\ sweep' = {}
  /\ connected' = FALSE /\ events' = <<>>
  /\ sessions' = Nothing /\ tasks' = Nothing /\ threads' = Nothing /\ closers' = {} /\ procs' = {}
  /\ inherited' = load_runtime_records
  /\ orphaned' = orphaned \cup {t \in tmux : records[t] = None}
  /\ astray' = astray \cup {t \in Terminals : \/ sessions[t] # None \/ tasks[t] # None
                                               \/ threads[t] # None
                                               \/ <<"close", t>> \in ToSet(events)}
  /\ UNCHANGED <<made, row, publishing, records, tmux, losses>>

(* load_runtime_records: all of them are read before the first is treated,  *)
(* and one that cannot be read keeps all of them from it.                  *)
reconcile_persisted_runtimes ==
  /\ mode = "down"
  /\ mode' = "starting"
  /\ \/ backlog' = load_runtime_records /\ UNCHANGED losses
     \/ losses < MaxLosses /\ losses' = losses + 1 /\ UNCHANGED backlog
  /\ UNCHANGED <<made, backendVars, localVars, workVars, sweep, crashes, historyVars>>

(* One record: a tmux session that still exists is attached again, without *)
(* telling the backend; every other record stays as it is.                 *)
tmux_session_exists(t) == t \in tmux
Reconcilable(t) == /\ records[t].state # "closed" /\ records[t].strategy = "tmux_takeover"
                   /\ sessions[t] = None /\ tmux_session_exists(t)

reconcile_persisted_runtime_record(t) ==
  /\ mode = "starting" /\ t \in backlog /\ tasks = Nothing
  /\ backlog' = backlog \ {t}
  /\ IF Reconcilable(t)
       THEN StartTask(t, Task("start", "tmux", FALSE, "spawn")) ELSE UNCHANGED tasks
  /\ UNCHANGED <<made, backendVars, localVars, closers, threads, mode, sweep, crashes, losses,
                 historyVars>>

(* Only then the background tasks and the API start.                       *)
StartServing ==
  /\ mode = "starting" /\ backlog = {} /\ tasks = Nothing
  /\ mode' = "up"
  /\ UNCHANGED <<made, backendVars, localVars, workVars, backlog, sweep, crashes, losses,
                 historyVars>>

(* A tmux session without a client ends on its own.                        *)
SessionEnds(t) ==
  /\ t \in tmux /\ t \notin procs
  /\ tmux' = tmux \ {t}
  /\ UNCHANGED <<made, backendVars, sessions, records, procs, workVars, startVars, losses,
                 historyVars>>

----------------------------------------------------------------------------
Next ==
  \/ \E t \in Terminals :
       \/ create_terminal(t) \/ close_terminal(t) \/ handle_terminal_socket(t)
       \/ create_local_terminal_session(t) \/ create_codex_terminal(t)
       \/ SpawnProcess(t) \/ update_state(t) \/ ReportActive(t) \/ UndoCreation(t)
       \/ StartThread(t) \/ FinishCreation(t) \/ ReportFailure(t)
       \/ close_local_terminal_session(t) \/ \E by \in {"loop", "local"} : write_input(t, by)
       \/ ProcessExits(t) \/ stream_terminal_output(t) \/ update_terminal_remote_state(t)
       \/ cleanup_finished_local_terminal_session(t)
       \/ shutdown_cleanup(t) \/ reconcile_persisted_runtime_record(t) \/ SessionEnds(t)
  \/ \E e \in publishing : PublishToDesktop(e)
  \/ \E c \in closers : ReportClosing(c)
  \/ Disconnect \/ Connect \/ handle_terminal_create \/ handle_terminal_close
  \/ shutdown_signal \/ ServeLoopExit \/ ServerEnds \/ reconcile_persisted_runtimes
  \/ StartServing

Spec == Init /\ [][Next]_vars

----------------------------------------------------------------------------
(* Properties                                                              *)

(* Types of the variables.                                                 *)
TypeOK ==
  /\ made \subseteq Terminals /\ procs \subseteq Terminals /\ tmux \subseteq Terminals
  /\ row \in [Terminals -> Rows \cup {None}]
  /\ publishing \subseteq Events /\ events \in Seq(Events) /\ connected \in BOOLEAN
  /\ mode \in {"down", "starting", "up", "stopping", "leaving"}
  /\ backlog \subseteq Terminals /\ sweep \subseteq Terminals
  /\ sessions \in [Terminals -> Handles \cup {None}]
  /\ records \in [Terminals -> RuntimeRecords \cup {None}]
  /\ tasks \in [Terminals -> Creations \cup {None}]
  /\ threads \in [Terminals -> OutputThreads \cup {None}]
  /\ closers \subseteq Closings
  /\ inherited \subseteq Terminals /\ orphaned \subseteq Terminals /\ astray \subseteq Terminals
  /\ losses \in 0..MaxLosses /\ crashes \in 0..MaxCrashes

(* Nothing a terminal consists of outlives it: while the server runs, every *)
(* process has a handle and is listed, every record has a handle unless an  *)
(* earlier server left it or its removal failed, and every tmux session has *)
(* a handle or a record by which the next start finds it, unless the server *)
(* ended before it was written or the record of an earlier server was       *)
(* closed.                                                                 *)
NothingLeaks ==
  /\ \A t \in procs : sessions[t] # None /\ list_snapshots(t) = "active"
  /\ \A t \in Terminals : records[t] # None => sessions[t] # None \/ t \in inherited
  /\ \A t \in tmux \ orphaned :
       \/ sessions[t] # None /\ sessions[t].tmux
       \/ records[t] # None /\ records[t].strategy = "tmux_takeover"

(* Nothing concerns terminal t any more that could still change its row or  *)
(* its handle, and nothing that would have been lost on the way.           *)
Settled(t) ==
  /\ Serving /\ t \notin astray /\ tasks[t] = None
  /\ threads[t] = None \/ (threads[t].step = "reading" /\ t \in procs)
  /\ ~\E c \in closers : c.t = t
  /\ \A kind \in {"create", "close"} : <<kind, t>> \notin publishing \cup ToSet(events)

(* The backend and the desktop agree: once a terminal with a row has        *)
(* settled, the row says active exactly when the desktop runs it, although  *)
(* reports of its creation, its closing and its end cross each other and    *)
(* those of a creation or a closing may be lost.                           *)
RowsAgree == \A t \in Terminals :
               row[t] # None /\ Settled(t) => (row[t] = "active" <=> sessions[t] # None)
=============================================================================
