------------------------ MODULE TerminalLifecycleProofs ------------------------
(***************************************************************************)
(* Proofs about TerminalLifecycle, for any set of terminals and any bounds. *)
(*                                                                         *)
(* NothingLeaks needs to know what may still treat a terminal: a creation,  *)
(* of which only one that takes over a runtime has a record to begin with,  *)
(* and an id for which nothing exists until its creation is taken from the  *)
(* stream, once.  RowsAgree needs that a row which says active has somebody *)
(* who will correct it, a creation or an output thread, and that a report   *)
(* of a closing meets no handle of the same terminal.                       *)
(***************************************************************************)
EXTENDS TerminalLifecycle, TLAPS

Pending(kind, t) == <<kind, t>> \in publishing \cup ToSet(events)

Takeover(t) == records[t] # None /\ records[t].strategy = "tmux_takeover"

(* Nothing of terminal t exists at the desktop.                            *)
Untouched(t) ==
  /\ tasks[t] = None /\ sessions[t] = None /\ threads[t] = None /\ records[t] = None
  /\ t \notin tmux

(* An id that was not used stands for nothing, and so does, at the desktop, *)
(* one whose creation is still on its way.                                 *)
FreshId(t) ==
  /\ t \notin made => Untouched(t) /\ ~Pending("create", t)
  /\ Pending("create", t) => Untouched(t)

(* A record still to be reconciled is one of an earlier server, and nothing *)
(* else of its terminal is there yet. A record that outlived its handle for *)
(* no other reason than a failed removal is taken over by no start.        *)
InheritanceIsSound(t) ==
  /\ t \in backlog => /\ mode = "starting" /\ t \in inherited /\ records[t] # None
                      /\ tasks[t] = None /\ sessions[t] = None /\ threads[t] = None
  /\ t \in inherited =>
       \/ t \in astray
       \/ /\ t \in made /\ ~Pending("create", t) /\ tasks[t] = None /\ sessions[t] = None
          /\ ~(t \in tmux /\ Takeover(t))

(* A creation that meets a record takes over the runtime of an earlier      *)
(* server while this one starts, and never reports.                        *)
TaskIsSound(t) ==
  tasks[t] # None =>
    /\ records[t] # None => tasks[t].by = "start" /\ Takeover(t)
    /\ tasks[t].by = "start" =>
         /\ mode = "starting" /\ t \in inherited
         /\ tasks[t].plan = "tmux" /\ ~tasks[t].remote_sync
         /\ tasks[t].step = "spawn" => Takeover(t)
         /\ tasks[t].step \notin {"report", "undo"}
    /\ tasks[t].step \in {"spawn", "failed"} => sessions[t] = None
    /\ tasks[t].step # "persist" => threads[t] = None
    /\ sessions[t] # None => sessions[t].remote_sync = tasks[t].remote_sync

(* A handle's process and session are those it says it has, and a record    *)
(* is a handle's, which it describes, or an earlier server's, or could not  *)
(* be removed.                                                             *)
HandleIsSound(t) ==
  /\ t \in procs => sessions[t] # None /\ sessions[t].state = "active"
  /\ records[t] # None => sessions[t] # None \/ t \in inherited
  /\ records[t] # None /\ sessions[t] # None => (Takeover(t) <=> sessions[t].tmux)
  /\ t \in tmux \ orphaned => /\ IF sessions[t] = None THEN Takeover(t) ELSE sessions[t].tmux
                              /\ records[t] # None => Takeover(t)

Owned(t) == FreshId(t) /\ InheritanceIsSound(t) /\ TaskIsSound(t) /\ HandleIsSound(t)

(* A creation is on its way once.                                          *)
CreatedOnce ==
  /\ \A i \in 1 .. Len(events) : events[i][1] = "create" => events[i] \notin publishing
  /\ \A i, j \in 1 .. Len(events) : events[i][1] = "create" /\ events[i] = events[j] => i = j

(* A server that is down has nothing in memory.                            *)
DownIsEmpty ==
  mode = "down" => tasks = Nothing /\ sessions = Nothing /\ threads = Nothing /\ closers = {}

Ownership == CreatedOnce /\ DownIsEmpty /\ \A t \in Terminals : Owned(t)

(* What mirrors a terminal has a row to report to, and what is about a      *)
(* terminal with a row mirrors it, unless an earlier server left it.        *)
MirrorHasRow(t) ==
  /\ t \notin made => row[t] = None
  /\ Pending("create", t) => row[t] # None
  /\ tasks[t] # None /\ tasks[t].remote_sync => row[t] # None
  /\ threads[t] # None /\ threads[t].remote_sync => row[t] # None
  /\ sessions[t] # None /\ sessions[t].remote_sync => row[t] # None
  /\ tasks[t] # None /\ tasks[t].step = "report" => tasks[t].remote_sync
  /\ t \notin astray /\ row[t] # None =>
       /\ tasks[t] # None => tasks[t].remote_sync
       /\ threads[t] # None => threads[t].remote_sync
       /\ sessions[t] # None => sessions[t].remote_sync

(* A row that says active is still to be treated by a creation that has not *)
(* started the output thread, or by that thread.                           *)
ActiveIsAccountedFor(t) ==
  row[t] = "active" /\ t \notin astray =>
    \/ tasks[t] # None /\ tasks[t].step # "persist"
    \/ threads[t] # None /\ threads[t].step # "cleanup"

(* A created terminal's row says active until its end is reported or the    *)
(* request to close it arrives.                                            *)
RunningIsActive(t) ==
  /\ sessions[t] # None /\ t \notin astray /\ row[t] # None
  /\ tasks[t] = None \/ tasks[t].step \in {"thread", "persist"}
  /\ threads[t] = None \/ threads[t].step # "cleanup"
  /\ ~Pending("close", t)
  => row[t] = "active"

(* The report of a closing has a row, and meets no newer handle, unless a   *)
(* fallback started it.                                                    *)
CloserIsLate(c) ==
  row[c.t] # None /\ (sessions[c.t] # None => c.t \in astray)

Agreed(t) == MirrorHasRow(t) /\ ActiveIsAccountedFor(t) /\ RunningIsActive(t)

Agreement == /\ \A t \in Terminals : Agreed(t)
             /\ \A c \in closers : CloserIsLate(c)

(* A clean-up at the end is not counted before it is over.                 *)
EndsAreCounted == mode \in {"stopping", "leaving"} => crashes < MaxCrashes

Typed == TypeOK /\ EndsAreCounted
IInv == Typed /\ Ownership /\ Agreement

-----------------------------------------------------------------------------
(* Operators                                                               *)

USE BoundsAssumption, NoneAssumption

(* A step of a creation, or its fallback, is a creation.                   *)
LEMMA TaskStepType ==
  ASSUME TypeOK, NEW t \in Terminals, tasks[t] # None,
         NEW step \in {"spawn", "update", "report", "undo", "thread", "persist", "failed"}
  PROVE  /\ [tasks EXCEPT ![t].step = step] \in [Terminals -> Creations \cup {None}]
         /\ [tasks EXCEPT ![t].step = step][t] = [tasks[t] EXCEPT !.step = step]
<1>1. tasks[t] \in Creations
  BY DEF TypeOK
<1>2. [tasks[t] EXCEPT !.step = step] \in Creations
  BY <1>1 DEF Creations
<1>3. [tasks EXCEPT ![t].step = step] = [tasks EXCEPT ![t] = [tasks[t] EXCEPT !.step = step]]
  BY DEF TypeOK
<1>4. QED
  BY <1>2, <1>3 DEF TypeOK

(* The same of what a creation is after the step.                           *)
LEMMA TaskStepFields ==
  ASSUME TypeOK, NEW t \in Terminals, tasks[t] # None,
         NEW step \in {"spawn", "update", "report", "undo", "thread", "persist", "failed"},
         NEW new, new = [tasks EXCEPT ![t].step = step]
  PROVE  /\ new[t] # None /\ new[t].step = step /\ new[t].by = tasks[t].by
         /\ new[t].plan = tasks[t].plan /\ new[t].remote_sync = tasks[t].remote_sync
         /\ \A x \in Terminals \ {t} : new[x] = tasks[x]
<1>1. tasks[t] \in Creations
  BY DEF TypeOK
<1>2. new[t] = [tasks[t] EXCEPT !.step = step] /\ new[t] \in Creations
  BY <1>1, TaskStepType DEF Creations
<1>3. \A x \in Terminals \ {t} : new[x] = tasks[x]
  BY DEF TypeOK
<1>4. QED
  BY <1>1, <1>2, <1>3 DEF Creations

(* What follows a failed plan keeps who asked for the creation; only a       *)
(* creation of the start keeps its plan, and then it is over.               *)
LEMMA AfterErrorType ==
  ASSUME NEW task \in Creations
  PROVE  /\ AfterError(task) \in Creations
         /\ AfterError(task).by = task.by /\ AfterError(task).remote_sync = task.remote_sync
         /\ AfterError(task).step \in {"spawn", "failed"}
         /\ task.by = "start" => AfterError(task).step = "failed"
                                 /\ AfterError(task).plan = task.plan
<1>1. CASE FallbackOf(task) # None
  <2>1. FallbackOf(task) = "legacy" /\ task.by # "start"
    BY <1>1 DEF FallbackOf
  <2>2. [task EXCEPT !.plan = "legacy", !.step = "spawn"] \in Creations
    BY DEF Creations, select_terminal_launch
  <2>3. QED
    BY <1>1, <2>1, <2>2 DEF AfterError, Creations
<1>2. CASE FallbackOf(task) = None
  <2>1. [task EXCEPT !.step = "failed"] \in Creations
    BY DEF Creations
  <2>2. QED
    BY <1>2, <2>1 DEF AfterError, Creations
<1>3. QED
  BY <1>1, <1>2

(* What an output thread is after a step of it, and after its report.       *)
LEMMA ThreadType ==
  ASSUME TypeOK, NEW t \in Terminals, threads[t] # None,
         NEW step \in {"reading", "report", "cleanup"}, NEW state \in {"closed", "error"}
  PROVE  /\ [threads EXCEPT ![t].step = step] \in [Terminals -> OutputThreads \cup {None}]
         /\ [threads EXCEPT ![t].step = step][t] = [threads[t] EXCEPT !.step = step]
         /\ [threads EXCEPT ![t].step = step, ![t].state = state]
              \in [Terminals -> OutputThreads \cup {None}]
         /\ [threads EXCEPT ![t].step = step, ![t].state = state][t]
              = [threads[t] EXCEPT !.step = step, !.state = state]
<1>1. threads[t] \in OutputThreads
  BY DEF TypeOK
<1>2. /\ [threads[t] EXCEPT !.step = step] \in OutputThreads
      /\ [threads[t] EXCEPT !.step = step, !.state = state] \in OutputThreads
  BY <1>1 DEF OutputThreads
<1>3. /\ [threads EXCEPT ![t].step = step]
           = [threads EXCEPT ![t] = [threads[t] EXCEPT !.step = step]]
      /\ [threads EXCEPT ![t].step = step, ![t].state = state]
           = [threads EXCEPT ![t] = [threads[t] EXCEPT !.step = step, !.state = state]]
  BY DEF TypeOK
<1>4. QED
  BY <1>2, <1>3 DEF TypeOK

(* The state of a handle changes.                                          *)
LEMMA HandleStateType ==
  ASSUME TypeOK, NEW t \in Terminals, sessions[t] # None, NEW state \in {"closed", "error"}
  PROVE  /\ [sessions EXCEPT ![t].state = state] \in [Terminals -> Handles \cup {None}]
         /\ [sessions EXCEPT ![t].state = state][t] = [sessions[t] EXCEPT !.state = state]
<1>1. sessions[t] \in Handles
  BY DEF TypeOK
<1>2. [sessions[t] EXCEPT !.state = state] \in Handles
  BY <1>1 DEF Handles, HandleStates
<1>3. [sessions EXCEPT ![t].state = state]
        = [sessions EXCEPT ![t] = [sessions[t] EXCEPT !.state = state]]
  BY DEF TypeOK
<1>4. QED
  BY <1>2, <1>3 DEF TypeOK

(* What is written to the registry is a record.                             *)
LEMMA RecordOfType ==
  ASSUME TypeOK, NEW t \in Terminals, sessions[t] # None
  PROVE  /\ RecordOf(t) \in RuntimeRecords
         /\ RecordOf(t).strategy = "tmux_takeover" <=> sessions[t].tmux
<1>1. sessions[t] \in Handles
  BY DEF TypeOK
<1>2. QED
  BY <1>1 DEF RecordOf, runtime_recovery_strategy, RuntimeRecords, Handles

(* The stream of events grows at its end and is read at its front.          *)
LEMMA AppendEvent ==
  ASSUME NEW q \in Seq(Events), NEW e \in Events
  PROVE  /\ Append(q, e) \in Seq(Events) /\ Len(Append(q, e)) = Len(q) + 1
         /\ \A i \in 1 .. Len(q) : Append(q, e)[i] = q[i]
         /\ Append(q, e)[Len(q) + 1] = e
         /\ ToSet(Append(q, e)) = ToSet(q) \cup {e}
<1>1. /\ Append(q, e) \in Seq(Events) /\ Len(Append(q, e)) = Len(q) + 1
      /\ \A i \in 1 .. Len(q) : Append(q, e)[i] = q[i]
      /\ Append(q, e)[Len(q) + 1] = e
  OBVIOUS
<1>2. DOMAIN Append(q, e) = DOMAIN q \cup {Len(q) + 1} /\ DOMAIN q = 1 .. Len(q)
  OBVIOUS
<1>3. QED
  BY <1>1, <1>2 DEF ToSet

(* Taking the front of the stream leaves the other events.                  *)
LEMMA TakeEvent ==
  ASSUME NEW q \in Seq(Events), q # <<>>
  PROVE  /\ Tail(q) \in Seq(Events) /\ Len(Tail(q)) = Len(q) - 1 /\ Head(q) = q[1]
         /\ Head(q) \in Events /\ 1 \in 1 .. Len(q)
         /\ \A i \in 1 .. Len(Tail(q)) : Tail(q)[i] = q[i + 1] /\ i + 1 \in 1 .. Len(q)
         /\ ToSet(q) = ToSet(Tail(q)) \cup {Head(q)}
<1>1. /\ Tail(q) \in Seq(Events) /\ Len(Tail(q)) = Len(q) - 1 /\ Head(q) = q[1]
      /\ Head(q) \in Events /\ Len(q) \in Nat /\ Len(q) > 0
      /\ \A i \in 1 .. Len(q) - 1 : Tail(q)[i] = q[i + 1]
  OBVIOUS
<1>2. DOMAIN q = 1 .. Len(q) /\ DOMAIN Tail(q) = 1 .. Len(q) - 1
  BY <1>1
<1>3. ASSUME NEW i \in 1 .. Len(q)
      PROVE  q[i] = Head(q) \/ q[i] \in ToSet(Tail(q))
  <2>1. CASE i = 1
    BY <1>1, <2>1
  <2>2. CASE i # 1
    <3>1. i - 1 \in 1 .. Len(q) - 1 /\ Tail(q)[i - 1] = q[i]
      BY <1>1, <2>2
    <3>2. QED
      BY <1>2, <3>1 DEF ToSet
  <2>3. QED
    BY <2>1, <2>2
<1>4. ASSUME NEW i \in 1 .. Len(q) - 1
      PROVE  Tail(q)[i] \in ToSet(q)
  BY <1>1, <1>2 DEF ToSet
<1>5. Head(q) \in ToSet(q)
  BY <1>1, <1>2 DEF ToSet
<1>6. ToSet(q) = ToSet(Tail(q)) \cup {Head(q)}
  <2>1. \A e \in ToSet(q) : e = Head(q) \/ e \in ToSet(Tail(q))
    BY <1>2, <1>3 DEF ToSet
  <2>2. \A e \in ToSet(Tail(q)) : e \in ToSet(q)
    BY <1>2, <1>4 DEF ToSet
  <2>3. QED
    BY <1>5, <2>1, <2>2
<1>7. QED
  BY <1>1, <1>6

-----------------------------------------------------------------------------
(* Type correctness                                                        *)

(* The registry loses the record of the terminal, or keeps it and that is   *)
(* remembered; it has the others as before.                                *)
LEMMA RemoveEntry ==
  ASSUME TypeOK, NEW t \in Terminals, remove_runtime_registry_entry(t)
  PROVE  /\ records' \in [Terminals -> RuntimeRecords \cup {None}]
         /\ inherited' \subseteq Terminals /\ losses' \in 0..MaxLosses
         /\ \/ records'[t] = None /\ inherited' = inherited
            \/ records' = records /\ records[t] # None /\ inherited' = inherited \cup {t}
         /\ \A x \in Terminals \ {t} : records'[x] = records[x]
  BY DEF remove_runtime_registry_entry, remove_runtime_record, TypeOK

(* Taking out a handle keeps the types of what it touches.                  *)
LEMMA DropHandleType ==
  ASSUME TypeOK, NEW t \in Terminals, DropHandle(t)
  PROVE  /\ sessions' \in [Terminals -> Handles \cup {None}]
         /\ procs' \subseteq Terminals /\ tmux' \subseteq Terminals
  BY DEF TypeOK, DropHandle

(* So does closing a terminal with a handle,                                *)
LEMMA CloseSessionType ==
  ASSUME TypeOK, NEW t \in Terminals, NEW by \in {"loop", "local", "shutdown"},
         NEW state \in {"closed", "error"}, close_session(t, by, state)
  PROVE  /\ sessions' \in [Terminals -> Handles \cup {None}]
         /\ records' \in [Terminals -> RuntimeRecords \cup {None}]
         /\ procs' \subseteq Terminals /\ tmux' \subseteq Terminals /\ closers' \subseteq Closings
         /\ inherited' \subseteq Terminals /\ losses' \in 0..MaxLosses
<1>1. CASE sessions[t] = None
  BY <1>1 DEF close_session, localVars, TypeOK
<1>2. CASE sessions[t] # None
  <2>1. [t |-> t, by |-> by, state |-> state] \in Closings
    BY DEF Closings
  <2>2. DropHandle(t) /\ remove_runtime_registry_entry(t)
    BY <1>2 DEF close_session
  <2>3. closers' \subseteq Closings
    BY <1>2, <2>1 DEF close_session, TypeOK
  <2>4. QED
    BY <2>2, <2>3, DropHandleType, RemoveEntry
<1>3. QED
  BY <1>1, <1>2

(* and closing one that may only have a record.                             *)
LEMMA CloseType ==
  ASSUME TypeOK, NEW t \in Terminals, NEW by \in {"loop", "local"}, close(t, by)
  PROVE  /\ sessions' \in [Terminals -> Handles \cup {None}]
         /\ records' \in [Terminals -> RuntimeRecords \cup {None}]
         /\ procs' \subseteq Terminals /\ tmux' \subseteq Terminals /\ closers' \subseteq Closings
         /\ orphaned' \subseteq Terminals
         /\ inherited' \subseteq Terminals /\ losses' \in 0..MaxLosses
<1>1. CASE sessions[t] = None /\ records[t] # None
  BY <1>1, RemoveEntry DEF close, TypeOK
<1>2. CASE ~(sessions[t] = None /\ records[t] # None)
  <2>1. close_session(t, by, "closed") /\ orphaned' = orphaned
    BY <1>2 DEF close
  <2>2. QED
    BY <2>1, CloseSessionType DEF TypeOK
<1>3. QED
  BY <1>1, <1>2

(* A creation task that starts is one of the model's.                       *)
LEMMA StartTaskType ==
  ASSUME TypeOK, NEW t, NEW task \in Creations, StartTask(t, task)
  PROVE  tasks' \in [Terminals -> Creations \cup {None}]
<1>1. tasks \in [Terminals -> Creations \cup {None}]
  BY DEF TypeOK
<1>2. QED
  BY <1>1 DEF StartTask

(* A row that is opened is one of the model's.                              *)
LEMMA OpenRowType ==
  ASSUME TypeOK, NEW t, row' \in {row, [row EXCEPT ![t] = "opening"]}
  PROVE  row' \in [Terminals -> Rows \cup {None}]
<1>1. row \in [Terminals -> Rows \cup {None}] /\ "opening" \in Rows
  BY DEF TypeOK, Rows
<1>2. QED
  BY <1>1

(* The types hold initially.                                                *)
LEMMA TypeInit == Init => Typed
  BY DEF Init, Typed, TypeOK, EndsAreCounted, Nothing, Rows, Handles, RuntimeRecords, Creations,
         OutputThreads, Closings, Events

(* Every step keeps the types.                                             *)
LEMMA TypeStep == ASSUME Typed, [Next]_vars PROVE Typed'
<1> USE DEF backendVars, localVars, workVars, startVars, historyVars
<1>1. TypeOK /\ EndsAreCounted
  BY DEF Typed
<1>2. ASSUME NEW t \in Terminals, create_terminal(t) PROVE Typed'
  BY <1>1, <1>2 DEF create_terminal, Typed, TypeOK, EndsAreCounted, Rows, Events
<1>3. ASSUME NEW t \in Terminals, close_terminal(t) PROVE Typed'
  <2>1. losses' \in 0..MaxLosses /\ astray' \subseteq Terminals /\ publishing' \subseteq Events
    BY <1>1, <1>3 DEF close_terminal, TypeOK, Events
  <2>2. row' \in [Terminals -> Rows \cup {None}]
    BY <1>1, <1>3 DEF close_terminal, TypeOK, Rows
  <2>3. QED
    BY <1>1, <1>3, <2>1, <2>2 DEF close_terminal, Typed, TypeOK, EndsAreCounted
<1>34. ASSUME NEW t \in Terminals, handle_terminal_socket(t) PROVE Typed'
  BY <1>1, <1>34 DEF handle_terminal_socket, Typed, TypeOK, EndsAreCounted, Events
<1>4. ASSUME NEW t \in Terminals, create_local_terminal_session(t) PROVE Typed'
  <2>1. PICK plan \in select_terminal_launch :
          \/ /\ StartTask(t, Task("local", plan, FALSE, "spawn")) /\ UNCHANGED <<row, losses>>
          \/ /\ row' = create_local_desktop_terminal(t)
             /\ \/ StartTask(t, Task("local", plan, TRUE, "spawn")) /\ UNCHANGED losses
                \/ losses < MaxLosses /\ losses' = losses + 1 /\ UNCHANGED tasks
    BY <1>4 DEF create_local_terminal_session
  <2>2. \A shadowed \in BOOLEAN : Task("local", plan, shadowed, "spawn") \in Creations
    BY DEF Task, Creations
  <2>3. tasks' \in [Terminals -> Creations \cup {None}]
    <3>1. tasks' = tasks \/ \E shadowed \in BOOLEAN :
            StartTask(t, Task("local", plan, shadowed, "spawn"))
      BY <2>1
    <3>2. QED
      BY <1>1, <2>2, <3>1, StartTaskType DEF TypeOK
  <2>4. losses' \in 0..MaxLosses
    <3>1. losses' = losses \/ (losses < MaxLosses /\ losses' = losses + 1)
      BY <2>1
    <3>2. QED
      BY <1>1, <3>1 DEF TypeOK
  <2>5. row' \in [Terminals -> Rows \cup {None}]
    BY <1>1, <2>1 DEF create_local_desktop_terminal, TypeOK, Rows
  <2>6. QED
    BY <1>1, <1>4, <2>3, <2>5, <2>4
       DEF create_local_terminal_session, Typed, TypeOK, EndsAreCounted
<1>5. ASSUME NEW t \in Terminals, create_codex_terminal(t) PROVE Typed'
  <2>1. \A shadowed \in BOOLEAN : Task("ai", "legacy", shadowed, "spawn") \in Creations
    BY DEF Task, Creations, select_terminal_launch
  <2>2. PICK shadowed \in BOOLEAN :
          /\ row' = IF shadowed THEN [row EXCEPT ![t] = "opening"] ELSE row
          /\ StartTask(t, Task("ai", "legacy", shadowed, "spawn"))
    BY <1>5 DEF create_codex_terminal
  <2>3. tasks' \in [Terminals -> Creations \cup {None}]
    BY <1>1, <2>1, <2>2, StartTaskType
  <2>4. row' \in [Terminals -> Rows \cup {None}]
    BY <1>1, <2>2, OpenRowType
  <2>5. QED
    BY <1>1, <1>5, <2>3, <2>4 DEF create_codex_terminal, Typed, TypeOK, EndsAreCounted
<1>6. ASSUME NEW t \in Terminals, SpawnProcess(t) PROVE Typed'
  <2>1. tasks[t] # None /\ tasks[t] \in Creations
    BY <1>1, <1>6 DEF SpawnProcess, TypeOK
  <2>2. Handle(tasks[t].remote_sync, tasks[t].plan) \in Handles
    BY <2>1 DEF Handle, Handles, HandleStates, Creations
  <2>3. tasks' \in [Terminals -> Creations \cup {None}]
    <3>1. CASE tasks' = [tasks EXCEPT ![t].step = "update"]
      BY <1>1, <2>1, <3>1, TaskStepType
    <3>2. CASE tasks' = [tasks EXCEPT ![t] = AfterError(tasks[t])]
      BY <1>1, <2>1, <3>2, AfterErrorType DEF TypeOK
    <3>3. QED
      BY <1>6, <3>1, <3>2 DEF SpawnProcess
  <2>4. /\ sessions' \in [Terminals -> Handles \cup {None}] /\ procs' \subseteq Terminals
        /\ tmux' \subseteq Terminals /\ astray' \subseteq Terminals /\ losses' \in 0..MaxLosses
    BY <1>1, <1>6, <2>2 DEF SpawnProcess, TypeOK
  <2>5. QED
    BY <1>1, <1>6, <2>3, <2>4 DEF SpawnProcess, Typed, TypeOK, EndsAreCounted
<1>7. ASSUME NEW t \in Terminals, update_state(t) PROVE Typed'
  <2>1. tasks' \in [Terminals -> Creations \cup {None}]
    BY <1>1, <1>7, TaskStepType DEF update_state
  <2>2. QED
    BY <1>1, <1>7, <2>1 DEF update_state, Typed, TypeOK, EndsAreCounted
<1>8. ASSUME NEW t \in Terminals, ReportActive(t) PROVE Typed'
  <2>1. tasks' \in [Terminals -> Creations \cup {None}]
    <3>1. CASE tasks' = [tasks EXCEPT ![t].step = "thread"]
      BY <1>1, <1>8, <3>1, TaskStepType DEF ReportActive
    <3>2. CASE tasks' = [tasks EXCEPT ![t].step = "undo"]
      BY <1>1, <1>8, <3>2, TaskStepType DEF ReportActive
    <3>3. QED
      BY <1>8, <3>1, <3>2 DEF ReportActive
  <2>2. row' \in [Terminals -> Rows \cup {None}] /\ losses' \in 0..MaxLosses
    BY <1>1, <1>8 DEF ReportActive, update_terminal_state, Rows, TypeOK
  <2>3. QED
    BY <1>1, <1>8, <2>1, <2>2 DEF ReportActive, Typed, TypeOK, EndsAreCounted
<1>9. ASSUME NEW t \in Terminals, UndoCreation(t) PROVE Typed'
  <2>1. tasks' \in [Terminals -> Creations \cup {None}]
    BY <1>1, <1>9, AfterErrorType DEF UndoCreation, TypeOK
  <2>2. QED
    BY <1>1, <1>9, <2>1, DropHandleType DEF UndoCreation, Typed, TypeOK, EndsAreCounted
<1>10. ASSUME NEW t \in Terminals, StartThread(t) PROVE Typed'
  <2>1. tasks' \in [Terminals -> Creations \cup {None}]
    BY <1>1, <1>10, TaskStepType DEF StartThread
  <2>2. threads' \in [Terminals -> OutputThreads \cup {None}]
    BY <1>1, <1>10 DEF StartThread, OutputThreads, Creations, TypeOK
  <2>3. QED
    BY <1>1, <1>10, <2>1, <2>2 DEF StartThread, Typed, TypeOK, EndsAreCounted
<1>11. ASSUME NEW t \in Terminals, FinishCreation(t) PROVE Typed'
  <2>1. records' \in [Terminals -> RuntimeRecords \cup {None}]
    BY <1>1, <1>11, RecordOfType DEF FinishCreation, persist_runtime_registry_entry, TypeOK
  <2>2. losses' \in 0..MaxLosses
    BY <1>1, <1>11 DEF FinishCreation, TypeOK
  <2>3. tasks' \in [Terminals -> Creations \cup {None}]
    BY <1>1, <1>11 DEF FinishCreation, TypeOK
  <2>4. QED
    BY <1>1, <1>11, <2>1, <2>2, <2>3 DEF FinishCreation, Typed, TypeOK, EndsAreCounted
<1>12. ASSUME NEW t \in Terminals, ReportFailure(t) PROVE Typed'
  <2>1. /\ row' \in [Terminals -> Rows \cup {None}] /\ losses' \in 0..MaxLosses
        /\ astray' \subseteq Terminals
    BY <1>1, <1>12 DEF ReportFailure, update_terminal_state, Rows, TypeOK
  <2>2. QED
    BY <1>1, <1>12, <2>1 DEF ReportFailure, Typed, TypeOK, EndsAreCounted
<1>13. ASSUME NEW t \in Terminals, close_local_terminal_session(t) PROVE Typed'
  BY <1>1, <1>13, CloseType
     DEF close_local_terminal_session, Typed, TypeOK, EndsAreCounted
<1>14. ASSUME NEW t \in Terminals, NEW by \in {"loop", "local"}, write_input(t, by) PROVE Typed'
  BY <1>1, <1>14, CloseSessionType DEF write_input, Typed, TypeOK, EndsAreCounted
<1>15. ASSUME NEW t \in Terminals, ProcessExits(t) PROVE Typed'
  BY <1>1, <1>15 DEF ProcessExits, Typed, TypeOK, EndsAreCounted
<1>16. ASSUME NEW t \in Terminals, stream_terminal_output(t) PROVE Typed'
  <2>1. PICK state \in {"closed", "error"} :
          /\ threads' = [threads EXCEPT ![t].step = "report", ![t].state = state]
          /\ sessions' = IF sessions[t] = None THEN sessions
                         ELSE [sessions EXCEPT ![t].state = state]
    BY <1>16 DEF stream_terminal_output
  <2>2. threads' \in [Terminals -> OutputThreads \cup {None}]
    BY <1>1, <1>16, <2>1, ThreadType DEF stream_terminal_output
  <2>3. sessions' \in [Terminals -> Handles \cup {None}]
    BY <1>1, <2>1, HandleStateType DEF TypeOK
  <2>4. QED
    BY <1>1, <1>16, <2>2, <2>3 DEF stream_terminal_output, Typed, TypeOK, EndsAreCounted
<1>17. ASSUME NEW t \in Terminals, update_terminal_remote_state(t) PROVE Typed'
  <2>1. threads' \in [Terminals -> OutputThreads \cup {None}]
    <3>1. threads[t] # None /\ threads[t] \in OutputThreads
      BY <1>1, <1>17 DEF update_terminal_remote_state, TypeOK
    <3>2. threads[t].state \in {"closed", "error"}
      BY <3>1 DEF OutputThreads
    <3>3. QED
      BY <1>1, <1>17, <3>1, <3>2, ThreadType DEF update_terminal_remote_state
  <2>2. /\ row' \in [Terminals -> Rows \cup {None}] /\ losses' \in 0..MaxLosses
        /\ astray' \subseteq Terminals
    BY <1>1, <1>17
       DEF update_terminal_remote_state, update_terminal_state, Rows, OutputThreads, TypeOK
  <2>3. QED
    BY <1>1, <1>17, <2>1, <2>2 DEF update_terminal_remote_state, Typed, TypeOK, EndsAreCounted
<1>18. ASSUME NEW t \in Terminals, cleanup_finished_local_terminal_session(t) PROVE Typed'
  <2>1. /\ records' \in [Terminals -> RuntimeRecords \cup {None}]
        /\ inherited' \subseteq Terminals /\ losses' \in 0..MaxLosses
    BY <1>1, <1>18, RemoveEntry DEF cleanup_finished_local_terminal_session, TypeOK
  <2>2. threads' \in [Terminals -> OutputThreads \cup {None}]
    BY <1>1, <1>18 DEF cleanup_finished_local_terminal_session, TypeOK
  <2>3. QED
    BY <1>1, <1>18, <2>1, <2>2, DropHandleType
       DEF cleanup_finished_local_terminal_session, Typed, TypeOK, EndsAreCounted
<1>19. ASSUME NEW t \in Terminals, shutdown_cleanup(t) PROVE Typed'
  BY <1>1, <1>19, CloseSessionType DEF shutdown_cleanup, Typed, TypeOK, EndsAreCounted
<1>20. ASSUME NEW t \in Terminals, reconcile_persisted_runtime_record(t) PROVE Typed'
  <2>1. Task("start", "tmux", FALSE, "spawn") \in Creations
    BY DEF Task, Creations, select_terminal_launch
  <2>2. tasks' \in [Terminals -> Creations \cup {None}]
    <3>1. tasks' = tasks \/ StartTask(t, Task("start", "tmux", FALSE, "spawn"))
      BY <1>20 DEF reconcile_persisted_runtime_record
    <3>2. QED
      BY <1>1, <2>1, <3>1, StartTaskType DEF TypeOK
  <2>3. QED
    BY <1>1, <1>20, <2>2 DEF reconcile_persisted_runtime_record, Typed, TypeOK, EndsAreCounted
<1>21. ASSUME NEW t \in Terminals, SessionEnds(t) PROVE Typed'
  BY <1>1, <1>21 DEF SessionEnds, Typed, TypeOK, EndsAreCounted
<1>22. ASSUME NEW e \in publishing, PublishToDesktop(e) PROVE Typed'
  <2>1. e \in Events /\ e[2] \in Terminals
    BY <1>1 DEF TypeOK, Events
  <2>2. events' \in Seq(Events)
    <3>1. events \in Seq(Events)
      BY <1>1 DEF TypeOK
    <3>2. Append(events, e) \in Seq(Events)
      BY <2>1, <3>1, AppendEvent
    <3>3. QED
      BY <1>22, <3>1, <3>2 DEF PublishToDesktop
  <2>3. row' \in [Terminals -> Rows \cup {None}] /\ astray' \subseteq Terminals
    BY <1>1, <1>22, <2>1 DEF PublishToDesktop, Rows, TypeOK
  <2>4. QED
    BY <1>1, <1>22, <2>2, <2>3 DEF PublishToDesktop, Typed, TypeOK, EndsAreCounted
<1>23. ASSUME NEW c \in closers, ReportClosing(c) PROVE Typed'
  <2>1. c.t \in Terminals /\ c.state \in Rows
    BY <1>1 DEF TypeOK, Closings, Rows
  <2>2. row' \in [Terminals -> Rows \cup {None}] /\ losses' \in 0..MaxLosses
    BY <1>1, <1>23, <2>1 DEF ReportClosing, update_terminal_state, TypeOK
  <2>3. QED
    BY <1>1, <1>23, <2>2 DEF ReportClosing, Typed, TypeOK, EndsAreCounted
<1>24. CASE Disconnect
  <2>1. ToSet(events) \subseteq Events
    BY <1>1 DEF TypeOK, ToSet
  <2>2. astray' \subseteq Terminals /\ losses' \in 0..MaxLosses
    BY <1>1, <1>24, <2>1 DEF Disconnect, TypeOK, Events
  <2>3. events' \in Seq(Events)
    BY <1>24 DEF Disconnect
  <2>4. QED
    BY <1>1, <1>24, <2>2, <2>3 DEF Disconnect, Typed, TypeOK, EndsAreCounted
<1>25. CASE Connect
  BY <1>1, <1>25 DEF Connect, Typed, TypeOK, EndsAreCounted
<1>26. CASE handle_terminal_create
  <2>1. Head(events) \in Events /\ Tail(events) \in Seq(Events)
    BY <1>1, <1>26, TakeEvent DEF handle_terminal_create, TypeOK
  <2>2. \A plan \in select_terminal_launch : Task("loop", plan, TRUE, "spawn") \in Creations
    BY DEF Task, Creations
  <2>3. tasks' \in [Terminals -> Creations \cup {None}]
    <3>1. PICK plan \in select_terminal_launch :
            StartTask(Head(events)[2], Task("loop", plan, TRUE, "spawn"))
      BY <1>26 DEF handle_terminal_create
    <3>2. QED
      BY <1>1, <2>2, <3>1, StartTaskType
  <2>4. QED
    BY <1>1, <1>26, <2>1, <2>3 DEF handle_terminal_create, Typed, TypeOK, EndsAreCounted
<1>27. CASE handle_terminal_close
  <2>1. Head(events) \in Events /\ Tail(events) \in Seq(Events)
    BY <1>1, <1>27, TakeEvent DEF handle_terminal_close, TypeOK
  <2>2. Head(events)[2] \in Terminals
    BY <2>1 DEF Events
  <2>3. QED
    BY <1>1, <1>27, <2>1, <2>2, CloseType
       DEF handle_terminal_close, Typed, TypeOK, EndsAreCounted
<1>28. CASE shutdown_signal
  BY <1>1, <1>28 DEF shutdown_signal, Typed, TypeOK, EndsAreCounted
<1>29. CASE ServeLoopExit
  BY <1>1, <1>29 DEF ServeLoopExit, Typed, TypeOK, EndsAreCounted
<1>30. CASE ServerEnds
  <2>1. crashes' \in 0..MaxCrashes
    BY <1>1, <1>30 DEF ServerEnds, EndsAreCounted, TypeOK
  <2>2. Nothing \in [Terminals -> {None}] /\ <<>> \in Seq(Events)
    BY DEF Nothing
  <2>3. inherited' \subseteq Terminals /\ orphaned' \subseteq Terminals /\ astray' \subseteq Terminals
    BY <1>1, <1>30 DEF ServerEnds, load_runtime_records, TypeOK
  <2>4. QED
    BY <1>1, <1>30, <2>1, <2>2, <2>3 DEF ServerEnds, Typed, TypeOK, EndsAreCounted
<1>31. CASE reconcile_persisted_runtimes
  <2>1. losses' \in 0..MaxLosses /\ backlog' \subseteq Terminals
    BY <1>1, <1>31 DEF reconcile_persisted_runtimes, load_runtime_records, TypeOK
  <2>2. QED
    BY <1>1, <1>31, <2>1 DEF reconcile_persisted_runtimes, Typed, TypeOK, EndsAreCounted
<1>32. CASE StartServing
  BY <1>1, <1>32 DEF StartServing, Typed, TypeOK, EndsAreCounted
<1>33. CASE UNCHANGED vars
  BY <1>1, <1>33 DEF vars, Typed, TypeOK, EndsAreCounted
<1> QED
  BY <1>2, <1>3, <1>4, <1>5, <1>6, <1>7, <1>8, <1>9, <1>10, <1>11, <1>12, <1>13, <1>14, <1>15,
     <1>16,
     <1>17, <1>18, <1>19, <1>20, <1>21, <1>22, <1>23, <1>24, <1>25, <1>26, <1>27, <1>28, <1>29,
     <1>30, <1>31,
     <1>32, <1>33, <1>34
  DEF Next

(* Every reachable state is well typed.                                    *)
THEOREM TypeCorrect == Spec => []TypeOK
<1>1. Typed /\ [Next]_vars => Typed'
  BY TypeStep
<1>2. Typed => TypeOK
  BY DEF Typed
<1> QED BY TypeInit, <1>1, <1>2, PTL DEF Spec
-----------------------------------------------------------------------------
(* What nothing outlives                                                   *)

(* Nothing exists initially.                                                *)
LEMMA OwnershipInit == Init => Ownership
  BY DEF Init, Ownership, CreatedOnce, DownIsEmpty, Owned, FreshId, InheritanceIsSound,
         TaskIsSound, HandleIsSound, Untouched, Pending, Nothing, ToSet

(* Nothing changes for a terminal whose part of the state does not.         *)
LEMMA OwnedFrame ==
  ASSUME NEW x \in Terminals, Owned(x),
         tasks'[x] = tasks[x], sessions'[x] = sessions[x],
         threads'[x] = threads[x], records'[x] = records[x],
         x \in made' <=> x \in made, x \in procs' => x \in procs, x \in tmux' => x \in tmux,
         x \in backlog' => x \in backlog, mode' = mode,
         x \in inherited' <=> x \in inherited, x \in orphaned => x \in orphaned',
         x \in astray => x \in astray',
         Pending("create", x)' => Pending("create", x)
  PROVE  Owned(x)'
  BY DEF Owned, FreshId, InheritanceIsSound, TaskIsSound, HandleIsSound, Untouched, Takeover

(* Terminal t has no handle any more, its record went with it or could not  *)
(* be removed, and a tmux session that is left can be found or is known to  *)
(* be lost.                                                                *)
Closed(t) ==
  /\ sessions'[t] = None /\ t \notin procs'
  /\ \/ records'[t] = None
     \/ records'[t] = records[t] /\ (records[t] # None => t \in inherited')
  /\ t \in inherited => t \in inherited'
  /\ t \in inherited' => t \in inherited \/ (records[t] # None /\ ~(t \in tmux' /\ Takeover(t)))
  /\ t \in tmux' \ orphaned' => Takeover(t)'
  /\ t \in tmux' => t \in tmux
  /\ \A x \in Terminals \ {t} :
       /\ sessions'[x] = sessions[x] /\ records'[x] = records[x]
       /\ x \in procs' <=> x \in procs
       /\ x \in tmux' <=> x \in tmux
       /\ x \in orphaned' <=> x \in orphaned
       /\ x \in inherited' <=> x \in inherited

(* A handle taken out with its record leaves the terminal owned,            *)
LEMMA DropOwned ==
  ASSUME TypeOK, NEW t \in Terminals, Owned(t), sessions[t] # None,
         DropHandle(t), remove_runtime_registry_entry(t), orphaned' = orphaned
  PROVE  Closed(t)
<1>1. /\ sessions'[t] = None /\ t \notin procs' /\ (t \in tmux' => t \in tmux)
      /\ t \in tmux' => ~sessions[t].tmux
      /\ \A x \in Terminals \ {t} : /\ sessions'[x] = sessions[x]
                                    /\ x \in procs' <=> x \in procs
                                    /\ x \in tmux' <=> x \in tmux
  BY DEF DropHandle, TypeOK
<1>2. t \in tmux' => t \in orphaned
  BY <1>1 DEF Owned, HandleIsSound
<1>3. records[t] # None => ~(t \in tmux' /\ Takeover(t))
  BY <1>1 DEF Owned, HandleIsSound
<1>4. QED
  BY <1>1, <1>2, <1>3, RemoveEntry DEF Closed

(* and so does closing one, with a handle                                   *)
LEMMA CloseSessionOwned ==
  ASSUME TypeOK, NEW t \in Terminals, Owned(t), NEW by, NEW state,
         close_session(t, by, state), orphaned' = orphaned
  PROVE  Closed(t)
<1>1. CASE sessions[t] = None
  BY <1>1 DEF close_session, localVars, TypeOK, Owned, HandleIsSound, Takeover, Closed
<1>2. CASE sessions[t] # None
  BY <1>2, DropOwned DEF close_session
<1>3. QED
  BY <1>1, <1>2

(* or with only a record.                                                  *)
LEMMA CloseOwned ==
  ASSUME TypeOK, NEW t \in Terminals, Owned(t), NEW by, close(t, by)
  PROVE  Closed(t)
<1>1. CASE sessions[t] = None /\ records[t] # None
  <2>1. remove_runtime_registry_entry(t) /\ UNCHANGED <<sessions, procs, tmux>>
        /\ orphaned' = IF t \in tmux /\ records'[t] = None THEN orphaned \cup {t} ELSE orphaned
    BY <1>1 DEF close
  <2>2. t \in inherited /\ t \notin procs /\ (t \in tmux \ orphaned => Takeover(t))
    BY <1>1 DEF Owned, HandleIsSound
  <2>3. QED
    BY <1>1, <2>1, <2>2, RemoveEntry DEF Takeover, Closed
<1>2. CASE ~(sessions[t] = None /\ records[t] # None)
  BY <1>2, CloseSessionOwned DEF close
<1>3. QED
  BY <1>1, <1>2

(* The clean-up of an output thread closes its terminal the same way.       *)
LEMMA CleanupOwned ==
  ASSUME TypeOK, NEW t \in Terminals, Owned(t), cleanup_finished_local_terminal_session(t)
  PROVE  Closed(t)
<1>1. CASE sessions[t] = None
  <2>1. UNCHANGED <<sessions, procs, tmux, records, inherited, orphaned>>
    BY <1>1 DEF cleanup_finished_local_terminal_session, DropHandle, TypeOK, historyVars
  <2>2. QED
    BY <1>1, <2>1 DEF Owned, HandleIsSound, Takeover, Closed
<1>2. CASE sessions[t] # None
  <2>1. DropHandle(t) /\ remove_runtime_registry_entry(t) /\ orphaned' = orphaned
    BY <1>2 DEF cleanup_finished_local_terminal_session, historyVars
  <2>2. QED
    BY <1>2, <2>1, DropOwned
<1>3. QED
  BY <1>1, <1>2

(* Taking an event from the stream takes it for good.                      *)
LEMMA TakenOnce ==
  ASSUME CreatedOnce, events \in Seq(Events), events # <<>>,
         events' = Tail(events), publishing' = publishing
  PROVE  /\ CreatedOnce'
         /\ Head(events)[1] = "create" => Head(events) \notin publishing' \cup ToSet(events')
<1>1. /\ Len(events) \in Nat /\ Len(events') = Len(events) - 1 /\ Head(events) = events[1]
      /\ 1 \in 1 .. Len(events)
      /\ \A i \in 1 .. Len(events') : events'[i] = events[i + 1] /\ i + 1 \in 1 .. Len(events)
  BY TakeEvent
<1>2. CreatedOnce'
  BY <1>1 DEF CreatedOnce
<1>3. events' \in Seq(Events)
  BY TakeEvent
<1>4. ASSUME Head(events)[1] = "create", NEW i \in 1 .. Len(events')
      PROVE  events'[i] # Head(events)
  BY <1>1, <1>4 DEF CreatedOnce
<1>5. QED
  BY <1>1, <1>2, <1>3, <1>4 DEF CreatedOnce, ToSet

(* Every step keeps the ownership.                                         *)
LEMMA OwnershipStep == ASSUME Typed, Ownership, [Next]_vars PROVE Ownership'
<1> USE DEF backendVars, localVars, workVars, startVars, historyVars
<1>1. /\ TypeOK /\ CreatedOnce /\ DownIsEmpty
      /\ \A x \in Terminals : Owned(x)
  BY DEF Typed, Ownership
<1>2. ASSUME NEW t \in Terminals, create_terminal(t) PROVE Ownership'
  <2>1. ~Pending("create", t) /\ Untouched(t)
    BY <1>1, <1>2 DEF create_terminal, Owned, FreshId
  <2>2. CreatedOnce' /\ DownIsEmpty'
    <3>1. \A i \in 1 .. Len(events) : events[i] # <<"create", t>>
      BY <1>1, <2>1 DEF Pending, ToSet, TypeOK
    <3>2. QED
      BY <1>1, <1>2, <3>1 DEF create_terminal, CreatedOnce, DownIsEmpty, Nothing
  <2>3. ASSUME NEW x \in Terminals PROVE Owned(x)'
    <3>1. CASE x = t
      BY <1>1, <1>2, <2>1, <3>1
         DEF create_terminal, TypeOK, Owned, FreshId, InheritanceIsSound, TaskIsSound,
             HandleIsSound, Untouched, Takeover, Pending, Rows
    <3>2. CASE x # t
      BY <1>1, <1>2, <3>2, OwnedFrame DEF create_terminal, TypeOK, Pending
    <3>3. QED
      BY <3>1, <3>2
  <2>4. QED
    BY <2>2, <2>3 DEF Ownership
<1>3. ASSUME NEW t \in Terminals, close_terminal(t) PROVE Ownership'
  <2>1. CreatedOnce' /\ DownIsEmpty'
    BY <1>1, <1>3 DEF close_terminal, CreatedOnce, DownIsEmpty, Nothing
  <2>2. ASSUME NEW x \in Terminals PROVE Owned(x)'
    <3>1. Pending("create", x)' <=> Pending("create", x)
      BY <1>3 DEF close_terminal, Pending
    <3>2. QED
      BY <1>1, <1>3, <3>1 DEF close_terminal, Owned, FreshId, InheritanceIsSound, TaskIsSound,
         HandleIsSound, Untouched, Takeover
  <2>3. QED
    BY <2>1, <2>2 DEF Ownership
<1>33. ASSUME NEW t \in Terminals, handle_terminal_socket(t) PROVE Ownership'
  <2>1. CreatedOnce' /\ DownIsEmpty'
    BY <1>1, <1>33 DEF handle_terminal_socket, CreatedOnce, DownIsEmpty, Nothing
  <2>2. ASSUME NEW x \in Terminals PROVE Owned(x)'
    <3>1. Pending("create", x)' <=> Pending("create", x)
      BY <1>33 DEF handle_terminal_socket, Pending
    <3>2. QED
      BY <1>1, <1>33, <3>1, OwnedFrame DEF handle_terminal_socket
  <2>3. QED
    BY <2>1, <2>2 DEF Ownership
<1>4. ASSUME NEW t \in Terminals, create_local_terminal_session(t) PROVE Ownership'
  <2>1. /\ ~Pending("create", t) /\ Untouched(t) /\ Owned(t) /\ t \notin made /\ t \in made'
        /\ UNCHANGED <<publishing, events, sessions, threads, records, procs, tmux>>
        /\ UNCHANGED <<mode, backlog, inherited, orphaned, astray>>
    BY <1>1, <1>4 DEF create_local_terminal_session, Owned, FreshId
  <2>2. /\ tasks'[t] # None => /\ tasks'[t].by = "local" /\ tasks'[t].step = "spawn"
        /\ \A x \in Terminals \ {t} : tasks'[x] = tasks[x] /\ row'[x] = row[x]
    <3>1. PICK plan \in select_terminal_launch :
            \/ /\ StartTask(t, Task("local", plan, FALSE, "spawn")) /\ UNCHANGED <<row, losses>>
            \/ /\ row' = create_local_desktop_terminal(t)
               /\ \/ StartTask(t, Task("local", plan, TRUE, "spawn")) /\ UNCHANGED losses
                  \/ losses < MaxLosses /\ losses' = losses + 1 /\ UNCHANGED tasks
      BY <1>4 DEF create_local_terminal_session
    <3>2. row' = row \/ row' = create_local_desktop_terminal(t)
      BY <3>1
    <3>3. tasks' = tasks \/ \E shadowed \in BOOLEAN :
            StartTask(t, Task("local", plan, shadowed, "spawn"))
      BY <3>1
    <3>4. QED
      BY <1>1, <2>1, <3>2, <3>3
         DEF create_local_desktop_terminal, StartTask, Task, TypeOK, Untouched
  <2>3. CreatedOnce' /\ DownIsEmpty'
    BY <1>1, <1>4, <2>1 DEF create_local_terminal_session, Accepting, Serving,
       CreatedOnce, DownIsEmpty
  <2>4. ASSUME NEW x \in Terminals PROVE Owned(x)'
    <3>1. CASE x = t
      BY <2>1, <2>2, <3>1
         DEF Owned, FreshId, InheritanceIsSound, TaskIsSound, HandleIsSound, Untouched,
             Takeover, Pending
    <3>2. CASE x # t
      BY <1>1, <1>4, <2>1, <2>2, <3>2, OwnedFrame
         DEF create_local_terminal_session, TypeOK, Pending
    <3>3. QED
      BY <3>1, <3>2
  <2>5. QED
    BY <2>3, <2>4 DEF Ownership
<1>5. ASSUME NEW t \in Terminals, create_codex_terminal(t) PROVE Ownership'
  <2>1. /\ ~Pending("create", t) /\ Untouched(t) /\ Owned(t) /\ t \notin made /\ t \in made'
        /\ UNCHANGED <<publishing, events, sessions, threads, records, procs, tmux>>
        /\ UNCHANGED <<mode, backlog, inherited, orphaned, astray>>
    BY <1>1, <1>5 DEF create_codex_terminal, Owned, FreshId
  <2>2. /\ tasks'[t] # None => /\ tasks'[t].by = "ai" /\ tasks'[t].step = "spawn"
        /\ \A x \in Terminals \ {t} : tasks'[x] = tasks[x] /\ row'[x] = row[x]
    BY <1>1, <1>5, <2>1 DEF create_codex_terminal, StartTask, Task, TypeOK
  <2>3. CreatedOnce' /\ DownIsEmpty'
    BY <1>1, <1>5, <2>1 DEF create_codex_terminal, Accepting, Serving, CreatedOnce, DownIsEmpty
  <2>4. ASSUME NEW x \in Terminals PROVE Owned(x)'
    <3>1. CASE x = t
      BY <2>1, <2>2, <3>1
         DEF Owned, FreshId, InheritanceIsSound, TaskIsSound, HandleIsSound, Untouched,
             Takeover, Pending
    <3>2. CASE x # t
      BY <1>1, <1>5, <2>1, <2>2, <3>2, OwnedFrame DEF create_codex_terminal, TypeOK, Pending
    <3>3. QED
      BY <3>1, <3>2
  <2>5. QED
    BY <2>3, <2>4 DEF Ownership
<1>6. ASSUME NEW t \in Terminals, SpawnProcess(t) PROVE Ownership'
  <2>1. /\ tasks[t] \in Creations /\ tasks[t] # None /\ tasks[t].step = "spawn"
        /\ sessions[t] = None /\ Owned(t)
    BY <1>1, <1>6 DEF SpawnProcess, TypeOK, Owned, TaskIsSound
  <2>2. CreatedOnce' /\ DownIsEmpty'
    BY <1>1, <1>6 DEF SpawnProcess, CreatedOnce, DownIsEmpty, Nothing
  <2>3. ASSUME NEW x \in Terminals PROVE Owned(x)'
    <3>1. CASE x = t
      <4>1. CASE /\ procs' = procs \cup {t}
                 /\ tmux' = IF tasks[t].plan = "tmux" THEN tmux \cup {t} ELSE tmux
                 /\ sessions' = [sessions EXCEPT ![t] = Handle(tasks[t].remote_sync, tasks[t].plan)]
                 /\ tasks' = [tasks EXCEPT ![t].step = "update"]
        <5>1. /\ tasks'[t] # None /\ tasks'[t].step = "update" /\ tasks'[t].by = tasks[t].by
              /\ tasks'[t].plan = tasks[t].plan /\ tasks'[t].remote_sync = tasks[t].remote_sync
          BY <1>1, <2>1, <4>1, TaskStepFields
        <5>2. /\ sessions'[t] # None /\ sessions'[t].remote_sync = tasks[t].remote_sync
              /\ sessions'[t].tmux <=> tasks[t].plan = "tmux"
              /\ sessions'[t].state = "active"
              /\ tmux' = IF tasks[t].plan = "tmux" THEN tmux \cup {t} ELSE tmux
              /\ records' = records /\ inherited' = inherited /\ orphaned' = orphaned
          <6>1. Handle(tasks[t].remote_sync, tasks[t].plan) \in Handles
            BY <2>1 DEF Handle, Handles, HandleStates, Creations
          <6>2. sessions'[t] = Handle(tasks[t].remote_sync,
          tasks[t].plan) /\ sessions'[t] # None
            BY <1>1, <4>1, <6>1 DEF TypeOK
          <6>3. records' = records /\ inherited' = inherited /\ orphaned' = orphaned
            BY <1>6 DEF SpawnProcess
          <6>4. /\ sessions'[t].remote_sync = tasks[t].remote_sync
                /\ sessions'[t].tmux = (tasks[t].plan = "tmux") /\ sessions'[t].state = "active"
            BY <6>2 DEF Handle
          <6>5. QED
            BY <4>1, <6>2, <6>3, <6>4
        <5>3. QED
          BY <1>6, <2>1, <3>1, <5>1, <5>2
             DEF SpawnProcess, Owned, FreshId, InheritanceIsSound, TaskIsSound, HandleIsSound,
                 Untouched, Takeover, Pending
      <4>2. CASE tasks' = [tasks EXCEPT ![t] = AfterError(tasks[t])]
                 /\ UNCHANGED <<procs, tmux, sessions>>
        <5>1. tasks'[t] = AfterError(tasks[t]) /\ tasks'[t] # None
          BY <1>1, <2>1, <4>2, AfterErrorType DEF TypeOK
        <5>2. QED
          BY <1>6, <2>1, <3>1, <4>2, <5>1, AfterErrorType
             DEF SpawnProcess, Owned, FreshId, InheritanceIsSound, TaskIsSound, HandleIsSound,
                 Untouched, Takeover, Pending
      <4>3. QED
        BY <1>6, <4>1, <4>2 DEF SpawnProcess
    <3>2. CASE x # t
      BY <1>1, <1>6, <3>2, OwnedFrame DEF SpawnProcess, TypeOK, Pending
    <3>3. QED
      BY <3>1, <3>2
  <2>4. QED
    BY <2>2, <2>3 DEF Ownership
<1>7. ASSUME NEW t \in Terminals, update_state(t) PROVE Ownership'
  <2>1. /\ tasks[t] # None /\ tasks'[t] # None /\ tasks'[t].step \in {"report", "thread"}
        /\ tasks'[t].by = tasks[t].by /\ tasks'[t].plan = tasks[t].plan
        /\ tasks'[t].remote_sync = tasks[t].remote_sync
        /\ \A x \in Terminals \ {t} : tasks'[x] = tasks[x]
        /\ tasks[t].step = "update"
        /\ tasks'[t].step = "report" => sessions[t] # None /\ sessions[t].remote_sync
    BY <1>1, <1>7, TaskStepFields DEF update_state, is_remote_sync
  <2>2. CreatedOnce' /\ DownIsEmpty'
    BY <1>1, <1>7 DEF update_state, CreatedOnce, DownIsEmpty, Nothing
  <2>3. ASSUME NEW x \in Terminals PROVE Owned(x)'
    <3>1. CASE x = t
      BY <1>1, <1>7, <3>1, <2>1
         DEF update_state, TypeOK, Owned, FreshId, InheritanceIsSound, TaskIsSound,
             HandleIsSound, Untouched, Takeover, Pending
    <3>2. CASE x # t
      BY <1>1, <1>7, <3>2, OwnedFrame DEF update_state, TypeOK, Pending
    <3>3. QED
      BY <3>1, <3>2
  <2>4. QED
    BY <2>2, <2>3 DEF Ownership
<1>8. ASSUME NEW t \in Terminals, ReportActive(t) PROVE Ownership'
  <2>1. /\ tasks[t] # None /\ tasks'[t] # None /\ tasks'[t].step \in {"thread", "undo"}
        /\ tasks'[t].by = tasks[t].by /\ tasks'[t].plan = tasks[t].plan
        /\ tasks'[t].remote_sync = tasks[t].remote_sync
        /\ \A x \in Terminals \ {t} : tasks'[x] = tasks[x]
        /\ tasks[t].step = "report"
    <3>1. CASE tasks' = [tasks EXCEPT ![t].step = "thread"]
      BY <1>1, <1>8, <3>1, TaskStepFields DEF ReportActive
    <3>2. CASE tasks' = [tasks EXCEPT ![t].step = "undo"]
      BY <1>1, <1>8, <3>2, TaskStepFields DEF ReportActive
    <3>3. QED
      BY <1>8, <3>1, <3>2 DEF ReportActive
  <2>2. \A x \in Terminals : row[x] # None /\ x # t => row'[x] = row[x]
    BY <1>1, <1>8 DEF ReportActive, update_terminal_state, TypeOK
  <2>3. CreatedOnce' /\ DownIsEmpty'
    BY <1>1, <1>8 DEF ReportActive, CreatedOnce, DownIsEmpty, Nothing
  <2>4. ASSUME NEW x \in Terminals PROVE Owned(x)'
    <3>1. CASE x = t
      BY <1>1, <1>8, <3>1, <2>1
         DEF ReportActive, TypeOK, Owned, FreshId, InheritanceIsSound, TaskIsSound,
             HandleIsSound, Untouched, Takeover, Pending
    <3>2. CASE x # t
      BY <1>1, <1>8, <3>2, OwnedFrame DEF ReportActive, TypeOK, Pending, update_terminal_state
    <3>3. QED
      BY <3>1, <3>2
  <2>5. QED
    BY <2>3, <2>4 DEF Ownership
<1>9. ASSUME NEW t \in Terminals, UndoCreation(t) PROVE Ownership'
  <2>1. /\ tasks[t] \in Creations /\ tasks[t] # None /\ tasks[t].step = "undo"
        /\ tasks'[t] = AfterError(tasks[t]) /\ tasks'[t] # None
    BY <1>1, <1>9, AfterErrorType DEF UndoCreation, TypeOK
  <2>2. CreatedOnce' /\ DownIsEmpty'
    BY <1>1, <1>9 DEF UndoCreation, CreatedOnce, DownIsEmpty, Nothing
  <2>3. ASSUME NEW x \in Terminals PROVE Owned(x)'
    <3>1. CASE x = t
      BY <1>1, <1>9, <3>1, <2>1, AfterErrorType
         DEF UndoCreation, TypeOK, Owned, FreshId, InheritanceIsSound, TaskIsSound,
             HandleIsSound, Untouched, Takeover, Pending, DropHandle
    <3>2. CASE x # t
      BY <1>1, <1>9, <3>2, OwnedFrame DEF UndoCreation, TypeOK, Pending, DropHandle
    <3>3. QED
      BY <3>1, <3>2
  <2>4. QED
    BY <2>2, <2>3 DEF Ownership
<1>10. ASSUME NEW t \in Terminals, StartThread(t) PROVE Ownership'
  <2>1. /\ tasks[t] # None /\ tasks'[t] # None /\ tasks'[t].step = "persist"
        /\ tasks'[t].by = tasks[t].by /\ tasks'[t].plan = tasks[t].plan
        /\ tasks'[t].remote_sync = tasks[t].remote_sync
        /\ \A x \in Terminals \ {t} : tasks'[x] = tasks[x]
    BY <1>1, <1>10, TaskStepFields DEF StartThread
  <2>2. CreatedOnce' /\ DownIsEmpty'
    BY <1>1, <1>10 DEF StartThread, CreatedOnce, DownIsEmpty, Nothing
  <2>3. ASSUME NEW x \in Terminals PROVE Owned(x)'
    <3>1. CASE x = t
      BY <1>1, <1>10, <3>1, <2>1
         DEF StartThread, TypeOK, Owned, FreshId, InheritanceIsSound, TaskIsSound,
             HandleIsSound, Untouched, Takeover, Pending
    <3>2. CASE x # t
      BY <1>1, <1>10, <3>2, OwnedFrame DEF StartThread, TypeOK, Pending
    <3>3. QED
      BY <3>1, <3>2
  <2>4. QED
    BY <2>2, <2>3 DEF Ownership
<1>11. ASSUME NEW t \in Terminals, FinishCreation(t) PROVE Ownership'
  <2>1. CreatedOnce' /\ DownIsEmpty'
    BY <1>1, <1>11 DEF FinishCreation, CreatedOnce, DownIsEmpty, Nothing
  <2>2. ASSUME NEW x \in Terminals PROVE Owned(x)'
    <3>1. CASE x = t
      BY <1>1, <1>11, <3>1, RecordOfType
         DEF FinishCreation, TypeOK, Owned, FreshId, InheritanceIsSound, TaskIsSound,
             HandleIsSound, Untouched, Takeover, Pending, persist_runtime_registry_entry
    <3>2. CASE x # t
      BY <1>1, <1>11, <3>2, OwnedFrame
         DEF FinishCreation, TypeOK, Pending, persist_runtime_registry_entry
    <3>3. QED
      BY <3>1, <3>2
  <2>3. QED
    BY <2>1, <2>2 DEF Ownership
<1>12. ASSUME NEW t \in Terminals, ReportFailure(t) PROVE Ownership'
  <2>1. CreatedOnce' /\ DownIsEmpty'
    BY <1>1, <1>12 DEF ReportFailure, CreatedOnce, DownIsEmpty, Nothing
  <2>2. ASSUME NEW x \in Terminals PROVE Owned(x)'
    <3>1. CASE x = t
      BY <1>1, <1>12, <3>1
         DEF ReportFailure, TypeOK, Owned, FreshId, InheritanceIsSound, TaskIsSound,
             HandleIsSound, Untouched, Takeover, Pending
    <3>2. CASE x # t
      BY <1>1, <1>12, <3>2, OwnedFrame DEF ReportFailure, TypeOK, Pending, update_terminal_state
    <3>3. QED
      BY <3>1, <3>2
  <2>3. QED
    BY <2>1, <2>2 DEF Ownership
<1>13. ASSUME NEW t \in Terminals, close_local_terminal_session(t) PROVE Ownership'
  <2>1. Closed(t)
    BY <1>1, <1>13, CloseOwned DEF close_local_terminal_session
  <2>2. CreatedOnce' /\ DownIsEmpty'
    BY <1>1, <1>13 DEF close_local_terminal_session, Accepting, Serving,
       CreatedOnce, DownIsEmpty
  <2>3. ASSUME NEW x \in Terminals PROVE Owned(x)'
    <3>1. CASE x = t
      BY <1>1, <1>13, <2>1, <3>1
         DEF close_local_terminal_session, Closed, TypeOK, Accepting, Serving, Owned, FreshId,
             InheritanceIsSound, TaskIsSound, HandleIsSound, Untouched, Takeover, Pending
    <3>2. CASE x # t
      BY <1>1, <1>13, <2>1, <3>2, OwnedFrame
         DEF close_local_terminal_session, Closed, TypeOK, Pending
    <3>3. QED
      BY <3>1, <3>2
  <2>4. QED
    BY <2>2, <2>3 DEF Ownership
<1>14. ASSUME NEW t \in Terminals, NEW by \in {"loop", "local"}, write_input(t, by)
      PROVE  Ownership'
  <2>1. Closed(t) /\ orphaned' = orphaned
    BY <1>1, <1>14, CloseSessionOwned DEF write_input
  <2>2. CreatedOnce' /\ DownIsEmpty'
    BY <1>1, <1>14 DEF write_input, Running, CreatedOnce, DownIsEmpty
  <2>3. ASSUME NEW x \in Terminals PROVE Owned(x)'
    <3>1. CASE x = t
      BY <1>1, <1>14, <2>1, <3>1
         DEF write_input, Closed, TypeOK, Serving, Owned, FreshId, InheritanceIsSound,
             TaskIsSound, HandleIsSound, Untouched, Takeover, Pending
    <3>2. CASE x # t
      BY <1>1, <1>14, <2>1, <3>2, OwnedFrame DEF write_input, Closed, TypeOK, Pending
    <3>3. QED
      BY <3>1, <3>2
  <2>4. QED
    BY <2>2, <2>3 DEF Ownership
<1>15. ASSUME NEW t \in Terminals, shutdown_cleanup(t) PROVE Ownership'
  <2>1. Closed(t)
    BY <1>1, <1>15, CloseSessionOwned DEF shutdown_cleanup
  <2>2. CreatedOnce' /\ DownIsEmpty'
    BY <1>1, <1>15 DEF shutdown_cleanup, CreatedOnce, DownIsEmpty
  <2>3. ASSUME NEW x \in Terminals PROVE Owned(x)'
    <3>1. CASE x = t
      BY <1>1, <1>15, <2>1, <3>1
         DEF shutdown_cleanup, Closed, TypeOK, Serving, Owned, FreshId, InheritanceIsSound,
             TaskIsSound, HandleIsSound, Untouched, Takeover, Pending
    <3>2. CASE x # t
      BY <1>1, <1>15, <2>1, <3>2, OwnedFrame DEF shutdown_cleanup, Closed, TypeOK, Pending
    <3>3. QED
      BY <3>1, <3>2
  <2>4. QED
    BY <2>2, <2>3 DEF Ownership
<1>16. ASSUME NEW t \in Terminals, ProcessExits(t) PROVE Ownership'
  <2>1. CreatedOnce' /\ DownIsEmpty'
    BY <1>1, <1>16 DEF ProcessExits, CreatedOnce, DownIsEmpty, Nothing
  <2>2. ASSUME NEW x \in Terminals PROVE Owned(x)'
    <3>1. CASE x = t
      BY <1>1, <1>16, <3>1
         DEF ProcessExits, TypeOK, Owned, FreshId, InheritanceIsSound, TaskIsSound,
             HandleIsSound, Untouched, Takeover, Pending
    <3>2. CASE x # t
      BY <1>1, <1>16, <3>2, OwnedFrame DEF ProcessExits, TypeOK, Pending
    <3>3. QED
      BY <3>1, <3>2
  <2>3. QED
    BY <2>1, <2>2 DEF Ownership
<1>17. ASSUME NEW t \in Terminals, stream_terminal_output(t) PROVE Ownership'
  <2>1. /\ sessions[t] = None => sessions'[t] = None
        /\ sessions[t] # None => /\ sessions'[t] # None
                                 /\ sessions'[t].remote_sync = sessions[t].remote_sync
                                 /\ sessions'[t].tmux = sessions[t].tmux
        /\ \A x \in Terminals \ {t} : sessions'[x] = sessions[x]
        /\ threads[t] # None /\ t \notin procs
    <3>1. PICK state \in {"closed", "error"} :
            sessions' = IF sessions[t] = None THEN sessions ELSE [sessions EXCEPT ![t].state = state]
      BY <1>17 DEF stream_terminal_output
    <3>2. sessions[t] # None => sessions[t] \in Handles
      BY <1>1 DEF TypeOK
    <3>3. CASE sessions[t] # None
      <4>1. sessions'[t] = [sessions[t] EXCEPT !.state = state] /\ sessions[t] \in Handles
        BY <1>1, <3>1, <3>2, <3>3, HandleStateType
      <4>2. [sessions[t] EXCEPT !.state = state] \in Handles
        BY <4>1 DEF Handles, HandleStates
      <4>3. QED
        BY <1>1, <1>17, <3>1, <3>3, <4>1, <4>2 DEF stream_terminal_output, Handles, TypeOK
    <3>4. QED
      BY <1>1, <1>17, <3>1, <3>3 DEF stream_terminal_output, TypeOK
  <2>2. CreatedOnce' /\ DownIsEmpty'
    BY <1>1, <1>17 DEF stream_terminal_output, CreatedOnce, DownIsEmpty, Nothing
  <2>3. ASSUME NEW x \in Terminals PROVE Owned(x)'
    <3>1. CASE x = t
      BY <1>1, <1>17, <3>1, <2>1
         DEF stream_terminal_output, TypeOK, Owned, FreshId, InheritanceIsSound, TaskIsSound,
             HandleIsSound, Untouched, Takeover, Pending
    <3>2. CASE x # t
      BY <1>1, <1>17, <3>2, OwnedFrame, <2>1 DEF stream_terminal_output, TypeOK, Pending
    <3>3. QED
      BY <3>1, <3>2
  <2>4. QED
    BY <2>2, <2>3 DEF Ownership
<1>18. ASSUME NEW t \in Terminals, update_terminal_remote_state(t) PROVE Ownership'
  <2>1. CreatedOnce' /\ DownIsEmpty'
    BY <1>1, <1>18 DEF update_terminal_remote_state, CreatedOnce, DownIsEmpty, Nothing
  <2>2. ASSUME NEW x \in Terminals PROVE Owned(x)'
    <3>1. CASE x = t
      BY <1>1, <1>18, <3>1
         DEF update_terminal_remote_state, TypeOK, Owned, FreshId, InheritanceIsSound,
             TaskIsSound, HandleIsSound, Untouched, Takeover, Pending
    <3>2. CASE x # t
      BY <1>1, <1>18, <3>2, OwnedFrame
         DEF update_terminal_remote_state, TypeOK, Pending, update_terminal_state
    <3>3. QED
      BY <3>1, <3>2
  <2>3. QED
    BY <2>1, <2>2 DEF Ownership
<1>19. ASSUME NEW t \in Terminals, cleanup_finished_local_terminal_session(t) PROVE Ownership'
  <2>1. CreatedOnce' /\ DownIsEmpty'
    BY <1>1, <1>19
       DEF cleanup_finished_local_terminal_session, CreatedOnce, DownIsEmpty, Nothing
  <2>4. Closed(t) /\ threads'[t] = None /\ \A x \in Terminals \ {t} : threads'[x] = threads[x]
    BY <1>1, <1>19, CleanupOwned DEF cleanup_finished_local_terminal_session, TypeOK
  <2>2. ASSUME NEW x \in Terminals PROVE Owned(x)'
    <3>1. CASE x = t
      BY <1>1, <1>19, <2>4, <3>1
         DEF cleanup_finished_local_terminal_session, Closed, Owned, FreshId,
             InheritanceIsSound, TaskIsSound, HandleIsSound, Untouched, Takeover, Pending
    <3>2. CASE x # t
      BY <1>1, <1>19, <2>4, <3>2, OwnedFrame
         DEF cleanup_finished_local_terminal_session, Closed, Pending
    <3>3. QED
      BY <3>1, <3>2
  <2>3. QED
    BY <2>1, <2>2 DEF Ownership
<1>20. ASSUME NEW t \in Terminals, SessionEnds(t) PROVE Ownership'
  <2>1. CreatedOnce' /\ DownIsEmpty'
    BY <1>1, <1>20 DEF SessionEnds, CreatedOnce, DownIsEmpty, Nothing
  <2>2. ASSUME NEW x \in Terminals PROVE Owned(x)'
    <3>1. CASE x = t
      BY <1>1, <1>20, <3>1
         DEF SessionEnds, TypeOK, Owned, FreshId, InheritanceIsSound, TaskIsSound,
             HandleIsSound, Untouched, Takeover, Pending
    <3>2. CASE x # t
      BY <1>1, <1>20, <3>2, OwnedFrame DEF SessionEnds, TypeOK, Pending
    <3>3. QED
      BY <3>1, <3>2
  <2>3. QED
    BY <2>1, <2>2 DEF Ownership
<1>21. ASSUME NEW t \in Terminals, reconcile_persisted_runtime_record(t) PROVE Ownership'
  <2>1. CreatedOnce' /\ DownIsEmpty'
    BY <1>1, <1>21 DEF reconcile_persisted_runtime_record, CreatedOnce, DownIsEmpty
  <2>2. ASSUME NEW x \in Terminals PROVE Owned(x)'
    <3>1. CASE x # t \/ ~Reconcilable(t)
      BY <1>1, <1>21, <3>1, OwnedFrame
         DEF reconcile_persisted_runtime_record, StartTask, TypeOK, Pending
    <3>2. CASE x = t /\ Reconcilable(t)
      <4>1. /\ tasks'[t] = Task("start", "tmux", FALSE, "spawn") /\ tasks[t] = None
            /\ backlog' = backlog \ {t} /\ Owned(t) /\ t \in backlog /\ mode' = "starting"
            /\ UNCHANGED <<made, row, publishing, events, sessions, threads, records, procs, tmux>>
            /\ UNCHANGED <<inherited, orphaned, astray>>
        BY <1>1, <1>21, <3>2 DEF reconcile_persisted_runtime_record, StartTask, TypeOK, Nothing
      <4>2. /\ tasks'[t].by = "start" /\ tasks'[t].plan = "tmux" /\ ~tasks'[t].remote_sync
            /\ tasks'[t].step = "spawn"
        BY <4>1 DEF Task
      <4>3. /\ records[t] # None /\ Takeover(t) /\ sessions[t] = None /\ t \in inherited
            /\ t \in astray
        BY <3>2, <4>1
           DEF Reconcilable, tmux_session_exists, Owned, InheritanceIsSound, Takeover
      <4>4. QED
        BY <3>2, <4>1, <4>2, <4>3
           DEF Owned, FreshId, InheritanceIsSound, TaskIsSound, HandleIsSound, Untouched,
               Takeover, Pending
    <3>3. QED
      BY <3>1, <3>2
  <2>3. QED
    BY <2>1, <2>2 DEF Ownership
<1>22. ASSUME NEW e \in publishing, PublishToDesktop(e) PROVE Ownership'
  <2>1. /\ events \in Seq(Events) /\ e \in Events
        /\ UNCHANGED <<made, sessions, records, procs, tmux, tasks, closers, threads, mode, backlog>>
        /\ UNCHANGED <<inherited, orphaned>> /\ astray \subseteq astray'
    BY <1>1, <1>22 DEF PublishToDesktop, TypeOK
  <2>2. CreatedOnce'
    <3>1. CASE connected
      <4>1. events' = Append(events, e) /\ publishing' = publishing \ {e}
        BY <1>22, <3>1 DEF PublishToDesktop
      <4>2. /\ Len(events') = Len(events) + 1 /\ events'[Len(events) + 1] = e
            /\ \A i \in 1 .. Len(events) : events'[i] = events[i]
        BY <2>1, <4>1, AppendEvent
      <4>3. \A i \in 1 .. Len(events) : events[i][1] = "create" => events[i] # e
        BY <1>1 DEF CreatedOnce
      <4>4. Len(events) \in Nat
        BY <2>1
      <4>5. \A i \in 1 .. Len(events') : i \in 1 .. Len(events) \/ i = Len(events) + 1
        BY <4>2, <4>4
      <4>6. QED
        BY <1>1, <4>1, <4>2, <4>3, <4>5 DEF CreatedOnce
    <3>2. CASE ~connected
      BY <1>1, <1>22, <3>2 DEF PublishToDesktop, CreatedOnce
    <3>3. QED
      BY <3>1, <3>2
  <2>3. DownIsEmpty'
    BY <1>1, <2>1 DEF DownIsEmpty, Nothing
  <2>4. ASSUME NEW x \in Terminals PROVE Owned(x)'
    <3>1. Pending("create", x)' => Pending("create", x)
      <4>1. ToSet(events') = ToSet(events) \/ ToSet(events') = ToSet(events) \cup {e}
        BY <1>22, <2>1, AppendEvent DEF PublishToDesktop
      <4>2. publishing' \subseteq publishing /\ e \in publishing
        BY <1>22 DEF PublishToDesktop
      <4>3. QED
        BY <4>1, <4>2 DEF Pending
    <3>2. QED
      BY <1>1, <2>1, <3>1 DEF Owned, FreshId, InheritanceIsSound, TaskIsSound, HandleIsSound,
         Untouched, Takeover
  <2>5. QED
    BY <2>2, <2>3, <2>4 DEF Ownership
<1>23. ASSUME NEW c \in closers, ReportClosing(c) PROVE Ownership'
  <2>1. CreatedOnce' /\ DownIsEmpty'
    BY <1>1, <1>23 DEF ReportClosing, CreatedOnce, DownIsEmpty
  <2>2. ASSUME NEW x \in Terminals PROVE Owned(x)'
    BY <1>1, <1>23, OwnedFrame DEF ReportClosing, Pending
  <2>3. QED
    BY <2>1, <2>2 DEF Ownership
<1>24. CASE Disconnect
  <2>1. CreatedOnce' /\ DownIsEmpty'
    BY <1>1, <1>24 DEF Disconnect, CreatedOnce, DownIsEmpty
  <2>2. ASSUME NEW x \in Terminals PROVE Owned(x)'
    <3>1. Pending("create", x)' => Pending("create", x)
      BY <1>24 DEF Disconnect, Pending, ToSet
    <3>2. QED
      BY <1>1, <1>24, <3>1, OwnedFrame DEF Disconnect
  <2>3. QED
    BY <2>1, <2>2 DEF Ownership
<1>25. CASE Connect
  <2>1. CreatedOnce' /\ DownIsEmpty'
    BY <1>1, <1>25 DEF Connect, CreatedOnce, DownIsEmpty
  <2>2. ASSUME NEW x \in Terminals PROVE Owned(x)'
    BY <1>1, <1>25, OwnedFrame DEF Connect, Pending
  <2>3. QED
    BY <2>1, <2>2 DEF Ownership
<1>26. CASE handle_terminal_create
  <2>1. /\ events \in Seq(Events) /\ events # <<>> /\ events' = Tail(events)
        /\ UNCHANGED <<made, row, publishing, sessions, records, procs, tmux, threads, mode, backlog>>
        /\ UNCHANGED <<inherited, orphaned, astray>>
    BY <1>1, <1>26 DEF handle_terminal_create, TypeOK
  <2>2. PICK t \in Terminals : Head(events) = <<"create", t>>
    <3>1. Head(events) \in Events /\ Head(events)[1] = "create"
      BY <1>26, <2>1, TakeEvent DEF handle_terminal_create
    <3>2. QED
      BY <3>1 DEF Events
  <2>3. CreatedOnce'
    BY <1>1, <2>1, TakenOnce
  <2>4. DownIsEmpty'
    BY <1>1, <1>26 DEF handle_terminal_create, Running, DownIsEmpty
  <2>5. Pending("create", t) /\ ~Pending("create", t)'
    <3>1. Head(events)[1] = "create" /\ Head(events) \in ToSet(events)
      BY <2>1, <2>2, TakeEvent
    <3>2. QED
      BY <1>1, <2>1, <2>2, <3>1, TakenOnce DEF Pending
  <2>6. PICK plan \in select_terminal_launch :
          tasks' = [tasks EXCEPT ![t] = Task("loop", plan, TRUE, "spawn")]
    <3>1. Head(events)[2] = t
      BY <2>2
    <3>2. QED
      BY <1>26, <3>1 DEF handle_terminal_create, StartTask
  <2>7. ASSUME NEW x \in Terminals PROVE Owned(x)'
    <3>1. Pending("create", x)' => Pending("create", x)
      BY <2>1, TakeEvent DEF Pending
    <3>2. CASE x = t
      <4>1. /\ tasks'[t].by = "loop" /\ tasks'[t].step = "spawn"
        BY <1>1, <2>6 DEF Task, TypeOK
      <4>2. Owned(t)
        BY <1>1
      <4>3. QED
        BY <2>1, <2>5, <3>2, <4>1, <4>2
           DEF Owned, FreshId, InheritanceIsSound, TaskIsSound, HandleIsSound, Untouched,
               Takeover
    <3>3. CASE x # t
      BY <1>1, <2>1, <2>6, <3>1, <3>3, OwnedFrame DEF TypeOK
    <3>4. QED
      BY <3>2, <3>3
  <2>8. QED
    BY <2>3, <2>4, <2>7 DEF Ownership
<1>27. CASE handle_terminal_close
  <2>1. /\ events \in Seq(Events) /\ events # <<>> /\ events' = Tail(events)
        /\ UNCHANGED <<made, row, publishing, tasks, threads, mode, backlog, astray>>
    BY <1>1, <1>27 DEF handle_terminal_close, TypeOK
  <2>2. PICK t \in Terminals : Head(events) = <<"close", t>>
    <3>1. Head(events) \in Events /\ Head(events)[1] = "close"
      BY <1>27, <2>1, TakeEvent DEF handle_terminal_close
    <3>2. QED
      BY <3>1 DEF Events
  <2>3. Closed(t)
    BY <1>1, <1>27, <2>2, CloseOwned DEF handle_terminal_close
  <2>4. CreatedOnce'
    BY <1>1, <2>1, TakenOnce
  <2>5. DownIsEmpty'
    BY <1>1, <1>27 DEF handle_terminal_close, Running, DownIsEmpty
  <2>6. ASSUME NEW x \in Terminals PROVE Owned(x)'
    <3>1. Pending("create", x)' => Pending("create", x)
      BY <2>1, TakeEvent DEF Pending
    <3>2. CASE x = t
      BY <1>1, <1>27, <2>1, <2>3, <3>1, <3>2
         DEF handle_terminal_close, Running, Closed, Owned, FreshId, InheritanceIsSound,
             TaskIsSound, HandleIsSound, Untouched, Takeover
    <3>3. CASE x # t
      BY <1>1, <2>1, <2>3, <3>1, <3>3, OwnedFrame DEF Closed
    <3>4. QED
      BY <3>2, <3>3
  <2>7. QED
    BY <2>4, <2>5, <2>6 DEF Ownership
<1>28. CASE shutdown_signal \/ ServeLoopExit
  <2>1. CreatedOnce' /\ DownIsEmpty'
    BY <1>1, <1>28 DEF shutdown_signal, ServeLoopExit, CreatedOnce, DownIsEmpty
  <2>2. ASSUME NEW x \in Terminals PROVE Owned(x)'
    BY <1>1, <1>28
       DEF shutdown_signal, ServeLoopExit, Serving, Owned, FreshId, InheritanceIsSound,
           TaskIsSound, HandleIsSound, Untouched, Takeover, Pending
  <2>3. QED
    BY <2>1, <2>2 DEF Ownership
<1>29. CASE ServerEnds
  <2>1. CreatedOnce' /\ DownIsEmpty'
    BY <1>29 DEF ServerEnds, CreatedOnce, DownIsEmpty
  <2>2. ASSUME NEW x \in Terminals PROVE Owned(x)'
    <3>1. /\ sessions'[x] = None /\ tasks'[x] = None /\ threads'[x] = None /\ procs' = {}
          /\ x \in inherited' <=> records[x] # None
          /\ x \in astray \/ sessions[x] # None \/ tasks[x] # None => x \in astray'
          /\ x \in orphaned' <=> x \in orphaned \/ (x \in tmux /\ records[x] = None)
          /\ UNCHANGED <<made, row, publishing, records, tmux>> /\ backlog' = {}
      BY <1>1, <1>29 DEF ServerEnds, Nothing, load_runtime_records, TypeOK
    <3>2. Pending("create", x)' => Pending("create", x)
      BY <1>29 DEF ServerEnds, Pending, ToSet
    <3>3. QED
      BY <1>1, <3>1, <3>2 DEF Owned, FreshId, InheritanceIsSound, TaskIsSound, HandleIsSound,
         Untouched, Takeover
  <2>3. QED
    BY <2>1, <2>2 DEF Ownership
<1>30. CASE reconcile_persisted_runtimes
  <2>1. CreatedOnce' /\ DownIsEmpty'
    BY <1>1, <1>30 DEF reconcile_persisted_runtimes, CreatedOnce, DownIsEmpty
  <2>2. ASSUME NEW x \in Terminals PROVE Owned(x)'
    <3>1. tasks[x] = None /\ sessions[x] = None /\ threads[x] = None
      BY <1>1, <1>30 DEF reconcile_persisted_runtimes, DownIsEmpty, Nothing
    <3>2. QED
      BY <1>1, <1>30, <3>1
         DEF reconcile_persisted_runtimes, load_runtime_records, Owned, FreshId,
             InheritanceIsSound, TaskIsSound, HandleIsSound, Untouched, Takeover, Pending
  <2>3. QED
    BY <2>1, <2>2 DEF Ownership
<1>31. CASE StartServing
  <2>1. CreatedOnce' /\ DownIsEmpty'
    BY <1>1, <1>31 DEF StartServing, CreatedOnce, DownIsEmpty
  <2>2. ASSUME NEW x \in Terminals PROVE Owned(x)'
    BY <1>1, <1>31
       DEF StartServing, Nothing, Owned, FreshId, InheritanceIsSound, TaskIsSound,
           HandleIsSound, Untouched, Takeover, Pending
  <2>3. QED
    BY <2>1, <2>2 DEF Ownership
<1>32. CASE UNCHANGED vars
  BY <1>1, <1>32
     DEF vars, Ownership, CreatedOnce, DownIsEmpty, Nothing, Owned, FreshId,
         InheritanceIsSound, TaskIsSound, HandleIsSound, Untouched, Takeover, Pending
<1> QED
  BY <1>2, <1>3, <1>4, <1>5, <1>6, <1>7, <1>8, <1>9, <1>10, <1>11, <1>12, <1>13, <1>14, <1>16,
     <1>17, <1>18, <1>19, <1>15, <1>21, <1>20, <1>22, <1>23, <1>24, <1>25, <1>26, <1>27, <1>28,
     <1>29, <1>30, <1>31, <1>32, <1>33
  DEF Next

-----------------------------------------------------------------------------
(* The rows of the backend and what runs                                   *)

(* No row exists initially.                                                 *)
LEMMA AgreementInit == Init => Agreement
<1> SUFFICES ASSUME Init PROVE Agreement
  OBVIOUS
<1>1. ASSUME NEW t \in Terminals PROVE Agreed(t)
  <2>1. /\ row[t] = None /\ tasks[t] = None /\ threads[t] = None /\ sessions[t] = None
    BY DEF Init, Nothing
  <2>2. ~Pending("create", t)
    BY DEF Init, Pending, ToSet
  <2>3. QED
    BY <2>1, <2>2 DEF Agreed, MirrorHasRow, ActiveIsAccountedFor, RunningIsActive, Rows
<1>2. closers = {}
  BY DEF Init
<1>3. QED
  BY <1>1, <1>2 DEF Agreement

(* Nothing changes for a terminal whose part of the state does not.         *)
LEMMA AgreedFrame ==
  ASSUME NEW x \in Terminals, Agreed(x),
         row'[x] = row[x], tasks'[x] = tasks[x], sessions'[x] = sessions[x],
         threads'[x] = threads[x], x \in made => x \in made',
         x \in astray => x \in astray',
         Pending("create", x)' => Pending("create", x),
         Pending("close", x) => Pending("close", x)' \/ x \in astray'
  PROVE  Agreed(x)'
  BY DEF Agreed, MirrorHasRow, ActiveIsAccountedFor, RunningIsActive

(* A report that is still to be sent stays late.                           *)
LEMMA CloserFrame ==
  ASSUME TypeOK, NEW c \in closers, CloserIsLate(c),
         row[c.t] # None => row'[c.t] # None,
         sessions'[c.t] # None => sessions[c.t] # None \/ c.t \in astray',
         c.t \in astray => c.t \in astray'
  PROVE  CloserIsLate(c)'
  BY DEF CloserIsLate

(* Closing a terminal leaves no handle and, mirrored, a report.             *)
LEMMA CloseSessionAgreed ==
  ASSUME TypeOK, NEW t \in Terminals, Agreed(t), NEW by, NEW state,
         close_session(t, by, state), row' = row
  PROVE  \A c \in closers' : c \in closers \/ (c.t = t /\ row'[t] # None)
<1>1. CASE sessions[t] = None
  BY <1>1 DEF close_session
<1>2. CASE sessions[t] # None /\ ~sessions[t].remote_sync
  BY <1>2 DEF close_session
<1>3. CASE sessions[t] # None /\ sessions[t].remote_sync
  <2>1. row[t] # None
    BY <1>3 DEF Agreed, MirrorHasRow
  <2>2. closers' = closers \cup {[t |-> t, by |-> by, state |-> state]}
    BY <1>3 DEF close_session
  <2>3. QED
    BY <2>1, <2>2
<1>4. QED
  BY <1>1, <1>2, <1>3

(* The same when it may only have a record.                                 *)
LEMMA CloseAgreed ==
  ASSUME TypeOK, NEW t \in Terminals, Agreed(t), NEW by, close(t, by), row' = row
  PROVE  \A c \in closers' : c \in closers \/ (c.t = t /\ row'[t] # None)
<1>1. CASE sessions[t] = None /\ records[t] # None
  BY <1>1 DEF close
<1>2. CASE ~(sessions[t] = None /\ records[t] # None)
  BY <1>2, CloseSessionAgreed DEF close
<1>3. QED
  BY <1>1, <1>2

(* Every step keeps the agreement.                                         *)
LEMMA AgreementStep ==
  ASSUME Typed, Ownership, Agreement, [Next]_vars
  PROVE  Agreement'
<1> USE DEF backendVars, localVars, workVars, startVars, historyVars
<1>1. /\ TypeOK /\ CreatedOnce /\ DownIsEmpty
      /\ \A x \in Terminals : Owned(x) /\ Agreed(x)
      /\ \A c \in closers : c \in Closings /\ c.t \in Terminals /\ CloserIsLate(c)
  BY DEF Typed, Ownership, Agreement, TypeOK, Closings
<1>2. ASSUME NEW t \in Terminals, create_terminal(t) PROVE Agreement'
  <2>1. ASSUME NEW x \in Terminals PROVE Agreed(x)'
    <3>1. CASE x = t
      BY <1>1, <1>2, <3>1
         DEF create_terminal, TypeOK, Agreed, MirrorHasRow, ActiveIsAccountedFor,
             RunningIsActive, Pending, Rows, Owned, FreshId, Untouched
    <3>2. CASE x # t
      BY <1>1, <1>2, <3>2, AgreedFrame DEF create_terminal, TypeOK, Pending
    <3>3. QED
      BY <3>1, <3>2
  <2>2. ASSUME NEW c \in closers' PROVE CloserIsLate(c)'
    BY <1>1, <1>2, <2>2, CloserFrame DEF create_terminal, TypeOK
  <2>3. QED
    BY <2>1, <2>2 DEF Agreement
<1>3. ASSUME NEW t \in Terminals, close_terminal(t) PROVE Agreement'
  <2>1. ASSUME NEW x \in Terminals PROVE Agreed(x)'
    <3>1. CASE x = t
      BY <1>1, <1>3, <3>1
         DEF close_terminal, TypeOK, Agreed, MirrorHasRow, ActiveIsAccountedFor,
             RunningIsActive, Pending, Rows
    <3>2. CASE x # t
      BY <1>1, <1>3, <3>2, AgreedFrame DEF close_terminal, TypeOK, Pending, Rows
    <3>3. QED
      BY <3>1, <3>2
  <2>2. ASSUME NEW c \in closers' PROVE CloserIsLate(c)'
    BY <1>1, <1>3, <2>2, CloserFrame DEF close_terminal, TypeOK, Rows
  <2>3. QED
    BY <2>1, <2>2 DEF Agreement
<1>29. ASSUME NEW t \in Terminals, handle_terminal_socket(t) PROVE Agreement'
  <2>1. ASSUME NEW x \in Terminals PROVE Agreed(x)'
    BY <1>1, <1>29, AgreedFrame DEF handle_terminal_socket, Pending
  <2>2. ASSUME NEW c \in closers' PROVE CloserIsLate(c)'
    BY <1>1, <1>29, <2>2, CloserFrame DEF handle_terminal_socket
  <2>3. QED
    BY <2>1, <2>2 DEF Agreement
<1>4. ASSUME NEW t \in Terminals, SpawnProcess(t) PROVE Agreement'
  <2>1. /\ tasks[t] \in Creations /\ tasks[t] # None /\ tasks[t].step = "spawn"
        /\ sessions[t] = None /\ Agreed(t)
    BY <1>1, <1>4 DEF SpawnProcess, TypeOK, Owned, TaskIsSound
  <2>2. UNCHANGED <<made, row, publishing, events, threads, closers>>
    BY <1>4 DEF SpawnProcess
  <2>3. \/ /\ tasks'[t] # None /\ tasks'[t].step = "update"
           /\ tasks'[t].remote_sync = tasks[t].remote_sync
           /\ sessions' = [sessions EXCEPT ![t] = Handle(tasks[t].remote_sync, tasks[t].plan)]
           /\ sessions'[t].remote_sync = tasks[t].remote_sync
           /\ astray' = IF \E c \in closers : c.t = t THEN astray \cup {t} ELSE astray
        \/ /\ tasks'[t] # None /\ tasks'[t].step \in {"spawn", "failed"}
           /\ tasks'[t].remote_sync = tasks[t].remote_sync
           /\ UNCHANGED <<sessions, astray>>
    <3>1. CASE /\ sessions' = [sessions EXCEPT ![t] = Handle(tasks[t].remote_sync, tasks[t].plan)]
               /\ tasks' = [tasks EXCEPT ![t].step = "update"]
               /\ astray' = IF \E c \in closers : c.t = t THEN astray \cup {t} ELSE astray
      <4>1. sessions'[t].remote_sync = tasks[t].remote_sync
        BY <1>1, <3>1 DEF Handle, TypeOK
      <4>2. QED
        BY <1>1, <2>1, <3>1, <4>1, TaskStepFields
    <3>2. CASE tasks' = [tasks EXCEPT ![t] = AfterError(tasks[t])] /\ UNCHANGED <<sessions,
    astray>>
      <4>1. tasks'[t] = AfterError(tasks[t])
        BY <1>1, <3>2 DEF TypeOK
      <4>2. QED
        BY <2>1, <3>2, <4>1, AfterErrorType
    <3>3. QED
      BY <1>4, <3>1, <3>2 DEF SpawnProcess
  <2>4. ASSUME NEW x \in Terminals PROVE Agreed(x)'
    <3>1. CASE x = t
      BY <2>1, <2>2, <2>3, <3>1
         DEF Agreed, MirrorHasRow, ActiveIsAccountedFor, RunningIsActive, Pending
    <3>2. CASE x # t
      BY <1>1, <1>4, <3>2, AgreedFrame, <2>3 DEF SpawnProcess, TypeOK, Pending
    <3>3. QED
      BY <3>1, <3>2
  <2>5. ASSUME NEW c \in closers' PROVE CloserIsLate(c)'
    <3>1. c \in closers /\ CloserIsLate(c) /\ c.t \in Terminals /\ row' = row
      BY <1>1, <2>2, <2>5
    <3>2. sessions'[c.t] # None => sessions[c.t] # None \/ c.t \in astray'
      BY <1>1, <2>3, <2>5, <2>2, <3>1 DEF TypeOK
    <3>3. QED
      BY <1>1, <2>3, <3>1, <3>2, CloserFrame
  <2>6. QED
    BY <2>4, <2>5 DEF Agreement
<1>5. ASSUME NEW t \in Terminals, update_state(t) PROVE Agreement'
  <2>1. /\ tasks[t] # None /\ tasks'[t] # None /\ tasks'[t].step \in {"report", "thread"}
        /\ tasks'[t].by = tasks[t].by /\ tasks'[t].plan = tasks[t].plan
        /\ tasks'[t].remote_sync = tasks[t].remote_sync
        /\ \A x \in Terminals \ {t} : tasks'[x] = tasks[x]
        /\ tasks'[t].step = "report" => sessions[t] # None /\ sessions[t].remote_sync
        /\ tasks'[t].step = "thread" => ~(sessions[t] # None /\ sessions[t].remote_sync)
        /\ tasks[t].step = "update"
    BY <1>1, <1>5, TaskStepFields DEF update_state, is_remote_sync
  <2>2. ASSUME NEW x \in Terminals PROVE Agreed(x)'
    <3>1. CASE x = t
      BY <1>1, <1>5, <3>1, <2>1
         DEF update_state, TypeOK, Agreed, MirrorHasRow, ActiveIsAccountedFor, RunningIsActive,
             Pending, Owned, TaskIsSound
    <3>2. CASE x # t
      BY <1>1, <1>5, <3>2, AgreedFrame DEF update_state, TypeOK, Pending
    <3>3. QED
      BY <3>1, <3>2
  <2>3. ASSUME NEW c \in closers' PROVE CloserIsLate(c)'
    BY <1>1, <1>5, <2>3, CloserFrame DEF update_state, TypeOK
  <2>4. QED
    BY <2>2, <2>3 DEF Agreement
<1>6. ASSUME NEW t \in Terminals, ReportActive(t) PROVE Agreement'
  <2>1. /\ tasks[t] # None /\ tasks'[t] # None /\ tasks'[t].step \in {"thread", "undo"}
        /\ tasks'[t].by = tasks[t].by /\ tasks'[t].plan = tasks[t].plan
        /\ tasks'[t].remote_sync = tasks[t].remote_sync
        /\ \A x \in Terminals \ {t} : tasks'[x] = tasks[x]
        /\ tasks[t].step = "report"
        /\ tasks'[t].step = "thread" => row'[t] = "active"
        /\ row'[t] \in {row[t], "active"}
        /\ \A x \in Terminals \ {t} : row'[x] = row[x]
    <3>1. CASE tasks' = [tasks EXCEPT ![t].step = "thread"] /\ row' = update_terminal_state(t,
    "active")
      <4>1. row'[t] = "active" /\ \A x \in Terminals \ {t} : row'[x] = row[x]
        BY <1>1, <3>1 DEF update_terminal_state, TypeOK
      <4>2. QED
        BY <1>1, <1>6, <3>1, <4>1, TaskStepFields DEF ReportActive
    <3>2. CASE /\ tasks' = [tasks EXCEPT ![t].step = "undo"]
               /\ row' \in {row, update_terminal_state(t, "active")}
      <4>1. row'[t] \in {row[t], "active"} /\ \A x \in Terminals \ {t} : row'[x] = row[x]
        BY <1>1, <3>2 DEF update_terminal_state, TypeOK
      <4>2. QED
        BY <1>1, <1>6, <3>2, <4>1, TaskStepFields DEF ReportActive
    <3>3. QED
      BY <1>6, <3>1, <3>2 DEF ReportActive
  <2>2. ASSUME NEW x \in Terminals PROVE Agreed(x)'
    <3>1. CASE x = t
      BY <1>1, <1>6, <3>1, <2>1
         DEF ReportActive, TypeOK, Agreed, MirrorHasRow, ActiveIsAccountedFor, RunningIsActive,
             Pending, Rows
    <3>2. CASE x # t
      BY <1>1, <1>6, <3>2, AgreedFrame, <2>1 DEF ReportActive, TypeOK, Pending, Rows
    <3>3. QED
      BY <3>1, <3>2
  <2>3. ASSUME NEW c \in closers' PROVE CloserIsLate(c)'
    BY <1>1, <1>6, <2>3, CloserFrame, <2>1 DEF ReportActive, TypeOK, Rows
  <2>4. QED
    BY <2>2, <2>3 DEF Agreement
<1>7. ASSUME NEW t \in Terminals, UndoCreation(t) PROVE Agreement'
  <2>1. /\ tasks[t] \in Creations /\ tasks[t] # None /\ tasks[t].step = "undo"
        /\ tasks'[t] # None /\ tasks'[t].step \in {"spawn", "failed"}
        /\ tasks'[t].remote_sync = tasks[t].remote_sync
    <3>1. tasks[t] \in Creations /\ tasks'[t] = AfterError(tasks[t])
      BY <1>1, <1>7 DEF UndoCreation, TypeOK
    <3>2. QED
      BY <1>7, <3>1, AfterErrorType DEF UndoCreation
  <2>2. ASSUME NEW x \in Terminals PROVE Agreed(x)'
    <3>1. CASE x = t
      BY <1>1, <1>7, <3>1, <2>1
         DEF UndoCreation, TypeOK, Agreed, MirrorHasRow, ActiveIsAccountedFor, RunningIsActive,
             Pending, DropHandle
    <3>2. CASE x # t
      BY <1>1, <1>7, <3>2, AgreedFrame DEF UndoCreation, TypeOK, Pending, DropHandle
    <3>3. QED
      BY <3>1, <3>2
  <2>3. ASSUME NEW c \in closers' PROVE CloserIsLate(c)'
    BY <1>1, <1>7, <2>3, CloserFrame DEF UndoCreation, TypeOK, DropHandle
  <2>4. QED
    BY <2>2, <2>3 DEF Agreement
<1>8. ASSUME NEW t \in Terminals, StartThread(t) PROVE Agreement'
  <2>1. /\ tasks[t] # None /\ tasks'[t] # None /\ tasks'[t].step = "persist"
        /\ tasks'[t].by = tasks[t].by /\ tasks'[t].plan = tasks[t].plan
        /\ tasks'[t].remote_sync = tasks[t].remote_sync
        /\ \A x \in Terminals \ {t} : tasks'[x] = tasks[x]
        /\ tasks[t].step = "thread"
        /\ threads'[t] # None /\ threads'[t].step = "reading"
        /\ threads'[t].remote_sync = tasks[t].remote_sync
        /\ \A x \in Terminals \ {t} : threads'[x] = threads[x]
    <3>1. [step |-> "reading", state |-> "closed",
    remote_sync |-> tasks[t].remote_sync] \in OutputThreads
      BY <1>1, <1>8 DEF StartThread, OutputThreads, Creations, TypeOK
    <3>2. threads'[t] = [step |-> "reading", state |-> "closed",
    remote_sync |-> tasks[t].remote_sync]
      BY <1>1, <1>8 DEF StartThread, TypeOK
    <3>3. threads'[t] # None /\ threads'[t].step = "reading"
          /\ threads'[t].remote_sync = tasks[t].remote_sync
      BY <3>1, <3>2, NoneAssumption
    <3>4. \A x \in Terminals \ {t} : threads'[x] = threads[x]
      BY <1>1, <1>8 DEF StartThread, TypeOK
    <3>5. /\ tasks[t] # None /\ tasks'[t] # None /\ tasks'[t].step = "persist"
          /\ tasks'[t].by = tasks[t].by /\ tasks'[t].plan = tasks[t].plan
          /\ tasks'[t].remote_sync = tasks[t].remote_sync
          /\ \A x \in Terminals \ {t} : tasks'[x] = tasks[x]
          /\ tasks[t].step = "thread"
      BY <1>1, <1>8, TaskStepFields DEF StartThread
    <3>6. QED
      BY <3>3, <3>4, <3>5
  <2>2. ASSUME NEW x \in Terminals PROVE Agreed(x)'
    <3>1. CASE x = t
      BY <1>1, <1>8, <3>1, <2>1
         DEF StartThread, TypeOK, Agreed, MirrorHasRow, ActiveIsAccountedFor, RunningIsActive,
             Pending, Owned, TaskIsSound
    <3>2. CASE x # t
      BY <1>1, <1>8, <3>2, AgreedFrame, <2>1 DEF StartThread, TypeOK, Pending
    <3>3. QED
      BY <3>1, <3>2
  <2>3. ASSUME NEW c \in closers' PROVE CloserIsLate(c)'
    BY <1>1, <1>8, <2>3, CloserFrame DEF StartThread, TypeOK
  <2>4. QED
    BY <2>2, <2>3 DEF Agreement
<1>9. ASSUME NEW t \in Terminals, FinishCreation(t) PROVE Agreement'
  <2>1. ASSUME NEW x \in Terminals PROVE Agreed(x)'
    <3>1. CASE x = t
      BY <1>1, <1>9, <3>1
         DEF FinishCreation, TypeOK, Agreed, MirrorHasRow, ActiveIsAccountedFor,
             RunningIsActive, Pending
    <3>2. CASE x # t
      BY <1>1, <1>9, <3>2, AgreedFrame DEF FinishCreation, TypeOK, Pending
    <3>3. QED
      BY <3>1, <3>2
  <2>2. ASSUME NEW c \in closers' PROVE CloserIsLate(c)'
    BY <1>1, <1>9, <2>2, CloserFrame DEF FinishCreation, TypeOK
  <2>3. QED
    BY <2>1, <2>2 DEF Agreement
<1>10. ASSUME NEW t \in Terminals, ReportFailure(t) PROVE Agreement'
  <2>1. ASSUME NEW x \in Terminals PROVE Agreed(x)'
    <3>1. CASE x = t
      BY <1>1, <1>10, <3>1
         DEF ReportFailure, TypeOK, Agreed, MirrorHasRow, ActiveIsAccountedFor,
             RunningIsActive, Pending, update_terminal_state, Owned, TaskIsSound, Rows
    <3>2. CASE x # t
      BY <1>1, <1>10, <3>2, AgreedFrame
         DEF ReportFailure, TypeOK, Pending, update_terminal_state, Rows
    <3>3. QED
      BY <3>1, <3>2
  <2>2. ASSUME NEW c \in closers' PROVE CloserIsLate(c)'
    BY <1>1, <1>10, <2>2, CloserFrame DEF ReportFailure, TypeOK, update_terminal_state, Rows
  <2>3. QED
    BY <2>1, <2>2 DEF Agreement
<1>11. ASSUME NEW t \in Terminals, ProcessExits(t) PROVE Agreement'
  <2>1. ASSUME NEW x \in Terminals PROVE Agreed(x)'
    <3>1. CASE x = t
      BY <1>1, <1>11, <3>1
         DEF ProcessExits, TypeOK, Agreed, MirrorHasRow, ActiveIsAccountedFor, RunningIsActive,
             Pending
    <3>2. CASE x # t
      BY <1>1, <1>11, <3>2, AgreedFrame DEF ProcessExits, TypeOK, Pending
    <3>3. QED
      BY <3>1, <3>2
  <2>2. ASSUME NEW c \in closers' PROVE CloserIsLate(c)'
    BY <1>1, <1>11, <2>2, CloserFrame DEF ProcessExits, TypeOK
  <2>3. QED
    BY <2>1, <2>2 DEF Agreement
<1>12. ASSUME NEW t \in Terminals, stream_terminal_output(t) PROVE Agreement'
  <2>1. /\ sessions[t] = None => sessions'[t] = None
        /\ sessions[t] # None => /\ sessions'[t] # None
                                 /\ sessions'[t].remote_sync = sessions[t].remote_sync
        /\ \A x \in Terminals \ {t} : sessions'[x] = sessions[x] /\ threads'[x] = threads[x]
        /\ threads[t] # None /\ threads[t].step = "reading"
        /\ threads'[t] # None /\ threads'[t].step = "report"
        /\ threads'[t].remote_sync = threads[t].remote_sync
    <3>1. PICK state \in {"closed", "error"} :
            /\ threads' = [threads EXCEPT ![t].step = "report", ![t].state = state]
            /\ sessions' = IF sessions[t] = None THEN sessions ELSE [sessions EXCEPT ![t].state = state]
      BY <1>12 DEF stream_terminal_output
    <3>2. /\ threads[t] # None /\ threads[t] \in OutputThreads /\ threads[t].step = "reading"
          /\ sessions[t] # None => sessions[t] \in Handles
      BY <1>1, <1>12 DEF stream_terminal_output, TypeOK
    <3>3. threads'[t] = [threads[t] EXCEPT !.step = "report", !.state = state]
      BY <1>1, <3>1, <3>2, ThreadType
    <3>4. [threads[t] EXCEPT !.step = "report", !.state = state] \in OutputThreads
      BY <3>2 DEF OutputThreads
    <3>5. sessions[t] # None => /\ sessions'[t] # None
                                /\ sessions'[t].remote_sync = sessions[t].remote_sync
      <4>1. SUFFICES ASSUME sessions[t] # None
                     PROVE  sessions'[t] # None /\ sessions'[t].remote_sync = sessions[t].remote_sync
        OBVIOUS
      <4>2. sessions'[t] = [sessions[t] EXCEPT !.state = state]
        BY <1>1, <3>1, <4>1, HandleStateType
      <4>3. [sessions[t] EXCEPT !.state = state] \in Handles
        BY <3>2, <4>1 DEF Handles, HandleStates
      <4>4. QED
        BY <3>2, <4>1, <4>2, <4>3 DEF Handles
    <3>6. /\ threads'[t] # None /\ threads'[t].step = "report"
          /\ threads'[t].remote_sync = threads[t].remote_sync
      BY <3>2, <3>3, <3>4 DEF OutputThreads
    <3>7. QED
      BY <1>1, <3>1, <3>2, <3>5, <3>6 DEF TypeOK
  <2>2. ASSUME NEW x \in Terminals PROVE Agreed(x)'
    <3>1. CASE x = t
      BY <1>1, <1>12, <3>1, <2>1
         DEF stream_terminal_output, TypeOK, Agreed, MirrorHasRow, ActiveIsAccountedFor,
             RunningIsActive, Pending
    <3>2. CASE x # t
      BY <1>1, <1>12, <3>2, AgreedFrame, <2>1 DEF stream_terminal_output, TypeOK, Pending
    <3>3. QED
      BY <3>1, <3>2
  <2>3. ASSUME NEW c \in closers' PROVE CloserIsLate(c)'
    BY <1>1, <1>12, <2>3, CloserFrame, <2>1 DEF stream_terminal_output, TypeOK
  <2>4. QED
    BY <2>2, <2>3 DEF Agreement
<1>13. ASSUME NEW t \in Terminals, update_terminal_remote_state(t) PROVE Agreement'
  <2>1. /\ threads[t] # None /\ threads[t].step = "report" /\ threads[t].state \in {"closed", "error"}
        /\ threads'[t] # None /\ threads'[t].step = "cleanup"
        /\ threads'[t].remote_sync = threads[t].remote_sync
        /\ \A x \in Terminals \ {t} : threads'[x] = threads[x]
    <3>1. threads[t] # None /\ threads[t] \in OutputThreads /\ threads[t].step = "report"
      BY <1>1, <1>13 DEF update_terminal_remote_state, TypeOK
    <3>2. /\ threads'[t] = [threads[t] EXCEPT !.step = "cleanup"]
          /\ threads[t].state \in {"closed", "error"}
      BY <1>1, <1>13, <3>1, ThreadType DEF update_terminal_remote_state, OutputThreads
    <3>3. [threads[t] EXCEPT !.step = "cleanup"] \in OutputThreads
      BY <3>1 DEF OutputThreads
    <3>4. QED
      BY <1>1, <1>13, <3>1, <3>2, <3>3 DEF update_terminal_remote_state, OutputThreads, TypeOK
  <2>2. ASSUME NEW x \in Terminals PROVE Agreed(x)'
    <3>1. CASE x = t
      BY <1>1, <1>13, <3>1, <2>1
         DEF update_terminal_remote_state, TypeOK, Agreed, MirrorHasRow, ActiveIsAccountedFor,
             RunningIsActive, Pending, update_terminal_state, ReportsEnd, Rows
    <3>2. CASE x # t
      BY <1>1, <1>13, <3>2, AgreedFrame, <2>1
         DEF update_terminal_remote_state, TypeOK, Pending, update_terminal_state, Rows
    <3>3. QED
      BY <3>1, <3>2
  <2>3. ASSUME NEW c \in closers' PROVE CloserIsLate(c)'
    BY <1>1, <1>13, <2>3, CloserFrame, <2>1
       DEF update_terminal_remote_state, TypeOK, update_terminal_state, Rows
  <2>4. QED
    BY <2>2, <2>3 DEF Agreement
<1>14. ASSUME NEW t \in Terminals, cleanup_finished_local_terminal_session(t) PROVE Agreement'
  <2>1. ASSUME NEW x \in Terminals PROVE Agreed(x)'
    <3>1. CASE x = t
      BY <1>1, <1>14, <3>1
         DEF cleanup_finished_local_terminal_session, TypeOK, Agreed, MirrorHasRow,
             ActiveIsAccountedFor, RunningIsActive, Pending, DropHandle
    <3>2. CASE x # t
      BY <1>1, <1>14, <3>2, AgreedFrame
         DEF cleanup_finished_local_terminal_session, TypeOK, Pending, DropHandle
    <3>3. QED
      BY <3>1, <3>2
  <2>2. ASSUME NEW c \in closers' PROVE CloserIsLate(c)'
    BY <1>1, <1>14, <2>2, CloserFrame
       DEF cleanup_finished_local_terminal_session, TypeOK, DropHandle
  <2>3. QED
    BY <2>1, <2>2 DEF Agreement
<1>15. ASSUME NEW t \in Terminals, SessionEnds(t) PROVE Agreement'
  <2>1. ASSUME NEW x \in Terminals PROVE Agreed(x)'
    <3>1. CASE x = t
      BY <1>1, <1>15, <3>1
         DEF SessionEnds, TypeOK, Agreed, MirrorHasRow, ActiveIsAccountedFor, RunningIsActive,
             Pending
    <3>2. CASE x # t
      BY <1>1, <1>15, <3>2, AgreedFrame DEF SessionEnds, TypeOK, Pending
    <3>3. QED
      BY <3>1, <3>2
  <2>2. ASSUME NEW c \in closers' PROVE CloserIsLate(c)'
    BY <1>1, <1>15, <2>2, CloserFrame DEF SessionEnds, TypeOK
  <2>3. QED
    BY <2>1, <2>2 DEF Agreement
<1>16. ASSUME NEW t \in Terminals, create_local_terminal_session(t) PROVE Agreement'
  <2>1. /\ ~Pending("create", t) /\ Untouched(t) /\ row[t] = None
        /\ made' = made \cup {t}
        /\ UNCHANGED <<publishing, events, sessions, threads, closers, astray>>
    BY <1>1, <1>16
       DEF create_local_terminal_session, Owned, FreshId, Agreed, MirrorHasRow, HandleIsSound,
           Untouched
  <2>2. /\ row'[t] \in {None, "opening"}
        /\ tasks'[t] # None => /\ tasks'[t].step = "spawn"
                               /\ tasks'[t].remote_sync <=> row'[t] # None
        /\ \A x \in Terminals \ {t} : tasks'[x] = tasks[x] /\ row'[x] = row[x]
    <3>1. PICK plan \in select_terminal_launch :
            \/ /\ StartTask(t, Task("local", plan, FALSE, "spawn")) /\ UNCHANGED <<row, losses>>
            \/ /\ row' = create_local_desktop_terminal(t)
               /\ \/ StartTask(t, Task("local", plan, TRUE, "spawn")) /\ UNCHANGED losses
                  \/ losses < MaxLosses /\ losses' = losses + 1 /\ UNCHANGED tasks
      BY <1>16 DEF create_local_terminal_session
    <3>2. CASE StartTask(t, Task("local", plan, FALSE, "spawn")) /\ row' = row
      BY <1>1, <2>1, <3>2 DEF StartTask, Task, TypeOK
    <3>3. CASE /\ row' = create_local_desktop_terminal(t)
               /\ StartTask(t, Task("local", plan, TRUE, "spawn")) \/ tasks' = tasks
      <4>1. row'[t] = "opening" /\ row'[t] # None /\ \A x \in Terminals \ {t} : row'[x] = row[x]
        BY <1>1, <3>3 DEF create_local_desktop_terminal, TypeOK, Rows
      <4>2. QED
        BY <1>1, <2>1, <3>3, <4>1 DEF StartTask, Task, TypeOK, Untouched
    <3>4. QED
      BY <3>1, <3>2, <3>3
  <2>3. ASSUME NEW x \in Terminals PROVE Agreed(x)'
    <3>1. CASE x = t
      BY <1>1, <2>1, <2>2, <3>1
         DEF Agreed, MirrorHasRow, ActiveIsAccountedFor, RunningIsActive, Untouched, Pending
    <3>2. CASE x # t
      BY <1>1, <2>1, <2>2, <3>2, AgreedFrame DEF Pending
    <3>3. QED
      BY <3>1, <3>2
  <2>4. ASSUME NEW c \in closers' PROVE CloserIsLate(c)'
    BY <1>1, <2>1, <2>2, <2>4, CloserFrame DEF CloserIsLate
  <2>5. QED
    BY <2>3, <2>4 DEF Agreement
<1>17. ASSUME NEW t \in Terminals, create_codex_terminal(t) PROVE Agreement'
  <2>1. /\ ~Pending("create", t) /\ Untouched(t) /\ row[t] = None
        /\ made' = made \cup {t}
        /\ UNCHANGED <<publishing, events, sessions, threads, closers, astray>>
    BY <1>1, <1>17
       DEF create_codex_terminal, Owned, FreshId, Agreed, MirrorHasRow, HandleIsSound, Untouched
  <2>2. /\ row'[t] \in {None, "opening"}
        /\ tasks'[t] # None => /\ tasks'[t].step = "spawn"
                               /\ tasks'[t].remote_sync <=> row'[t] # None
        /\ \A x \in Terminals \ {t} : tasks'[x] = tasks[x] /\ row'[x] = row[x]
    <3>1. PICK shadowed \in BOOLEAN :
            /\ row' = IF shadowed THEN [row EXCEPT ![t] = "opening"] ELSE row
            /\ StartTask(t, Task("ai", "legacy", shadowed, "spawn"))
      BY <1>17 DEF create_codex_terminal
    <3>2. tasks'[t].step = "spawn" /\ tasks'[t].remote_sync = shadowed
      BY <1>1, <3>1 DEF StartTask, Task, TypeOK
    <3>3. row'[t] = IF shadowed THEN "opening" ELSE None
      BY <1>1, <2>1, <3>1 DEF TypeOK
    <3>4. \A x \in Terminals \ {t} : tasks'[x] = tasks[x] /\ row'[x] = row[x]
      BY <1>1, <3>1 DEF StartTask, TypeOK
    <3>5. QED
      BY <3>2, <3>3, <3>4 DEF Rows
  <2>3. ASSUME NEW x \in Terminals PROVE Agreed(x)'
    <3>1. CASE x = t
      BY <1>1, <2>1, <2>2, <3>1
         DEF Agreed, MirrorHasRow, ActiveIsAccountedFor, RunningIsActive, Untouched, Pending
    <3>2. CASE x # t
      BY <1>1, <2>1, <2>2, <3>2, AgreedFrame DEF Pending
    <3>3. QED
      BY <3>1, <3>2
  <2>4. ASSUME NEW c \in closers' PROVE CloserIsLate(c)'
    BY <1>1, <2>1, <2>2, <2>4, CloserFrame DEF CloserIsLate
  <2>5. QED
    BY <2>3, <2>4 DEF Agreement
<1>18. ASSUME NEW t \in Terminals, close_local_terminal_session(t) PROVE Agreement'
  <2>1. Closed(t)
    BY <1>1, <1>18, CloseOwned DEF close_local_terminal_session
  <2>2. /\ \A c \in closers' : c \in closers \/ (c.t = t /\ row'[t] # None)
        /\ UNCHANGED <<made, row, publishing, events, tasks, threads, astray>>
    BY <1>1, <1>18, CloseAgreed DEF close_local_terminal_session
  <2>3. ASSUME NEW x \in Terminals PROVE Agreed(x)'
    <3>1. CASE x = t
      BY <1>1, <2>1, <2>2, <3>1
         DEF Closed, Agreed, MirrorHasRow, ActiveIsAccountedFor, RunningIsActive, Pending
    <3>2. CASE x # t
      BY <1>1, <2>1, <2>2, <3>2, AgreedFrame DEF Closed, Pending
    <3>3. QED
      BY <3>1, <3>2
  <2>4. ASSUME NEW c \in closers' PROVE CloserIsLate(c)'
    <3>1. CASE c.t = t
      BY <1>1, <2>1, <2>2, <2>4, <3>1 DEF Closed, CloserIsLate
    <3>2. CASE c.t # t
      BY <1>1, <2>1, <2>2, <2>4, <3>2, CloserFrame DEF Closed
    <3>3. QED
      BY <3>1, <3>2
  <2>5. QED
    BY <2>3, <2>4 DEF Agreement
<1>19. ASSUME NEW t \in Terminals, NEW by \in {"loop", "local"}, write_input(t, by)
      PROVE  Agreement'
  <2>1. Closed(t)
    BY <1>1, <1>19, CloseSessionOwned DEF write_input
  <2>2. /\ \A c \in closers' : c \in closers \/ (c.t = t /\ row'[t] # None)
        /\ UNCHANGED <<made, row, publishing, events, tasks, threads, astray>>
    BY <1>1, <1>19, CloseSessionAgreed DEF write_input
  <2>3. ASSUME NEW x \in Terminals PROVE Agreed(x)'
    <3>1. CASE x = t
      BY <1>1, <2>1, <2>2, <3>1
         DEF Closed, Agreed, MirrorHasRow, ActiveIsAccountedFor, RunningIsActive, Pending
    <3>2. CASE x # t
      BY <1>1, <2>1, <2>2, <3>2, AgreedFrame DEF Closed, Pending
    <3>3. QED
      BY <3>1, <3>2
  <2>4. ASSUME NEW c \in closers' PROVE CloserIsLate(c)'
    <3>1. CASE c.t = t
      BY <1>1, <2>1, <2>2, <2>4, <3>1 DEF Closed, CloserIsLate
    <3>2. CASE c.t # t
      BY <1>1, <2>1, <2>2, <2>4, <3>2, CloserFrame DEF Closed
    <3>3. QED
      BY <3>1, <3>2
  <2>5. QED
    BY <2>3, <2>4 DEF Agreement
<1>20. ASSUME NEW t \in Terminals, shutdown_cleanup(t) PROVE Agreement'
  <2>1. Closed(t)
    BY <1>1, <1>20, CloseSessionOwned DEF shutdown_cleanup
  <2>2. /\ \A c \in closers' : c \in closers \/ (c.t = t /\ row'[t] # None)
        /\ UNCHANGED <<made, row, publishing, events, tasks, threads, astray>>
    BY <1>1, <1>20, CloseSessionAgreed DEF shutdown_cleanup
  <2>3. ASSUME NEW x \in Terminals PROVE Agreed(x)'
    <3>1. CASE x = t
      BY <1>1, <2>1, <2>2, <3>1
         DEF Closed, Agreed, MirrorHasRow, ActiveIsAccountedFor, RunningIsActive, Pending
    <3>2. CASE x # t
      BY <1>1, <2>1, <2>2, <3>2, AgreedFrame DEF Closed, Pending
    <3>3. QED
      BY <3>1, <3>2
  <2>4. ASSUME NEW c \in closers' PROVE CloserIsLate(c)'
    <3>1. CASE c.t = t
      BY <1>1, <2>1, <2>2, <2>4, <3>1 DEF Closed, CloserIsLate
    <3>2. CASE c.t # t
      BY <1>1, <2>1, <2>2, <2>4, <3>2, CloserFrame DEF Closed
    <3>3. QED
      BY <3>1, <3>2
  <2>5. QED
    BY <2>3, <2>4 DEF Agreement
<1>21. ASSUME NEW t \in Terminals, reconcile_persisted_runtime_record(t) PROVE Agreement'
  <2>1. /\ Agreed(t) /\ sessions[t] = None /\ threads[t] = None /\ t \in inherited
        /\ records[t] # None
        /\ UNCHANGED <<made, row, publishing, events, sessions, threads, closers, astray>>
    BY <1>1, <1>21
       DEF reconcile_persisted_runtime_record, Owned, InheritanceIsSound
  <2>5. t \in astray \/ ~Reconcilable(t)
    BY <1>1, <2>1
       DEF Reconcilable, tmux_session_exists, Owned, InheritanceIsSound, Takeover
  <2>2. /\ \/ tasks'[t] = tasks[t]
           \/ tasks'[t].step = "spawn" /\ ~tasks'[t].remote_sync /\ t \in astray
        /\ \A x \in Terminals \ {t} : tasks'[x] = tasks[x]
    BY <1>1, <1>21, <2>5 DEF reconcile_persisted_runtime_record, StartTask, Task, TypeOK
  <2>3. ASSUME NEW x \in Terminals PROVE Agreed(x)'
    <3>1. CASE x = t
      BY <1>1, <2>1, <2>2, <3>1
         DEF Agreed, MirrorHasRow, ActiveIsAccountedFor, RunningIsActive, Pending
    <3>2. CASE x # t
      BY <1>1, <2>1, <2>2, <3>2, AgreedFrame DEF Pending
    <3>3. QED
      BY <3>1, <3>2
  <2>4. ASSUME NEW c \in closers' PROVE CloserIsLate(c)'
    BY <1>1, <2>1, <2>4, CloserFrame
  <2>6. QED
    BY <2>3, <2>4 DEF Agreement
<1>22. ASSUME NEW e \in publishing, PublishToDesktop(e) PROVE Agreement'
  <2>1. /\ events \in Seq(Events) /\ e \in Events /\ e[2] \in Terminals /\ e = <<e[1], e[2]>>
        /\ publishing' = publishing \ {e}
        /\ UNCHANGED <<made, sessions, tasks, closers, threads>>
    BY <1>1, <1>22 DEF PublishToDesktop, TypeOK, Events
  <2>2. CASE connected
    <3>1. UNCHANGED <<row, astray>> /\ ToSet(events') = ToSet(events) \cup {e}
      BY <1>22, <2>1, <2>2, AppendEvent DEF PublishToDesktop
    <3>2. publishing' \cup ToSet(events') = publishing \cup ToSet(events)
      BY <2>1, <3>1
    <3>3. ASSUME NEW x \in Terminals PROVE Agreed(x)'
      BY <1>1, <2>1, <3>1, <3>2, AgreedFrame DEF Pending
    <3>4. ASSUME NEW c \in closers' PROVE CloserIsLate(c)'
      BY <1>1, <2>1, <3>1, <3>4, CloserFrame
    <3>5. QED
      BY <3>3, <3>4 DEF Agreement
  <2>3. CASE ~connected
    <3>1. /\ events' = events
          /\ row' = IF e[1] = "create" THEN [row EXCEPT ![e[2]] = "closed"] ELSE row
          /\ astray' = IF e[1] = "close" THEN astray \cup {e[2]} ELSE astray
      BY <1>22, <2>3 DEF PublishToDesktop
    <3>2. ASSUME NEW x \in Terminals
          PROVE  /\ Pending("create", x)' => Pending("create", x)
                 /\ Pending("close", x) => Pending("close", x)' \/ x \in astray'
      BY <2>1, <3>1 DEF Pending
    <3>3. ASSUME NEW x \in Terminals PROVE Agreed(x)'
      <4>1. CASE e[1] = "create" /\ e[2] = x
        <5>1. Pending("create", x) /\ row'[x] = "closed" /\ row'[x] # None /\ astray' = astray
          BY <1>1, <2>1, <3>1, <4>1 DEF Pending, TypeOK, Rows
        <5>2. sessions[x] = None /\ tasks[x] = None /\ threads[x] = None
          BY <1>1, <5>1 DEF Owned, FreshId, Untouched
        <5>3. x \in made
          BY <1>1, <5>1 DEF Owned, FreshId
        <5>4. QED
          BY <1>1, <2>1, <5>1, <5>2, <5>3
             DEF Agreed, MirrorHasRow, ActiveIsAccountedFor, RunningIsActive
      <4>2. CASE ~(e[1] = "create" /\ e[2] = x)
        BY <1>1, <2>1, <3>1, <3>2, <4>2, AgreedFrame DEF TypeOK
      <4>3. QED
        BY <4>1, <4>2
    <3>4. ASSUME NEW c \in closers' PROVE CloserIsLate(c)'
      BY <1>1, <2>1, <3>1, <3>4, CloserFrame DEF TypeOK, Rows
    <3>5. QED
      BY <3>3, <3>4 DEF Agreement
  <2>4. QED
    BY <2>2, <2>3
<1>23. ASSUME NEW d \in closers, ReportClosing(d) PROVE Agreement'
  <2>1. /\ d.t \in Terminals /\ d.state \in {"closed", "error"} /\ CloserIsLate(d)
        /\ closers' \subseteq closers
        /\ row'[d.t] \in {row[d.t], d.state} /\ \A x \in Terminals \ {d.t} : row'[x] = row[x]
        /\ UNCHANGED <<made, publishing, events, sessions, tasks, threads, astray>>
    BY <1>1, <1>23 DEF ReportClosing, update_terminal_state, Closings, TypeOK
  <2>2. ASSUME NEW x \in Terminals PROVE Agreed(x)'
    <3>1. CASE x = d.t
      <4>1. row[x] # None /\ row'[x] # None /\ (row'[x] = row[x] \/ row'[x] # "active")
        BY <2>1, <3>1 DEF CloserIsLate, Rows
      <4>2. sessions[x] # None => x \in astray
        BY <2>1, <3>1 DEF CloserIsLate
      <4>3. QED
        BY <1>1, <2>1, <4>1, <4>2
           DEF Agreed, MirrorHasRow, ActiveIsAccountedFor, RunningIsActive, Pending
    <3>2. CASE x # d.t
      BY <1>1, <2>1, <3>2, AgreedFrame DEF Pending
    <3>3. QED
      BY <3>1, <3>2
  <2>3. ASSUME NEW c \in closers' PROVE CloserIsLate(c)'
    BY <1>1, <2>1, <2>3, CloserFrame DEF Rows
  <2>4. QED
    BY <2>2, <2>3 DEF Agreement
<1>24. CASE Disconnect
  <2>1. /\ events' = <<>>
        /\ astray' = astray \cup {e[2] : e \in {y \in ToSet(events) : y[1] = "close"}}
        /\ UNCHANGED <<made, row, publishing, sessions, tasks, threads, closers>>
    BY <1>24 DEF Disconnect
  <2>2. ASSUME NEW x \in Terminals PROVE Agreed(x)'
    <3>1. Pending("create", x)' => Pending("create", x)
      BY <2>1 DEF Pending, ToSet
    <3>2. <<"close", x>> \in ToSet(events) => x \in astray'
      BY <2>1
    <3>3. QED
      BY <1>1, <2>1, <3>1, <3>2, AgreedFrame DEF Pending
  <2>3. ASSUME NEW c \in closers' PROVE CloserIsLate(c)'
    BY <1>1, <2>1, <2>3, CloserFrame
  <2>4. QED
    BY <2>2, <2>3 DEF Agreement
<1>25. CASE handle_terminal_create
  <2>1. /\ events \in Seq(Events) /\ events # <<>> /\ events' = Tail(events)
        /\ UNCHANGED <<made, row, publishing, sessions, closers, threads, astray>>
    BY <1>1, <1>25 DEF handle_terminal_create, TypeOK
  <2>2. PICK t \in Terminals : Head(events) = <<"create", t>>
    <3>1. Head(events) \in Events /\ Head(events)[1] = "create"
      BY <1>25, <2>1, TakeEvent DEF handle_terminal_create
    <3>2. QED
      BY <3>1 DEF Events
  <2>3. PICK plan \in select_terminal_launch :
          tasks' = [tasks EXCEPT ![t] = Task("loop", plan, TRUE, "spawn")]
    <3>1. Head(events)[2] = t
      BY <2>2
    <3>2. QED
      BY <1>25, <3>1 DEF handle_terminal_create, StartTask
  <2>4. ToSet(events) = ToSet(events') \cup {<<"create", t>>}
    BY <2>1, <2>2, TakeEvent
  <2>5. ASSUME NEW x \in Terminals PROVE Agreed(x)'
    <3>1. /\ Pending("create", x)' => Pending("create", x)
          /\ Pending("close", x) => Pending("close", x)'
      <4>1. <<"close", x>> # <<"create", t>>
        OBVIOUS
      <4>2. QED
        BY <2>1, <2>4, <4>1 DEF Pending
    <3>2. CASE x = t
      <4>1. /\ tasks'[t].remote_sync = TRUE /\ tasks'[t].step = "spawn" /\ tasks'[t] # None
        <5>1. tasks'[t] = Task("loop", plan, TRUE, "spawn")
          BY <1>1, <2>3 DEF TypeOK
        <5>2. tasks'[t] \in Creations
          BY <5>1 DEF Task, Creations
        <5>3. tasks'[t] # None
          BY <5>2
        <5>4. QED
          BY <5>1, <5>3 DEF Task
      <4>2. Pending("create", t)
        BY <2>4 DEF Pending
      <4>3. sessions[t] = None /\ threads[t] = None /\ row[t] # None
        BY <1>1, <4>2 DEF Owned, FreshId, Untouched, Agreed, MirrorHasRow
      <4>4. QED
        BY <1>1, <2>1, <3>1, <3>2, <4>1, <4>3
           DEF Agreed, MirrorHasRow, ActiveIsAccountedFor, RunningIsActive
    <3>3. CASE x # t
      BY <1>1, <2>1, <2>3, <3>1, <3>3, AgreedFrame DEF TypeOK
    <3>4. QED
      BY <3>2, <3>3
  <2>6. ASSUME NEW c \in closers' PROVE CloserIsLate(c)'
    BY <1>1, <2>1, <2>6, CloserFrame
  <2>7. QED
    BY <2>5, <2>6 DEF Agreement
<1>26. CASE handle_terminal_close
  <2>1. /\ events \in Seq(Events) /\ events # <<>> /\ events' = Tail(events)
        /\ UNCHANGED <<made, row, publishing, tasks, threads, astray>>
    BY <1>1, <1>26 DEF handle_terminal_close, TypeOK
  <2>2. PICK t \in Terminals : Head(events) = <<"close", t>>
    <3>1. Head(events) \in Events /\ Head(events)[1] = "close"
      BY <1>26, <2>1, TakeEvent DEF handle_terminal_close
    <3>2. QED
      BY <3>1 DEF Events
  <2>3. close(t, "loop")
    <3>1. Head(events)[2] = t
      BY <2>2
    <3>2. QED
      BY <1>26, <3>1 DEF handle_terminal_close
  <2>4. Closed(t) /\ \A c \in closers' : c \in closers \/ (c.t = t /\ row'[t] # None)
    BY <1>1, <2>1, <2>3, CloseOwned, CloseAgreed
  <2>5. ToSet(events) = ToSet(events') \cup {<<"close", t>>}
    BY <2>1, <2>2, TakeEvent
  <2>6. ASSUME NEW x \in Terminals PROVE Agreed(x)'
    <3>1. Pending("create", x)' => Pending("create", x)
      BY <2>1, <2>5 DEF Pending
    <3>2. CASE x = t
      BY <1>1, <2>4, <2>1, <3>1, <3>2
         DEF Closed, Agreed, MirrorHasRow, ActiveIsAccountedFor, RunningIsActive
    <3>3. CASE x # t
      <4>1. <<"close", x>> # <<"close", t>>
        BY <3>3
      <4>2. Pending("close", x) => Pending("close", x)'
        BY <2>1, <2>5, <4>1 DEF Pending
      <4>3. QED
        BY <1>1, <2>4, <2>1, <3>1, <3>3, <4>2, AgreedFrame DEF Closed
    <3>4. QED
      BY <3>2, <3>3
  <2>7. ASSUME NEW c \in closers' PROVE CloserIsLate(c)'
    <3>1. CASE c.t = t
      BY <1>1, <2>4, <2>1, <2>7, <3>1 DEF Closed, CloserIsLate
    <3>2. CASE c.t # t
      BY <1>1, <2>4, <2>1, <2>7, <3>2, CloserFrame DEF Closed
    <3>3. QED
      BY <3>1, <3>2
  <2>8. QED
    BY <2>6, <2>7 DEF Agreement
<1>27. CASE ServerEnds
  <2>1. ASSUME NEW x \in Terminals PROVE Agreed(x)'
    <3>1. /\ sessions'[x] = None /\ tasks'[x] = None /\ threads'[x] = None
          /\ UNCHANGED <<made, row, publishing>> /\ events' = <<>>
          /\ x \in astray => x \in astray'
          /\ sessions[x] # None \/ tasks[x] # None \/ threads[x] # None => x \in astray'
      BY <1>1, <1>27 DEF ServerEnds, Nothing, load_runtime_records, TypeOK
    <3>2. Pending("create", x)' => Pending("create", x)
      BY <3>1 DEF Pending, ToSet
    <3>3. QED
      BY <1>1, <3>1, <3>2 DEF Agreed, MirrorHasRow, ActiveIsAccountedFor, RunningIsActive
  <2>2. closers' = {}
    BY <1>27 DEF ServerEnds
  <2>3. QED
    BY <2>1, <2>2 DEF Agreement
<1>28. CASE \/ Connect \/ shutdown_signal \/ ServeLoopExit \/ reconcile_persisted_runtimes
            \/ StartServing \/ UNCHANGED vars
  <2>1. UNCHANGED <<made, row, publishing, events, sessions, tasks, threads, closers, astray>>
    BY <1>28 DEF Connect, shutdown_signal, ServeLoopExit, reconcile_persisted_runtimes,
       StartServing, vars
  <2>2. ASSUME NEW x \in Terminals PROVE Agreed(x)'
    BY <1>1, <2>1, AgreedFrame DEF Pending
  <2>3. ASSUME NEW c \in closers' PROVE CloserIsLate(c)'
    BY <1>1, <2>1, <2>3, CloserFrame
  <2>4. QED
    BY <2>2, <2>3 DEF Agreement
<1> QED
  BY <1>2, <1>3, <1>16, <1>17, <1>4, <1>5, <1>6, <1>7, <1>8, <1>9, <1>10, <1>18, <1>19, <1>11,
     <1>12, <1>13, <1>14, <1>20, <1>21, <1>15, <1>22, <1>23, <1>24, <1>25, <1>26, <1>27, <1>28,
     <1>29
  DEF Next

-----------------------------------------------------------------------------
(* The theorems                                                            *)

(* Every reachable state satisfies the inductive invariant.                *)
THEOREM Inductive == Spec => []IInv
<1>1. Init => IInv
  BY TypeInit, OwnershipInit, AgreementInit DEF IInv
<1>2. IInv /\ [Next]_vars => IInv'
  BY TypeStep, OwnershipStep, AgreementStep DEF IInv
<1> QED BY <1>1, <1>2, PTL DEF Spec

(* Nothing a terminal consists of outlives it: a process has a handle that  *)
(* is listed, a record has a handle, or is an earlier server's or could not *)
(* be removed, and a tmux session can be found again (manager.rs            *)
(* close_session, the clean-up of an output thread, persistence.rs), for    *)
(* any number of terminals.                                                *)
THEOREM NothingLeaksAlways == Spec => []NothingLeaks
<1>1. IInv => NothingLeaks
  <2> SUFFICES ASSUME IInv PROVE NothingLeaks
    OBVIOUS
  <2>1. TypeOK /\ \A t \in Terminals : HandleIsSound(t)
    BY DEF IInv, Typed, Ownership, Owned
  <2>2. ASSUME NEW t \in procs PROVE sessions[t] # None /\ list_snapshots(t) = "active"
    BY <2>1 DEF TypeOK, HandleIsSound, list_snapshots
  <2>3. ASSUME NEW t \in tmux \ orphaned
        PROVE  \/ sessions[t] # None /\ sessions[t].tmux
               \/ records[t] # None /\ records[t].strategy = "tmux_takeover"
    BY <2>1 DEF TypeOK, HandleIsSound, Takeover
  <2>4. QED
    BY <2>1, <2>2, <2>3 DEF NothingLeaks, HandleIsSound
<1> QED BY <1>1, Inductive, PTL

(* Once a terminal with a row has settled, the backend's row says active     *)
(* exactly when the desktop runs it, whatever crossed on the way and         *)
(* whatever the desktop could make up for (api/terminals.rs, manager.rs).   *)
THEOREM RowsAgreeAlways == Spec => []RowsAgree
<1>1. IInv => RowsAgree
  <2> SUFFICES ASSUME IInv, NEW t \in Terminals, row[t] # None, Settled(t)
               PROVE  row[t] = "active" <=> sessions[t] # None
    BY DEF RowsAgree
  <2>1. Agreed(t) /\ HandleIsSound(t)
    BY DEF IInv, Ownership, Owned, Agreement
  <2>2. ASSUME row[t] = "active" PROVE sessions[t] # None
    BY <2>1, <2>2 DEF Settled, Agreed, ActiveIsAccountedFor, HandleIsSound
  <2>3. ASSUME sessions[t] # None PROVE row[t] = "active"
    BY <2>1, <2>3 DEF Settled, Agreed, RunningIsActive, Pending
  <2>4. QED
    BY <2>2, <2>3
<1> QED BY <1>1, Inductive, PTL
=============================================================================
