----------------------------- MODULE TaskStore ------------------------------
(***************************************************************************)
(* The tasks of one board in the daemon's database, the request handlers   *)
(* that change them and the scheduler passes that archive, purge and start *)
(* them (crates/taskologicd/src/handlers.rs, scheduler.rs, db/repo.rs).    *)
(*                                                                         *)
(* The database is one connection behind a mutex.  A handler takes the     *)
(* mutex once to load its task and again, later, for the transaction that  *)
(* writes; other handlers and the scheduler run in between, on other       *)
(* threads.  So each request is two actions here: Load keeps a copy of the *)
(* row, and the request's own action commits, deciding from the copy what  *)
(* the code decides from the copy and reading what the code reads again    *)
(* inside the transaction.  The scheduler reads a list of due tasks in one *)
(* lock hold and then works through it, one transaction per task.          *)
(*                                                                         *)
(* A time stamp is kept as its age in clock ticks, saturating at the delay *)
(* it is compared with, so the clock needs no bound; archived_at is never  *)
(* compared and is kept as a flag.  Permissions, positions inside a column *)
(* and tasks made by a program are other modules' business.                *)
(***************************************************************************)
EXTENDS Integers, Deps

CONSTANTS
  Task,          \* task ids; AUTOINCREMENT, so an id is used once
  Worker,        \* connections, each serving one request at a time
  Column,        \* the board's columns
  FirstCol, StartedCol, PausedCol, FinishedCol,
  Item,          \* the positions of a task's checklist
  Text,          \* what the free fields of a draft can hold
  DepChoice,     \* dependency lists a draft may carry
  AutoChoice,    \* whether a draft may ask to be started by the scheduler
  Requests,      \* the kinds of request the clients send
  ArchiveAfter,  \* Board::archive_after_secs, in ticks
  PurgeAfter,    \* Board::purge_deleted_after_secs, in ticks
  MaxVersion,    \* bound: clients load no row whose version is this high
  None           \* Option::None

AllRequests == {"CreateTask", "UpdateTask", "MoveTask", "MoveTaskOverride",
                "StartPauseScan", "FinishScan", "SetChecklistItem",
                "DeleteTask", "PurgeTask", "RestoreTask"}

VARIABLES
  store,   \* the tasks table: a row per task, None where there is none
  born,    \* the ids handed out so far
  deps,    \* the deps table, as a graph
  held,    \* per worker: the request it has loaded and not yet committed
  phase,   \* the scheduler pass that is running
  due      \* what is left of the list that pass read: task |-> its copy

vars == <<store, born, deps, held, phase, due>>

Row == [column   : Column,
        finished : (0..ArchiveAfter) \cup {None},  \* age of finished_at
        archived : BOOLEAN,                        \* archived_at is set
        deleted  : (0..PurgeAfter) \cup {None},    \* age of deleted_at
        from     : Column \cup {None},             \* archived_from_col
        version  : Nat,
        text     : Text,
        ticks    : SUBSET Item,                    \* checklist items done
        auto     : BOOLEAN,     \* auto_start, and the start date has come
        started  : BOOLEAN]     \* some event has to_col = started_col

Request == [op : Requests, task : Task, copy : Row]

ASSUME RolesOnBoard == {FirstCol, StartedCol, PausedCol, FinishedCol} \subseteq Column
ASSUME DelaysAreTicks == ArchiveAfter \in Nat /\ PurgeAfter \in Nat
ASSUME InputsTyped == /\ DepChoice \subseteq SUBSET Task
                      /\ AutoChoice \subseteq BOOLEAN
                      /\ Requests \subseteq AllRequests
                      /\ MaxVersion \in Nat
ASSUME NoneIsNoTime == None \notin Column \cup Int
ASSUME NoneIsNoRow == None \notin Row \cup Request

Phases == {"archive", "purge", "auto"}

TypeOK ==
  /\ store \in [Task -> Row \cup {None}]
  /\ born \subseteq Task
  /\ deps \in [Task -> SUBSET Task]
  /\ held \in [Worker -> Request \cup {None}]
  /\ phase \in Phases
  /\ \E S \in SUBSET Task : due \in [S -> Row]

Init ==
  /\ store = [t \in Task |-> None]
  /\ born = {}
  /\ deps = [t \in Task |-> {}]
  /\ held = [w \in Worker |-> None]
  /\ phase = "auto"
  /\ due = [t \in {} |-> None]

-----------------------------------------------------------------------------
(* What the writes of db/repo.rs do to a row.                              *)

Exists(t) == store[t] # None

IsDone(r) == r.archived \/ r.column = FinishedCol

\* open_deps, read inside the committing transaction.
OpenDeps(t) == {d \in deps[t] : Exists(d) /\ ~ IsDone(store[d])}

\* Faulty variant: leaving the finished column keeps the stamp.
PlanFinishedKept(copy, to) ==
  IF to = FinishedCol /\ copy.column # FinishedCol THEN 0 ELSE copy.finished

\* plan_move's finished_at, from the copy the handler loaded.
PlanFinished(copy, to) ==
  IF to = FinishedCol /\ copy.column # FinishedCol THEN 0
  ELSE IF to # FinishedCol /\ copy.column = FinishedCol THEN None
  ELSE copy.finished

\* Faulty variant: dependencies are not asked about.
PlanMoveAnyway(t, copy, to, override) == ~ copy.archived

\* plan_move agrees to the move.
PlanMove(t, copy, to, override) ==
  /\ ~ copy.archived
  /\ to = FinishedCol /\ copy.column # FinishedCol /\ OpenDeps(t) # {}
       => override

ApplyMove(r, copy, to) ==
  [r EXCEPT !.column = to, !.finished = PlanFinished(copy, to),
            !.version = @ + 1,
            !.started = @ \/ (to = StartedCol /\ copy.column # to)]

UpdateTask(r, text, ticks, auto) ==
  [r EXCEPT !.text = text, !.ticks = ticks, !.auto = auto,
            !.version = @ + 1]

\* The whole list is written back from the copy, one item changed.
SetChecklistItem(r, copy, i, done) ==
  [r EXCEPT !.ticks = IF done THEN copy.ticks \cup {i} ELSE copy.ticks \ {i},
            !.version = @ + 1]

ArchiveTask(r) ==
  [r EXCEPT !.archived = TRUE, !.from = r.column, !.version = @ + 1]

SoftDeleteTask(r) == [ArchiveTask(r) EXCEPT !.deleted = 0]

\* restore_column: the columns never change here, so it is where it was.
RestoreColumn(copy) == IF copy.from \in Column THEN copy.from ELSE FirstCol

RestoreTask(r, to) ==
  [r EXCEPT !.archived = FALSE, !.deleted = None, !.from = None,
            !.column = to, !.finished = None, !.version = @ + 1,
            !.started = @ \/ to = StartedCol]

\* The row goes, and its dependency links on both sides cascade away.
PurgedStore(t) == [store EXCEPT ![t] = None]

\* Faulty variant: only the task's own list goes.
PurgedDepsOneSide(t) == [deps EXCEPT ![t] = {}]

PurgedDeps(t) == [x \in Task |-> IF x = t THEN {} ELSE deps[x] \ {t}]

-----------------------------------------------------------------------------
(* The request handlers.                                                   *)

\* The conditions a handler checks on the copy before it opens its
\* transaction.  UpdateTask also compares the client's version with the
\* copy's here; a client that is behind gets Conflict and nothing changes.
Accepts(op, copy) ==
  CASE op \in {"StartPauseScan", "FinishScan"} ->
         ~ copy.archived /\ copy.column # FinishedCol
    [] op = "DeleteTask" -> ~ copy.archived
    [] op \in {"PurgeTask", "RestoreTask"} -> copy.archived
    [] OTHER -> TRUE

Load(w) ==
  /\ held[w] = None
  /\ \E t \in Task, op \in Requests \ {"CreateTask"} :
       /\ Exists(t)
       /\ store[t].version < MaxVersion
       /\ Accepts(op, store[t])
       /\ held' = [held EXCEPT ![w] = [op |-> op, task |-> t, copy |-> store[t]]]
  /\ UNCHANGED <<store, born, deps, phase, due>>

Holds(w, op) == held[w] # None /\ held[w].op = op

\* A transaction ends: row becomes r, the request is answered.
Commit(w, r) ==
  /\ store' = [store EXCEPT ![held[w].task] = r]
  /\ held' = [held EXCEPT ![w] = None]
  /\ UNCHANGED <<born, phase, due>>

\* The row is gone (require_task fails and the transaction rolls back).
CommitLost(w) ==
  /\ held[w] # None
  /\ held[w].op # "PurgeTask"
  /\ ~ Exists(held[w].task)
  /\ held' = [held EXCEPT ![w] = None]
  /\ UNCHANGED <<store, born, deps, phase, due>>

NewRow(col, text, ticks, auto) ==
  [column |-> col, finished |-> IF col = FinishedCol THEN 0 ELSE None,
   archived |-> FALSE, deleted |-> None, from |-> None, version |-> 1,
   text |-> text, ticks |-> ticks, auto |-> auto, started |-> col = StartedCol]

\* Faulty variant: only the task itself is looked for.
CheckDepsSelfOnly(t, ds) == ds \subseteq {x \in Task \ {t} : Exists(x)}

\* check_deps: everything named exists and no cycle is closed.
CheckDeps(t, ds) == ds \subseteq {x \in Task : Exists(x)} /\ NoFirstCycle(deps, t, ds)

CreateTask(w) ==
  /\ "CreateTask" \in Requests
  /\ held[w] = None
  /\ \E t \in Task \ born, col \in Column, text \in Text, ticks \in SUBSET Item,
        auto \in AutoChoice, ds \in DepChoice :
       /\ t \notin ds
       /\ CheckDeps(t, ds)
       /\ store' = [store EXCEPT ![t] = NewRow(col, text, ticks, auto)]
       /\ born' = born \cup {t}
       /\ deps' = Replaced(deps, t, ds)
  /\ UNCHANGED <<held, phase, due>>

Update(w) ==
  /\ Holds(w, "UpdateTask")
  /\ LET t == held[w].task IN
       /\ Exists(t)
       /\ \E text \in Text, ticks \in SUBSET Item, auto \in AutoChoice, ds \in DepChoice :
            /\ CheckDeps(t, ds)
            /\ Commit(w, UpdateTask(store[t], text, ticks, auto))
            /\ deps' = Replaced(deps, t, ds)

\* validate_draft or check_deps refuses the draft inside the transaction.
UpdateRefused(w) ==
  /\ Holds(w, "UpdateTask")
  /\ \E ds \in DepChoice : ~ CheckDeps(held[w].task, ds)
  /\ held' = [held EXCEPT ![w] = None]
  /\ UNCHANGED <<store, born, deps, phase, due>>

\* The column a request asks for: any, or what scan_target says.
Target(op, copy) ==
  CASE op = "StartPauseScan" ->
         {IF copy.column = StartedCol THEN PausedCol ELSE StartedCol}
    [] op = "FinishScan" -> {FinishedCol}
    [] OTHER -> Column

MoveOps == {"MoveTask", "MoveTaskOverride", "StartPauseScan", "FinishScan"}

Move(w) ==
  /\ held[w] # None /\ held[w].op \in MoveOps
  /\ LET t == held[w].task   copy == held[w].copy IN
       /\ Exists(t)
       /\ \E to \in Target(held[w].op, copy) :
            /\ PlanMove(t, copy, to, held[w].op = "MoveTaskOverride")
            /\ Commit(w, ApplyMove(store[t], copy, to))
  /\ UNCHANGED deps

\* plan_move says TaskArchived or BlockedByDependencies.
MoveRefused(w) ==
  /\ held[w] # None /\ held[w].op \in MoveOps
  /\ \E to \in Target(held[w].op, held[w].copy) :
       ~ PlanMove(held[w].task, held[w].copy, to, held[w].op = "MoveTaskOverride")
  /\ held' = [held EXCEPT ![w] = None]
  /\ UNCHANGED <<store, born, deps, phase, due>>

Tick(w) ==
  /\ Holds(w, "SetChecklistItem")
  /\ LET t == held[w].task IN
       /\ Exists(t)
       /\ \E i \in Item, done \in BOOLEAN :
            Commit(w, SetChecklistItem(store[t], held[w].copy, i, done))
  /\ UNCHANGED deps

Delete(w) ==
  /\ Holds(w, "DeleteTask")
  /\ Exists(held[w].task)
  /\ Commit(w, SoftDeleteTask(store[held[w].task]))
  /\ UNCHANGED deps

\* Faulty variant: a row that is gone is inserted again, from the copy.
RestoreUpsert(w) ==
  /\ Holds(w, "RestoreTask")
  /\ LET r == IF Exists(held[w].task) THEN store[held[w].task] ELSE held[w].copy IN
       Commit(w, RestoreTask(r, RestoreColumn(held[w].copy)))
  /\ UNCHANGED deps

Restore(w) ==
  /\ Holds(w, "RestoreTask")
  /\ Exists(held[w].task)
  /\ Commit(w, RestoreTask(store[held[w].task], RestoreColumn(held[w].copy)))
  /\ UNCHANGED deps

\* DELETE ... WHERE id: no row, no error.
Purge(w) ==
  /\ Holds(w, "PurgeTask")
  /\ store' = PurgedStore(held[w].task)
  /\ deps' = PurgedDeps(held[w].task)
  /\ held' = [held EXCEPT ![w] = None]
  /\ UNCHANGED <<born, phase, due>>

-----------------------------------------------------------------------------
(* The scheduler.                                                          *)

\* Faulty variant: the archive pass is not called.
NextPhaseNoArchive == [p \in Phases |-> IF p = "purge" THEN "auto" ELSE "purge"]

NextPhase == [p \in Phases |->
  CASE p = "archive" -> "purge" [] p = "purge" -> "auto" [] p = "auto" -> "archive"]

\* Faulty variant: the purge list leaves archived tasks out, as the other
\* two lists do.
DueInLive(p, r) ==
  /\ ~ r.archived
  /\ CASE p = "archive" -> r.column = FinishedCol /\ r.finished = ArchiveAfter
       [] p = "purge"   -> r.deleted = PurgeAfter
       [] p = "auto"    -> r.auto /\ ~ r.started /\ r.column \notin {StartedCol, FinishedCol}

\* tasks_due_for_archive, tasks_due_for_purge, auto_start_due
DueIn(p, r) ==
  CASE p = "archive" -> ~ r.archived /\ r.column = FinishedCol
                          /\ r.finished = ArchiveAfter
    [] p = "purge"   -> r.deleted = PurgeAfter
    [] p = "auto"    -> r.auto /\ ~ r.archived /\ ~ r.started
                          /\ r.column \notin {StartedCol, FinishedCol}

\* The pass is through its list; the next one reads its own.
ReadDue ==
  /\ DOMAIN due = {}
  /\ phase' = NextPhase[phase]
  /\ due' = [t \in {x \in Task : Exists(x) /\ DueIn(phase', store[x])} |-> store[t]]
  /\ UNCHANGED <<store, born, deps, held>>

Without(t) == [x \in DOMAIN due \ {t} |-> due[x]]

ArchiveFinished ==
  /\ phase = "archive"
  /\ \E t \in DOMAIN due :
       /\ Exists(t)
       /\ store' = [store EXCEPT ![t] = ArchiveTask(store[t])]
       /\ due' = Without(t)
  /\ UNCHANGED <<born, deps, held, phase>>

\* require_task fails: the error leaves tick_once, the rest waits for the
\* next tick, which starts over with archive_finished.
TickAborted ==
  /\ phase = "archive"
  /\ \E t \in DOMAIN due : ~ Exists(t)
  /\ phase' = "auto"
  /\ due' = [t \in {} |-> None]
  /\ UNCHANGED <<store, born, deps, held>>

PurgeDeleted ==
  /\ phase = "purge"
  /\ \E t \in DOMAIN due :
       /\ store' = PurgedStore(t)
       /\ deps' = PurgedDeps(t)
       /\ due' = Without(t)
  /\ UNCHANGED <<born, held, phase>>

\* move_task_by with no actor, on the copy in the list.  An error is logged
\* and the loop goes on.
AutoStart ==
  /\ phase = "auto"
  /\ \E t \in DOMAIN due :
       /\ store' = IF Exists(t) /\ PlanMove(t, due[t], StartedCol, FALSE)
                   THEN [store EXCEPT ![t] = ApplyMove(store[t], due[t], StartedCol)]
                   ELSE store
       /\ due' = Without(t)
  /\ UNCHANGED <<born, deps, held, phase>>

-----------------------------------------------------------------------------
(* Time.                                                                   *)

Older(age, limit) == IF age = None \/ age = limit THEN age ELSE age + 1

Aged(r) == [r EXCEPT !.finished = Older(@, ArchiveAfter),
                     !.deleted = Older(@, PurgeAfter)]

\* A stamp a handler holds a copy of grows old with the others.
TimePasses ==
  /\ store' = [t \in Task |-> IF Exists(t) THEN Aged(store[t]) ELSE None]
  /\ held' = [w \in Worker |-> IF held[w] = None THEN None
                                 ELSE [held[w] EXCEPT !.copy = Aged(@)]]
  /\ due' = [t \in DOMAIN due |-> Aged(due[t])]
  /\ UNCHANGED <<born, deps, phase>>

-----------------------------------------------------------------------------
Handler(w) == \/ Update(w) \/ UpdateRefused(w) \/ Move(w) \/ MoveRefused(w)
              \/ Tick(w) \/ Delete(w) \/ Restore(w) \/ Purge(w) \/ CommitLost(w)

Scheduler == ReadDue \/ ArchiveFinished \/ TickAborted \/ PurgeDeleted \/ AutoStart

Next ==
  \/ \E w \in Worker : Load(w) \/ CreateTask(w) \/ Handler(w)
  \/ Scheduler
  \/ TimePasses

Spec == Init /\ [][Next]_vars

(* The scheduler loop never ends and runs every pass; a handler that has   *)
(* loaded runs to its end; time passes.  Nobody has to send a request.     *)
FairSpec ==
  /\ Spec
  /\ WF_vars(Scheduler) /\ WF_vars(TimePasses)
  /\ \A w \in Worker : WF_vars(Handler(w))

-----------------------------------------------------------------------------
(* Safety.                                                                 *)

Copies == {held[w].copy : w \in {x \in Worker : held[x] # None}}
            \cup {due[t] : t \in DOMAIN due}

Rows == {store[t] : t \in {x \in Task : Exists(x)}}

\* The archive clock runs only in the finished column.  A move writes the
\* stamp it planned from a copy that may be stale by then; whatever the
\* interleaving, column and stamp agree, in the table and in every copy.
ClockOnlyInFinished ==
  \A r \in Rows \cup Copies : r.finished # None => r.column = FinishedCol

\* A task with a purge clock is in the archive, and one in the archive
\* remembers where it came from: archive, delete and restore may commit in
\* any order and each from an old copy, and no live task is left with a
\* deletion stamp the scheduler would act on.
ArchiveMarks ==
  \A r \in Rows : (r.deleted # None => r.archived) /\ (r.archived <=> r.from # None)

\* "Cycles are rejected at creation time, so the graph is always a DAG":
\* whatever edits, creations and purges interleave.
DepsAcyclic == Acyclic(deps)

\* A link never outlives either of its tasks.
DepsExist == \A t \in Task : \A d \in deps[t] : Exists(t) /\ Exists(d)

\* A purged task stays purged: no handler that loaded it before the purge
\* brings the row back when it commits after it.
PurgedStaysPurged ==
  [][\A t \in born : store[t] = None => store'[t] = None]_vars

\* docs/barcodes.md: "A finish scan that hits open dependencies is refused".
\* The dependencies that count are the ones open when the scan commits, not
\* when it loaded the task.
ScanRespectsDeps ==
  [][\A w \in Worker : (Holds(w, "FinishScan") /\ held'[w] = None /\ store' # store)
        => OpenDeps(held[w].task) = {}]_vars

-----------------------------------------------------------------------------
(* Liveness.                                                               *)

\* The archive clock is answered: a task left in the finished column with
\* its clock running is archived, unless somebody stops the clock.
FinishedIsArchived ==
  \A t \in Task : (Exists(t) /\ store[t].finished # None /\ ~ store[t].archived)
     ~> (Exists(t) => store[t].finished = None \/ store[t].archived)

\* A deleted task is purged after its retention period, unless restored.
DeletedIsPurged ==
  \A t \in Task : (Exists(t) /\ store[t].deleted # None)
     ~> (Exists(t) => store[t].deleted = None)

=============================================================================
