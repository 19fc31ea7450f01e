----------------------------- MODULE ProgramRun -----------------------------
(***************************************************************************)
(* One run of a program: its root task, the tasks its steps make, and what *)
(* the engine decides when one of them is moved, deleted or answered       *)
(* (crates/taskologic-core/src/program.rs, crates/taskologicd/src/         *)
(* programs.rs, handlers.rs, db/repo.rs).                                  *)
(*                                                                         *)
(* A handler loads the task first and commits in one transaction with      *)
(* everything the run does about it.  The engine reads the run and its     *)
(* tasks inside that transaction; whether the task changes column is       *)
(* decided by the copy.  Any column but started and finished is "open",    *)
(* and for a step's task so is started.  A finish over open dependencies   *)
(* can be forced, so they are left out, and so are dates, time limits and  *)
(* what is printed.                                                        *)
(***************************************************************************)
EXTENDS Naturals, FiniteSets

CONSTANTS
  MaxTask,  \* a bound on the task ids, which ascend
  Most,     \* and on those that runs of each program use
  Step,     \* keys of steps, without the root's
  Answer,
  Go,       \* iterations; a bound on the goes at one step
  Programs, \* the programs, with the fan-out lists as given at the start
  Landing,  \* the columns programs are started in
  Watched,  \* a bound: FALSE if no request is loaded any more once the run is
            \* over, so that a behaviour ends there
  Worker,   \* connections and the scheduler
  None

VARIABLES
  task, \* the tasks of the run with their rows of program_tasks
  born, \* the last task id handed out
  run,  \* the run's row, None before the start and after the root is purged
  held  \* per connection: the request with the copy it has loaded

vars == <<task, born, run, held>>

Task == 1 .. MaxTask
Root == "root"
Column == {"open", "started", "finished"}

Trigger == [on : {"WithRoot", "RootStarted"}]
           \cup [on : {"Finished"}, step : Step]
           \cup [on : {"Answered"}, step : Step, answer : Answer]

\* answers: {} for a step without a question; default: None without one;
\* entries: how many tasks one go makes.
StepDef == [created : SUBSET Trigger, once : BOOLEAN, counts : BOOLEAN,
            answers : SUBSET Answer, default : Answer \cup {None}, entries : Nat \ {0}]

\* back: archived_from_col, None while the task is not archived.
Row == [column : Column, back : Column \cup {None}, step : Step \cup {Root}, iteration : Go,
        skipped : BOOLEAN, asked : BOOLEAN, answer : Answer \cup {None}]

Run == [steps : Programs, column : Column, started : BOOLEAN, finished : BOOLEAN,
        cancelled : BOOLEAN]

Requests == {"MoveTask", "AnswerQuestion", "DeleteTask", "RestoreTask", "PurgeTask", "Archive"}

\* column: where the copy is, or for an archived one where it was.
Copy == [op : Requests, task : Task, column : Column] \cup [op : {"CancelRun"}]

\* validate: every step can appear, a question and its default fit, and a
\* step waits only for answers that can be given.
Valid(p) ==
  \A s \in DOMAIN p :
    /\ p[s].created # {}
    /\ p[s].default \in p[s].answers \cup {None}
    /\ \A tr \in p[s].created :
         /\ tr.on \in {"Finished", "Answered"} => tr.step \in DOMAIN p
         /\ tr.on = "Answered" => tr.answer \in p[tr.step].answers

ASSUME ProgramsValid ==
  /\ \A p \in Programs : DOMAIN p \subseteq Step /\ (\A s \in DOMAIN p : p[s] \in StepDef) /\ Valid(p)
  /\ Root \notin Step /\ None \notin Answer /\ None \notin Row /\ None \notin Run
  /\ None \notin Copy /\ None \notin Task /\ Landing \subseteq Column
  /\ MaxTask \in Nat /\ Most \in [Programs -> Task] /\ Go \subseteq Nat /\ 1 \in Go

TypeOK ==
  /\ task \in [Task -> Row \cup {None}]
  /\ born \in 0 .. MaxTask
  /\ run \in Run \cup {None}
  /\ held \in [Worker -> Copy \cup {None}]

Init ==
  /\ task = [t \in Task |-> None]
  /\ born = 0
  /\ run = None
  /\ held = [w \in Worker |-> None]

-----------------------------------------------------------------------------
(* The engine: what an event means for a run r with the tasks T.           *)

Tasks(T) == {t \in Task : T[t] # None}
Of(T, s) == {t \in Tasks(T) : T[t].step = s}
IsArchived(row) == row.back # None
IsDone(row) == IsArchived(row) \/ row.column = "finished"
IsActive(r) == r # None /\ ~ r.finished /\ ~ r.cancelled
PendingAnswer(row) == row.asked /\ row.answer = None

\* Others of the same go at a fan-out step are still going.
GroupOpen(T, t) ==
  \E o \in Of(T, T[t].step) \ {t} :
    T[o].iteration = T[t].iteration /\ ~ IsDone(T[o]) /\ ~ T[o].skipped

\* The answer that counts, None if there is none: what was given, if the
\* question takes it, or else the default.
Given(def, answer) ==
  IF answer = None THEN def.default ELSE IF answer \in def.answers THEN answer ELSE None

\* An event is [on, task, answer]; task and answer are None where it has none.
Event(on, t, answer) == [on |-> on, task |-> t, answer |-> answer]

\* Faulty variant: deleting the root is not noticed.
EndsRunFinished(T, e) == e.on = "Finished" /\ T[e.task].step = Root

\* The root was finished or deleted by hand.
EndsRun(T, e) == e.on \in {"Finished", "Deleted"} /\ T[e.task].step = Root

Answered(r, T, e) ==
  IF e.on \in {"Finished", "Answered"} /\ r.steps[T[e.task].step].answers # {}
  THEN Given(r.steps[T[e.task].step], e.answer) ELSE None

Asks(r, T, e) == /\ e.on = "Finished" /\ r.steps[T[e.task].step].answers # {}
                 /\ Answered(r, T, e) = None

Fired(r, T, e) ==
  {[on |-> x] : x \in {"WithRoot", "RootStarted"} \cap {e.on}}
  \cup {[on |-> "Finished", step |-> T[t].step] :
          t \in {u \in Tasks(T) : u = e.task /\ e.on = "Finished" /\ ~ GroupOpen(T, u)}}
  \cup {[on |-> "Answered", step |-> T[t].step, answer |-> Answered(r, T, e)] :
          t \in {u \in Tasks(T) : u = e.task /\ Answered(r, T, e) # None}}

\* The steps that go: one go per event, and with once only if every earlier
\* task of the step was skipped.
Going(r, T, e) ==
  {s \in DOMAIN r.steps : /\ r.steps[s].created \cap Fired(r, T, e) # {}
                          /\ r.steps[s].once => \A t \in Of(T, s) : T[t].skipped}

NextGo(T, s, n) == /\ \A t \in Of(T, s) : T[t].iteration < n
                   /\ n = 1 \/ \E t \in Of(T, s) : T[t].iteration = n - 1

\* The root waits for it.
Counts(r, row) == row.step # Root /\ r.steps[row.step].counts

\* What counts and is still open, or finished and waiting for an answer.
Owed(r, T) ==
  {t \in Tasks(T) : /\ Counts(r, T[t]) /\ ~ T[t].skipped
                    /\ ~ IsDone(T[t]) \/ PendingAnswer(T[t])}

\* Faulty variant: a question asked just now does not hold the root.
OwedAfterUnasked(r, T, e) ==
  Owed(r, T) \ {t \in {e.task} \cap Task : IsDone(T[t]) /\ Answered(r, T, e) # None}

\* Faulty variant: the answer that has just come is not seen.
OwedAfterUnseen(r, T, e) ==
  Owed(r, T) \cup {t \in {e.task} \cap Task : Asks(r, T, e) /\ Counts(r, T[t]) /\ ~ T[t].skipped}

\* What is owed once the event has been answered, or has asked.
OwedAfter(r, T, e) ==
  (Owed(r, T) \ {t \in {e.task} \cap Task : IsDone(T[t]) /\ Answered(r, T, e) # None})
  \cup {t \in {e.task} \cap Task : Asks(r, T, e) /\ Counts(r, T[t]) /\ ~ T[t].skipped}

RootDone(T) == \E t \in Of(T, Root) : IsDone(T[t])

FinishesRoot(r, T, e) ==
  /\ r.started /\ ~ RootDone(T)
  /\ OwedAfter(r, T, e) = {}
  /\ \A s \in Going(r, T, e) : ~ r.steps[s].counts

NewTask(r, s, n) ==
  [column |-> IF s # Root /\ r.column = "started" THEN "open" ELSE r.column,
   back |-> None, step |-> s, iteration |-> n,
   skipped |-> FALSE, asked |-> FALSE, answer |-> None]

\* The task of the event, with its question asked or answered.
Marked(r, T, e, row) ==
  IF Asks(r, T, e) THEN [row EXCEPT !.asked = TRUE]
  ELSE IF Answered(r, T, e) # None
  THEN [row EXCEPT !.asked = TRUE, !.answer = Answered(r, T, e)] ELSE row

Made(made, s) == Cardinality({t \in DOMAIN made : made[t] = s})

\* apply: everything an event asks for, in the transaction it arrived in.
\* made has the ids of the tasks it makes, and their steps.
Apply(T, r, e) ==
  \/ /\ EndsRun(T, e)
     /\ task' = T
     /\ run' = [r EXCEPT !.finished = TRUE]
     /\ UNCHANGED born
  \/ /\ ~ EndsRun(T, e)
     /\ LET going == Going(r, T, e)
            ends  == FinishesRoot(r, T, e)
        IN \E last \in born .. Most[r.steps], go \in [going -> Go] :
           \E made \in [born + 1 .. last -> going] :
             /\ \A s \in going : NextGo(T, s, go[s]) /\ Made(made, s) = r.steps[s].entries
             /\ task' = [t \in Task |->
                           IF t \in DOMAIN made THEN NewTask(r, made[t], go[made[t]])
                           ELSE IF t = e.task THEN Marked(r, T, e, T[t])
                           ELSE IF ends /\ t \in Of(T, Root) THEN [T[t] EXCEPT !.column = "finished"]
                           ELSE T[t]]
             /\ born' = last
             /\ run' = [r EXCEPT !.finished = @ \/ ends]

-----------------------------------------------------------------------------
(* Requests.                                                               *)

\* start: the root and what comes with it.
StartProgram ==
  /\ run = None /\ born = 0
  /\ \E p \in Programs, c \in Landing :
       LET r == [steps |-> p, column |-> c, started |-> FALSE, finished |-> FALSE,
                 cancelled |-> FALSE]
           T == [task EXCEPT ![1] = NewTask(r, Root, 1)]
           going == Going(r, T, Event("WithRoot", None, None))
       IN \E last \in 1 .. Most[p] : \E made \in [2 .. last -> going] :
            /\ \A s \in going : Made(made, s) = p[s].entries
            /\ task' = [t \in Task |-> IF t \in DOMAIN made THEN NewTask(r, made[t], 1) ELSE T[t]]
            /\ born' = last
            /\ run' = r
  /\ UNCHANGED held

\* The first lock hold of a handler, with its checks on the copy.
Accepts(op, row) ==
  CASE op \in {"MoveTask", "DeleteTask"}   -> ~ IsArchived(row)
    [] op \in {"RestoreTask", "PurgeTask"} -> IsArchived(row)
    [] op = "AnswerQuestion"               -> IsDone(row) /\ row.step # Root
    [] op = "Archive"                      -> ~ IsArchived(row) /\ row.column = "finished"

Shown(row) == IF IsArchived(row) THEN row.back ELSE row.column

Load(w) ==
  /\ held[w] = None
  /\ IsActive(run) \/ Watched
  /\ \/ \E op \in Requests, t \in Tasks(task) :
          /\ Accepts(op, task[t])
          /\ held' = [held EXCEPT ![w] = [op |-> op, task |-> t, column |-> Shown(task[t])]]
     \/ IsActive(run) /\ held' = [held EXCEPT ![w] = [op |-> "CancelRun"]]
  /\ UNCHANGED <<task, born, run>>

Holds(w, op) ==
  /\ held[w] # None /\ held[w].op = op
  /\ op # "CancelRun" => task[held[w].task] # None

Replied(w) == held' = [held EXCEPT ![w] = None]

ColumnsOf(row) == IF row.step = Root THEN Column ELSE Column \ {"started"}

\* after_move: the column may be the one the task is in already, whoever
\* put it there since the copy was loaded.
MoveTask(w) ==
  /\ Holds(w, "MoveTask")
  /\ \E to \in ColumnsOf(task[held[w].task]) :
       LET t == held[w].task
           T == [task EXCEPT ![t].column = to]
           reacts == IsActive(run) /\ to # held[w].column
           starts == reacts /\ to = "started" /\ T[t].step = Root /\ ~ run.started
       IN \/ starts /\ Apply(T, [run EXCEPT !.started = TRUE], Event("RootStarted", None, None))
          \/ /\ reacts /\ to = "finished"
             /\ \E answer \in Answer \cup {None} : Apply(T, run, Event("Finished", t, answer))
          \/ /\ ~ starts /\ ~ (reacts /\ to = "finished")
             /\ task' = T
             /\ UNCHANGED <<born, run>>
  /\ Replied(w)

\* Faulty variant: whether the run is over is not asked.
AnswerAnyway(w) ==
  /\ Holds(w, "AnswerQuestion")
  /\ LET t == held[w].task IN
       /\ run # None /\ PendingAnswer(task[t])
       /\ \E answer \in run.steps[task[t].step].answers : Apply(task, run, Event("Answered", t, answer))
  /\ Replied(w)

\* answer: refused unless the question is open, which is read again.
AnswerQuestion(w) ==
  /\ Holds(w, "AnswerQuestion")
  /\ LET t == held[w].task IN
       /\ IsActive(run) /\ PendingAnswer(task[t])
       /\ \E answer \in run.steps[task[t].step].answers : Apply(task, run, Event("Answered", t, answer))
  /\ Replied(w)

\* soft_delete_task and after_delete: the step is skipped.
DeleteTask(w) ==
  /\ Holds(w, "DeleteTask")
  /\ LET t == held[w].task
         T == [task EXCEPT ![t].back = task[t].column]
     IN \/ IsActive(run) /\ Apply([T EXCEPT ![t].skipped = TRUE], run, Event("Deleted", t, None))
        \/ ~ IsActive(run) /\ task' = T /\ UNCHANGED <<born, run>>
  /\ Replied(w)

\* Faulty variant: where it was archived from is read again.
RestoreTaskReread(w) ==
  /\ Holds(w, "RestoreTask")
  /\ task' = [task EXCEPT ![held[w].task] = [@ EXCEPT !.column = task[held[w].task].back, !.back = None,
                                                      !.skipped = FALSE]]
  /\ Replied(w)
  /\ UNCHANGED <<born, run>>

\* restore_task and after_restore: back where the copy was archived from.
RestoreTask(w) ==
  /\ Holds(w, "RestoreTask")
  /\ task' = [task EXCEPT ![held[w].task] = [@ EXCEPT !.column = held[w].column, !.back = None,
                                                      !.skipped = FALSE]]
  /\ Replied(w)
  /\ UNCHANGED <<born, run>>

\* purge_task: the row goes with its program_tasks row, the root with the run.
PurgeTask(w) ==
  /\ Holds(w, "PurgeTask")
  /\ LET t == held[w].task IN
       IF task[t].step = Root
       THEN task' = [u \in Task |-> None] /\ run' = None
       ELSE task' = [task EXCEPT ![t] = None] /\ UNCHANGED run
  /\ Replied(w)
  /\ UNCHANGED born

\* archive_finished, from its list.
Archive(w) ==
  /\ Holds(w, "Archive")
  /\ task' = [task EXCEPT ![held[w].task].back = task[held[w].task].column]
  /\ Replied(w)
  /\ UNCHANGED <<born, run>>

\* cancel: with delete_open, the open tasks go to the archive.
CancelRun(w) ==
  /\ Holds(w, "CancelRun") /\ run # None
  /\ run' = [run EXCEPT !.cancelled = TRUE]
  /\ \/ UNCHANGED task
     \/ task' = [t \in Task |-> IF t \in Tasks(task) /\ ~ IsDone(task[t])
                                THEN [task[t] EXCEPT !.back = task[t].column] ELSE task[t]]
  /\ Replied(w)
  /\ UNCHANGED born

\* The task is gone, the question is answered, the run is over.
Refused(w) == held[w] # None /\ Replied(w) /\ UNCHANGED <<task, born, run>>

-----------------------------------------------------------------------------
Handler(w) == \/ MoveTask(w) \/ AnswerQuestion(w) \/ DeleteTask(w) \/ RestoreTask(w)
              \/ PurgeTask(w) \/ Archive(w) \/ CancelRun(w) \/ Refused(w)

Next == StartProgram \/ \E w \in Worker : Load(w) \/ Handler(w)

Spec == Init /\ [][Next]_vars

-----------------------------------------------------------------------------
(* Safety.                                                                 *)

\* "The root itself was finished or deleted by hand.  The run is over": a run
\* that still reacts has its root on the board, not in the finished column.
\* (A program may be started in the finished column; nothing finishes then.)
RootEndsRun ==
  IsActive(run) /\ run.column # "finished" =>
    \E t \in Of(task, Root) : ~ IsDone(task[t])

\* The run takes its root to the finished column by itself.
FinishedItself ==
  /\ IsActive(run) /\ run' # None /\ run'.finished
  /\ \E t \in Of(task, Root), w \in Worker :
       /\ task'[t].column = "finished"
       /\ held'[w] # held[w] /\ (held[w].task # t \/ run'.started # run.started)

\* "The root finishes itself once it has started and nothing that counts is
\* still open": not before, whoever finishes, deletes, answers or restores
\* tasks at the same time, and not with a step that has just been made.
NotBefore == [][FinishedItself => run'.started /\ Owed(run', task') = {}]_vars

Commits(w, op) == Holds(w, op) /\ held'[w] = None

\* Somebody has moved, archived or restored the task since it was loaded.
Stale(w) ==
  LET row == task[held[w].task] IN
  \/ held[w].column # Shown(row)
  \/ IsArchived(row) # (held[w].op \in {"RestoreTask", "PurgeTask"})

\* Nothing that counts is open any more, and the run goes on waiting.
Forgets == /\ IsActive(run) /\ run.started /\ Owed(run, task) # {}
           /\ IsActive(run') /\ Owed(run', task') = {}

\* And not never: the step that settles the last thing that counts finishes
\* the root, or nothing ever would.  (A purge does not, nor a request that
\* works on a stale copy, nor finishing a task once more whose question has
\* been answered.)
NotNever ==
  [][Forgets => \E w \in Worker :
       \/ Commits(w, "PurgeTask")
       \/ Commits(w, "MoveTask") /\ task[held[w].task].answer # None
       \/ \E op \in Requests : Commits(w, op) /\ Stale(w)]_vars

\* "The run is over and nothing in it reacts to anything again": no task is
\* made, asked or answered after that, by requests that were under way either.
OverIsOver ==
  [][run # None /\ ~ IsActive(run) =>
       /\ born' = born
       /\ \A t \in Tasks(task) : task'[t] # None =>
            task'[t].asked = task[t].asked /\ task'[t].answer = task[t].answer]_vars

=============================================================================
