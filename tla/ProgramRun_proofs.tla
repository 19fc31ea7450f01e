-------------------------- MODULE ProgramRun_proofs --------------------------
(***************************************************************************)
(* ProgramRun's invariants, for every set of valid programs and any number *)
(* of tasks and workers.                                                   *)
(***************************************************************************)
EXTENDS ProgramRun, FiniteSetTheorems, TLAPS

-----------------------------------------------------------------------------
(* Rows.                                                                   *)

Board == [Task -> Row \cup {None}]

(* Writing one field of a row.                                             *)
LEMMA RowFields ==
  ASSUME NEW row \in Row
  PROVE  /\ \A v \in Column : [row EXCEPT !.column = v] \in Row
         /\ \A v \in Column \cup {None} : [row EXCEPT !.back = v] \in Row
         /\ \A v \in BOOLEAN : [row EXCEPT !.skipped = v] \in Row
         /\ \A v \in BOOLEAN : [row EXCEPT !.asked = v] \in Row
         /\ \A v \in Answer \cup {None} : [row EXCEPT !.answer = v] \in Row
BY DEF Row

(* Reading one, and what a write of another field leaves alone.            *)
LEMMA RowReads ==
  ASSUME NEW row \in Row
  PROVE  /\ row.column \in Column /\ row.back \in Column \cup {None}
         /\ row.step \in Step \cup {Root} /\ row.asked \in BOOLEAN
         /\ row.answer \in Answer \cup {None}
         /\ \A v : /\ [row EXCEPT !.column = v].column = v
                   /\ [row EXCEPT !.column = v].back = row.back
                   /\ [row EXCEPT !.column = v].step = row.step
                   /\ [row EXCEPT !.back = v].column = row.column
                   /\ [row EXCEPT !.back = v].back = v
                   /\ [row EXCEPT !.back = v].step = row.step
                   /\ [row EXCEPT !.skipped = v].column = row.column
                   /\ [row EXCEPT !.skipped = v].back = row.back
                   /\ [row EXCEPT !.skipped = v].step = row.step
                   /\ [row EXCEPT !.asked = v].column = row.column
                   /\ [row EXCEPT !.asked = v].back = row.back
                   /\ [row EXCEPT !.asked = v].step = row.step
                   /\ [row EXCEPT !.answer = v].column = row.column
                   /\ [row EXCEPT !.answer = v].back = row.back
                   /\ [row EXCEPT !.answer = v].step = row.step
BY DEF Row

LEMMA RunFields ==
  ASSUME NEW r \in Run
  PROVE  /\ r.steps \in Programs /\ r.column \in Column
         /\ r.started \in BOOLEAN /\ r.finished \in BOOLEAN /\ r.cancelled \in BOOLEAN
         /\ \A v \in BOOLEAN :
              /\ [r EXCEPT !.finished = v] \in Run /\ [r EXCEPT !.finished = v].finished = v
              /\ [r EXCEPT !.finished = v].steps = r.steps
              /\ [r EXCEPT !.finished = v].column = r.column
              /\ [r EXCEPT !.started = v] \in Run /\ [r EXCEPT !.started = v].started = v
              /\ [r EXCEPT !.started = v].steps = r.steps
              /\ [r EXCEPT !.started = v].column = r.column
              /\ [r EXCEPT !.started = v].finished = r.finished
              /\ [r EXCEPT !.started = v].cancelled = r.cancelled
              /\ [r EXCEPT !.cancelled = v] \in Run /\ [r EXCEPT !.cancelled = v].cancelled = v
              /\ [r EXCEPT !.cancelled = v].steps = r.steps
              /\ [r EXCEPT !.cancelled = v].column = r.column
BY DEF Run

LEMMA StepTypes ==
  ASSUME NEW p \in Programs, NEW s \in DOMAIN p
  PROVE  /\ s \in Step /\ s # Root
         /\ p[s].answers \in SUBSET Answer
         /\ p[s].default \in p[s].answers \cup {None}
BY ProgramsValid DEF Valid, StepDef

-----------------------------------------------------------------------------
(* The engine.                                                             *)

(* Tasks of the run's steps, with the ids handed out; the root is the first. *)
Known(T, r) ==
  \A t \in Task : T[t] # None =>
    /\ t <= born
    /\ (T[t].step = Root) <=> (t = 1)
    /\ t # 1 => T[t].step \in DOMAIN r.steps

(* What the daemon calls the engine with.                                  *)
Occurs(T, r, e) ==
  /\ e.on \in {"RootStarted", "Finished", "Answered", "Deleted"}
  /\ e.on = "RootStarted" => e.task = None
  /\ e.on # "RootStarted" => e.task \in Task /\ T[e.task] # None
  /\ e.on = "Finished" => e.answer \in Answer \cup {None}
  /\ e.on = "Answered" => /\ T[e.task].step # Root
                          /\ e.answer \in r.steps[T[e.task].step].answers

LEMMA AnsweredType ==
  ASSUME NEW T \in Board, NEW r \in Run, NEW e, Known(T, r), Occurs(T, r, e), ~ EndsRun(T, e)
  PROVE  Answered(r, T, e) \in Answer \cup {None}
<1>1. CASE e.on \in {"Finished", "Answered"} /\ r.steps[T[e.task].step].answers # {}
  <2>1. e.task \in Task /\ T[e.task] # None /\ T[e.task].step # Root
    BY <1>1 DEF Occurs, EndsRun
  <2>2. T[e.task].step \in DOMAIN r.steps
    BY <2>1 DEF Known
  <2>3. e.answer \in Answer \cup {None}
    BY <1>1, <2>2, StepTypes, RunFields DEF Occurs
  <2> QED BY <1>1, <2>2, <2>3, StepTypes, RunFields DEF Answered, Given
<1>2. CASE ~ (e.on \in {"Finished", "Answered"} /\ r.steps[T[e.task].step].answers # {})
  BY <1>2 DEF Answered
<1> QED BY <1>1, <1>2

LEMMA MarkedType ==
  ASSUME NEW T \in Board, NEW r \in Run, NEW e, Known(T, r), Occurs(T, r, e), ~ EndsRun(T, e),
         NEW row \in Row
  PROVE  /\ Marked(r, T, e, row) \in Row
         /\ Marked(r, T, e, row).column = row.column
         /\ Marked(r, T, e, row).back = row.back
         /\ Marked(r, T, e, row).step = row.step
<1>1. CASE Asks(r, T, e)
  BY <1>1, RowFields, RowReads DEF Marked
<1>2. CASE ~ Asks(r, T, e) /\ Answered(r, T, e) # None
  <2>1. [row EXCEPT !.asked = TRUE] \in Row
    BY RowFields
  <2>2. [[row EXCEPT !.asked = TRUE] EXCEPT !.answer = Answered(r, T, e)] \in Row
    BY <2>1, AnsweredType, RowFields
  <2> QED BY <1>2, <2>1, <2>2, RowReads DEF Marked
<1>3. CASE ~ Asks(r, T, e) /\ Answered(r, T, e) = None
  BY <1>3 DEF Marked
<1> QED BY <1>1, <1>2, <1>3

LEMMA NewTaskType ==
  ASSUME NEW r \in Run, NEW s \in Step \cup {Root}, NEW n \in Go
  PROVE  /\ NewTask(r, s, n) \in Row
         /\ NewTask(r, s, n).step = s /\ NewTask(r, s, n).back = None
         /\ NewTask(r, s, n).column = (IF s # Root /\ r.column = "started" THEN "open"
                                       ELSE r.column)
<1>1. (IF s # Root /\ r.column = "started" THEN "open" ELSE r.column) \in Column
  BY RunFields DEF Column
<1> QED BY <1>1 DEF NewTask, Row

(* What the daemon does for the engine: it makes tasks of the run's steps  *)
(* with new ids, and leaves the others their step and their archive mark;  *)
(* while the run goes on, their column too.                                *)
LEMMA Applied ==
  ASSUME NEW T \in Board, NEW r \in Run, NEW e, born \in 1 .. MaxTask,
         Known(T, r), Occurs(T, r, e), Apply(T, r, e)
  PROVE  /\ task' \in Board /\ born' \in 1 .. MaxTask
         /\ run' \in Run /\ run'.steps = r.steps /\ run'.column = r.column
         /\ Known(task, run)'
         /\ \A t \in Task : T[t] # None =>
              /\ task'[t] # None /\ task'[t].step = T[t].step /\ task'[t].back = T[t].back
              /\ run'.finished \/ task'[t].column = T[t].column
         /\ EndsRun(T, e) => run'.finished
<1>1. CASE EndsRun(T, e)
  <2>1. task' = T /\ run' = [r EXCEPT !.finished = TRUE] /\ born' = born
    BY <1>1 DEF Apply
  <2>2. Known(task, run)'
    BY <2>1, RunFields DEF Known
  <2> QED BY <1>1, <2>1, <2>2, RunFields
<1>2. CASE ~ EndsRun(T, e)
  <2> DEFINE going == Going(r, T, e)
             ends == FinishesRoot(r, T, e)
  <2>1. PICK last \in born .. Most[r.steps], go \in [going -> Go] :
          \E made \in [born + 1 .. last -> going] :
            /\ task' = [t \in Task |->
                 IF t \in DOMAIN made THEN NewTask(r, made[t], go[made[t]])
                 ELSE IF t = e.task THEN Marked(r, T, e, T[t])
                 ELSE IF ends /\ t \in Of(T, Root) THEN [T[t] EXCEPT !.column = "finished"]
                 ELSE T[t]]
            /\ born' = last
            /\ run' = [r EXCEPT !.finished = @ \/ ends]
    BY <1>2 DEF Apply
  <2>2. PICK made \in [born + 1 .. last -> going] :
          /\ task' = [t \in Task |->
               IF t \in DOMAIN made THEN NewTask(r, made[t], go[made[t]])
               ELSE IF t = e.task THEN Marked(r, T, e, T[t])
               ELSE IF ends /\ t \in Of(T, Root) THEN [T[t] EXCEPT !.column = "finished"]
               ELSE T[t]]
          /\ born' = last
          /\ run' = [r EXCEPT !.finished = @ \/ ends]
    BY <2>1
  <2>3. MaxTask \in Nat /\ Most[r.steps] \in Task /\ None \notin Task /\ None \notin Row
    BY ProgramsValid, RunFields
  <2>4. last \in 1 .. MaxTask /\ born \in Nat /\ last \in Nat /\ born <= last
    BY <2>3 DEF Task
  <2>5. /\ run' \in Run /\ run'.steps = r.steps /\ run'.column = r.column
        /\ run'.finished = (r.finished \/ ends)
    <3>1. (r.finished \/ ends) \in BOOLEAN
      OBVIOUS
    <3>2. PICK b \in BOOLEAN : b = (r.finished \/ ends)
      BY <3>1, Zenon
    <3>3. run' = [r EXCEPT !.finished = b]
      BY <2>2, <3>2, Zenon
    <3>4. run' \in Run /\ run'.steps = r.steps /\ run'.column = r.column /\ run'.finished = b
      BY <3>3 DEF Run
    <3> QED BY <3>2, <3>4
  <2>6. ASSUME NEW t \in Task, t \in born + 1 .. last
        PROVE  /\ task'[t] \in Row /\ T[t] = None /\ t # 1 /\ t <= last
               /\ task'[t].step \in DOMAIN r.steps /\ task'[t].step # Root
    <3>1. made[t] \in DOMAIN r.steps /\ go[made[t]] \in Go
      BY <2>6 DEF Going
    <3>2. made[t] \in Step \cup {Root} /\ made[t] # Root
      BY <3>1, StepTypes, RunFields
    <3>3. task'[t] = NewTask(r, made[t], go[made[t]])
      BY <2>2, <2>6
    <3>4. T[t] = None /\ t # 1 /\ t <= last
      BY <2>4, <2>6 DEF Known, Task
    <3> QED BY <3>1, <3>2, <3>3, <3>4, NewTaskType
  <2>7. ASSUME NEW t \in Task, t \notin born + 1 .. last, T[t] # None
        PROVE  /\ task'[t] \in Row /\ task'[t].step = T[t].step /\ task'[t].back = T[t].back
               /\ ends \/ task'[t].column = T[t].column
    <3>1. T[t] \in Row /\ "finished" \in Column
      BY <2>7 DEF Board, Column
    <3>2. CASE t = e.task
      <4>1. task'[t] = Marked(r, T, e, T[t])
        BY <2>2, <2>7, <3>2
      <4> QED BY <1>2, <3>1, <4>1, MarkedType
    <3>3. CASE t # e.task /\ ends /\ t \in Of(T, Root)
      <4>1. task'[t] = [T[t] EXCEPT !.column = "finished"]
        BY <2>2, <2>7, <3>3
      <4> QED BY <3>1, <3>3, <4>1, RowFields, RowReads
    <3>4. CASE t # e.task /\ ~ (ends /\ t \in Of(T, Root))
      BY <2>2, <2>7, <3>1, <3>4
    <3> QED BY <3>2, <3>3, <3>4
  <2>8. ASSUME NEW t \in Task, t \notin born + 1 .. last, T[t] = None
        PROVE  task'[t] = None
    <3>1. t # e.task
      BY <2>3, <2>8 DEF Occurs
    <3>2. t \notin Of(T, Root)
      BY <2>8 DEF Of, Tasks
    <3> QED BY <2>2, <2>8, <3>1, <3>2
  <2>9. task' \in Board
    <3>1. \A t \in Task : task'[t] \in Row \cup {None}
      BY <2>6, <2>7, <2>8
    <3> QED BY <2>2, <3>1 DEF Board
  <2>10. ASSUME NEW t \in Task, T[t] # None PROVE t \notin born + 1 .. last
    BY <2>4, <2>10 DEF Known, Task
  <2>11. Known(task, run)'
    <3> SUFFICES ASSUME NEW t \in Task, task'[t] # None
                 PROVE  /\ t <= born' /\ (task'[t].step = Root <=> t = 1)
                        /\ t # 1 => task'[t].step \in DOMAIN run'.steps
      BY DEF Known, Task
    <3>1. CASE t \in born + 1 .. last
      <4>1. t <= last /\ t # 1 /\ task'[t].step # Root /\ task'[t].step \in DOMAIN r.steps
        BY <2>6, <3>1
      <4> QED BY <2>2, <2>5, <4>1
    <3>2. CASE t \notin born + 1 .. last
      <4>1. T[t] # None
        BY <2>8, <3>2
      <4>2. t <= born /\ (T[t].step = Root <=> t = 1) /\ (t # 1 => T[t].step \in DOMAIN r.steps)
        BY <4>1 DEF Known
      <4>3. t <= born'
        BY <2>2, <2>4, <4>2 DEF Task
      <4>4. task'[t].step = T[t].step /\ run'.steps = r.steps
        BY <2>5, <2>7, <3>2, <4>1
      <4> QED BY <4>2, <4>3, <4>4
    <3> QED BY <3>1, <3>2
  <2>12. ASSUME NEW t \in Task, T[t] # None
         PROVE  /\ task'[t] # None /\ task'[t].step = T[t].step /\ task'[t].back = T[t].back
                /\ run'.finished \/ task'[t].column = T[t].column
    BY <2>3, <2>5, <2>7, <2>10, <2>12
  <2> QED BY <1>2, <2>2, <2>4, <2>5, <2>9, <2>11, <2>12
<1> QED BY <1>1, <1>2

-----------------------------------------------------------------------------
(* Type correctness.                                                       *)

(* There are tasks only while there is a run, and it knows them all.       *)
Linked ==
  /\ run = None => \A t \in Task : task[t] = None
  /\ run # None => Known(task, run) /\ born \in 1 .. MaxTask

(* A request names a task that was made; the root has no question.         *)
Named ==
  \A w \in Worker : held[w] # None /\ held[w].op # "CancelRun" =>
    held[w].task <= born /\ (held[w].op = "AnswerQuestion" => held[w].task # 1)

Inv == TypeOK /\ Linked /\ Named

LEMMA HeldTypes ==
  ASSUME TypeOK, NEW w \in Worker, held[w] # None
  PROVE  /\ held[w].op \in Requests \cup {"CancelRun"}
         /\ held[w].op # "CancelRun" => held[w].task \in Task /\ held[w].column \in Column
BY DEF TypeOK, Copy, Requests

LEMMA ReplyTypes ==
  ASSUME TypeOK, NEW w \in Worker, Replied(w)
  PROVE  /\ held' \in [Worker -> Copy \cup {None}]
         /\ born <= born' /\ born \in Nat /\ born' \in Nat /\ Named => Named'
<1>1. held' \in [Worker -> Copy \cup {None}]
  BY DEF TypeOK, Replied
<1>2. ASSUME born <= born', born \in Nat, born' \in Nat, Named PROVE Named'
  <2> SUFFICES ASSUME NEW v \in Worker, held'[v] # None, held'[v].op # "CancelRun"
               PROVE  held'[v].task <= born' /\ (held'[v].op = "AnswerQuestion" => held'[v].task # 1)
    BY DEF Named
  <2>1. held'[v] = held[v]
    BY DEF TypeOK, Replied
  <2>2. held[v].task \in Task
    BY <2>1, HeldTypes
  <2>3. held[v].task <= born /\ (held[v].op = "AnswerQuestion" => held[v].task # 1)
    BY <1>2, <2>1 DEF Named
  <2> QED BY <1>2, <2>1, <2>2, <2>3, ProgramsValid DEF Task
<1> QED BY <1>1, <1>2

(* A request's write to its task, before the engine is asked.              *)
LEMMA Written ==
  ASSUME Inv, NEW t \in Task, task[t] # None, NEW row \in Row, row.step = task[t].step
  PROVE  /\ run \in Run /\ born \in 1 .. MaxTask
         /\ [task EXCEPT ![t] = row] \in Board
         /\ Known([task EXCEPT ![t] = row], run)
         /\ [task EXCEPT ![t] = row][t] = row /\ row # None
<1>1. run \in Run /\ born \in 1 .. MaxTask /\ Known(task, run)
  BY DEF Inv, TypeOK, Linked
<1>2. [task EXCEPT ![t] = row] \in Board
  BY DEF Inv, TypeOK, Board
<1>3. Known([task EXCEPT ![t] = row], run)
  <2> SUFFICES ASSUME NEW u \in Task, [task EXCEPT ![t] = row][u] # None
               PROVE  /\ u <= born /\ ([task EXCEPT ![t] = row][u].step = Root <=> u = 1)
                      /\ u # 1 => [task EXCEPT ![t] = row][u].step \in DOMAIN run.steps
    BY DEF Known
  <2>1. task[u] # None /\ [task EXCEPT ![t] = row][u].step = task[u].step
    BY DEF Inv, TypeOK
  <2> QED BY <1>1, <2>1 DEF Known
<1>4. [task EXCEPT ![t] = row][t] = row /\ row # None
  BY ProgramsValid DEF Inv, TypeOK
<1> QED BY <1>1, <1>2, <1>3, <1>4

(* What the engine is called with after a write.                           *)
LEMMA ReactsTypes ==
  ASSUME Inv, NEW w \in Worker, Replied(w), run # None,
         NEW T \in Board, NEW r \in Run, NEW e, Known(T, r), Occurs(T, r, e), Apply(T, r, e)
  PROVE  Inv'
<1>1. born \in 1 .. MaxTask
  BY DEF Inv, Linked
<1>2. /\ task' \in Board /\ born' \in 1 .. MaxTask /\ run' \in Run /\ Known(task, run)'
  BY <1>1, Applied
<1>3. born <= born'
  <2>1. CASE EndsRun(T, e)
    BY <1>1, <2>1, ProgramsValid DEF Apply
  <2>2. CASE ~ EndsRun(T, e)
    <3>1. PICK last \in born .. Most[r.steps] : born' = last
      BY <2>2 DEF Apply
    <3>2. Most[r.steps] \in Task /\ MaxTask \in Nat
      BY ProgramsValid, RunFields
    <3> QED BY <1>1, <3>1, <3>2 DEF Task
  <2> QED BY <2>1, <2>2
<1>4. run' # None /\ MaxTask \in Nat
  BY <1>2, ProgramsValid
<1>5. Named' /\ held' \in [Worker -> Copy \cup {None}]
  BY <1>1, <1>2, <1>3, <1>4, ReplyTypes DEF Inv
<1>6. TypeOK'
  BY <1>2, <1>4, <1>5 DEF TypeOK, Board
<1>7. Linked'
  BY <1>2, <1>4 DEF Linked
<1> QED BY <1>5, <1>6, <1>7 DEF Inv

(* A request that only writes its task.                                    *)
LEMMA WritesTypes ==
  ASSUME Inv, NEW w \in Worker, Replied(w), NEW t \in Task, task[t] # None,
         NEW row \in Row, row.step = task[t].step,
         task' = [task EXCEPT ![t] = row], UNCHANGED <<born, run>>
  PROVE  Inv'
<1>1. /\ run \in Run /\ born \in 1 .. MaxTask
      /\ [task EXCEPT ![t] = row] \in Board /\ Known([task EXCEPT ![t] = row], run)
  BY Written
<1>2. Named' /\ held' \in [Worker -> Copy \cup {None}]
  BY <1>1, ReplyTypes, ProgramsValid DEF Inv
<1>3. TypeOK'
  BY <1>1, <1>2 DEF Inv, TypeOK, Board
<1>4. Linked'
  BY <1>1, ProgramsValid DEF Linked, Known
<1> QED BY <1>2, <1>3, <1>4 DEF Inv

LEMMA InvInit == Init => Inv
<1> SUFFICES ASSUME Init PROVE Inv
  OBVIOUS
<1>1. TypeOK
  BY ProgramsValid DEF Init, TypeOK
<1>2. Linked /\ Named
  BY ProgramsValid DEF Init, Linked, Named
<1> QED BY <1>1, <1>2 DEF Inv

LEMMA InvStart == Inv /\ StartProgram => Inv'
<1> SUFFICES ASSUME Inv, StartProgram PROVE Inv'
  OBVIOUS
<1>0. run = None /\ born = 0 /\ held' = held /\ \A t \in Task : task[t] = None
  BY DEF Inv, Linked, StartProgram
<1> DEFINE r(p, c) == [steps |-> p, column |-> c, started |-> FALSE, finished |-> FALSE,
                       cancelled |-> FALSE]
           T(p, c) == [task EXCEPT ![1] = NewTask(r(p, c), Root, 1)]
           going(p, c) == Going(r(p, c), T(p, c), Event("WithRoot", None, None))
<1>1. PICK p \in Programs, c \in Landing :
        \E last \in 1 .. Most[p] : \E made \in [2 .. last -> going(p, c)] :
          /\ task' = [t \in Task |-> IF t \in DOMAIN made THEN NewTask(r(p, c), made[t], 1)
                                     ELSE T(p, c)[t]]
          /\ born' = last
          /\ run' = r(p, c)
  BY DEF StartProgram
<1>2. PICK last \in 1 .. Most[p] : \E made \in [2 .. last -> going(p, c)] :
          /\ task' = [t \in Task |-> IF t \in DOMAIN made THEN NewTask(r(p, c), made[t], 1)
                                     ELSE T(p, c)[t]]
          /\ born' = last
          /\ run' = r(p, c)
  BY <1>1
<1>3. PICK made \in [2 .. last -> going(p, c)] :
          /\ task' = [t \in Task |-> IF t \in DOMAIN made THEN NewTask(r(p, c), made[t], 1)
                                     ELSE T(p, c)[t]]
          /\ born' = last
          /\ run' = r(p, c)
  BY <1>2
<1>4. /\ r(p, c) \in Run /\ r(p, c).steps = p /\ 1 \in Go /\ c \in Column
      /\ MaxTask \in Nat /\ last \in 1 .. MaxTask /\ None \notin Run
  BY ProgramsValid DEF Run, Task
<1>5. ASSUME NEW t \in Task, t \in 2 .. last
      PROVE  task'[t] \in Row /\ task'[t].step \in DOMAIN p /\ task'[t].step # Root
  <2>1. made[t] \in DOMAIN p
    BY <1>5 DEF Going
  <2>2. made[t] \in Step \cup {Root} /\ made[t] # Root
    BY <2>1, StepTypes
  <2>3. task'[t] = NewTask(r(p, c), made[t], 1)
    BY <1>3, <1>5
  <2> QED BY <1>4, <2>1, <2>2, <2>3, NewTaskType
<1>6. 1 \in Task /\ task'[1] \in Row /\ task'[1].step = Root
  <2>1. 1 \in Task
    BY <1>4 DEF Task
  <2>2. task'[1] = NewTask(r(p, c), Root, 1)
    BY <1>3, <2>1 DEF Inv, TypeOK
  <2>3. NewTask(r(p, c), Root, 1) \in Row /\ NewTask(r(p, c), Root, 1).step = Root
    BY <1>4, NewTaskType
  <2> QED BY <2>1, <2>2, <2>3
<1>7. ASSUME NEW t \in Task, t # 1, t \notin 2 .. last PROVE task'[t] = None
  BY <1>0, <1>3, <1>7 DEF Inv, TypeOK
<1>8. TypeOK'
  <2>1. \A t \in Task : task'[t] \in Row \cup {None}
    BY <1>5, <1>6, <1>7
  <2>2. task' \in [Task -> Row \cup {None}]
    BY <1>3, <2>1
  <2>3. born' \in 0 .. MaxTask /\ run' \in Run
    BY <1>3, <1>4
  <2> HIDE DEF r, T, going
  <2> QED BY <1>0, <2>2, <2>3 DEF Inv, TypeOK
<1>9. Linked'
  <2>1. Known(task, run)'
    <3> SUFFICES ASSUME NEW t \in Task, task'[t] # None
                 PROVE  /\ t <= born' /\ (task'[t].step = Root <=> t = 1)
                        /\ t # 1 => task'[t].step \in DOMAIN run'.steps
      BY DEF Known, Task
    <3>1. CASE t = 1
      BY <1>3, <1>4, <1>6, <3>1
    <3>2. CASE t # 1
      <4>1. t \in 2 .. last
        BY <1>7, <3>2
      <4>2. t <= last /\ task'[t].step \in DOMAIN p /\ task'[t].step # Root
        BY <1>5, <4>1
      <4> QED BY <1>3, <1>4, <3>2, <4>2
    <3> QED BY <3>1, <3>2
  <2> QED BY <1>3, <1>4, <2>1 DEF Linked
<1>10. Named'
  <2> SUFFICES ASSUME NEW w \in Worker, held[w] # None, held[w].op # "CancelRun" PROVE FALSE
    BY <1>0 DEF Named
  <2>1. held[w].task \in Task /\ held[w].task <= 0
    BY <1>0, HeldTypes DEF Inv, Named
  <2> QED BY <1>4, <2>1 DEF Task
<1> QED BY <1>8, <1>9, <1>10 DEF Inv

LEMMA InvLoad == ASSUME Inv, NEW w \in Worker, Load(w) PROVE Inv'
<1>0. UNCHANGED <<task, born, run>>
  BY DEF Load
<1>1. CASE \E op \in Requests, t \in Tasks(task) :
             /\ Accepts(op, task[t])
             /\ held' = [held EXCEPT ![w] = [op |-> op, task |-> t, column |-> Shown(task[t])]]
  <2>1. PICK op \in Requests, t \in Tasks(task) :
             /\ Accepts(op, task[t])
             /\ held' = [held EXCEPT ![w] = [op |-> op, task |-> t, column |-> Shown(task[t])]]
    BY <1>1
  <2>2. t \in Task /\ task[t] # None /\ task[t] \in Row /\ run # None
    BY DEF Tasks, Inv, TypeOK, Linked
  <2>3. Shown(task[t]) \in Column
    BY <2>2, RowReads DEF Shown, IsArchived
  <2>4. [op |-> op, task |-> t, column |-> Shown(task[t])] \in Copy /\ op # "CancelRun"
    BY <2>2, <2>3 DEF Copy, Requests
  <2>5. TypeOK'
    <3>1. PICK c \in Copy : held' = [held EXCEPT ![w] = c]
      BY <2>1, <2>4
    <3>2. held' \in [Worker -> Copy \cup {None}]
      BY <3>1 DEF Inv, TypeOK
    <3> QED BY <1>0, <3>2 DEF Inv, TypeOK
  <2>6. t <= born /\ (op = "AnswerQuestion" => t # 1)
    BY <2>1, <2>2 DEF Inv, Linked, Known, Accepts
  <2>7. Named'
    BY <1>0, <2>1, <2>6 DEF Inv, Named, TypeOK
  <2> QED BY <1>0, <2>5, <2>7 DEF Inv, Linked, Known
<1>2. CASE held' = [held EXCEPT ![w] = [op |-> "CancelRun"]]
  <2>1. [op |-> "CancelRun"] \in Copy
    BY DEF Copy
  <2>2. TypeOK'
    BY <1>0, <1>2, <2>1 DEF Inv, TypeOK
  <2>3. Named'
    BY <1>0, <1>2 DEF Inv, Named, TypeOK
  <2> QED BY <1>0, <2>2, <2>3 DEF Inv, Linked, Known
<1> QED BY <1>1, <1>2 DEF Load

LEMMA ColumnsTyped == \A row : ColumnsOf(row) \subseteq Column
BY DEF ColumnsOf

LEMMA InvMove == ASSUME Inv, NEW w \in Worker, MoveTask(w) PROVE Inv'
<1> DEFINE t == held[w].task
<1>0. held[w] # None /\ held[w].op = "MoveTask" /\ task[t] # None /\ Replied(w)
  BY DEF MoveTask, Holds
<1>1. t \in Task /\ task[t] \in Row
  BY <1>0, HeldTypes DEF Inv, TypeOK
<1>2. PICK to \in ColumnsOf(task[t]) :
        LET T == [task EXCEPT ![t].column = to]
            reacts == IsActive(run) /\ to # held[w].column
            starts == reacts /\ to = "started" /\ T[t].step = Root /\ ~ run.started
        IN \/ starts /\ Apply(T, [run EXCEPT !.started = TRUE], Event("RootStarted", None, None))
           \/ /\ reacts /\ to = "finished"
              /\ \E answer \in Answer \cup {None} : Apply(T, run, Event("Finished", t, answer))
           \/ /\ ~ starts /\ ~ (reacts /\ to = "finished")
              /\ task' = T
              /\ UNCHANGED <<born, run>>
  BY DEF MoveTask
<1> DEFINE row == [task[t] EXCEPT !.column = to]
           T == [task EXCEPT ![t] = row]
<1>3. row \in Row /\ row.step = task[t].step
  BY <1>1, ColumnsTyped, RowFields, RowReads
<1>4. /\ run \in Run /\ born \in 1 .. MaxTask /\ T \in Board /\ Known(T, run)
      /\ T[t] = row /\ row # None /\ run # None
  BY <1>0, <1>1, <1>3, Written, ProgramsValid
<1>5. CASE Apply(T, [run EXCEPT !.started = TRUE], Event("RootStarted", None, None))
  <2>1. /\ [run EXCEPT !.started = TRUE] \in Run
        /\ [run EXCEPT !.started = TRUE].steps = run.steps
    BY <1>4, RunFields
  <2>2. Known(T, [run EXCEPT !.started = TRUE])
    BY <1>4, <2>1 DEF Known
  <2>3. Occurs(T, [run EXCEPT !.started = TRUE], Event("RootStarted", None, None))
    BY DEF Occurs, Event
  <2> QED BY <1>0, <1>4, <1>5, <2>1, <2>2, <2>3, ReactsTypes
<1>6. CASE \E answer \in Answer \cup {None} : Apply(T, run, Event("Finished", t, answer))
  <2>1. PICK answer \in Answer \cup {None} : Apply(T, run, Event("Finished", t, answer))
    BY <1>6
  <2>2. Occurs(T, run, Event("Finished", t, answer))
    BY <1>1, <1>4 DEF Occurs, Event
  <2> QED BY <1>0, <1>4, <2>1, <2>2, ReactsTypes
<1>7. CASE task' = T /\ UNCHANGED <<born, run>>
  BY <1>0, <1>1, <1>3, <1>7, WritesTypes
<1> QED BY <1>2, <1>5, <1>6, <1>7

LEMMA InvAnswer == ASSUME Inv, NEW w \in Worker, AnswerQuestion(w) PROVE Inv'
<1> DEFINE t == held[w].task
<1>0. /\ held[w] # None /\ held[w].op = "AnswerQuestion" /\ task[t] # None /\ Replied(w)
      /\ IsActive(run)
  BY DEF AnswerQuestion, Holds
<1>1. t \in Task /\ t # 1 /\ task \in Board
  BY <1>0, HeldTypes DEF Inv, Named, TypeOK, Board
<1>2. run \in Run /\ run # None /\ Known(task, run)
  BY <1>0 DEF Inv, TypeOK, Linked, IsActive
<1>3. PICK answer \in run.steps[task[t].step].answers :
        Apply(task, run, Event("Answered", t, answer))
  BY DEF AnswerQuestion
<1>4. Occurs(task, run, Event("Answered", t, answer))
  BY <1>0, <1>1, <1>2, <1>3 DEF Occurs, Event, Known
<1> QED BY <1>0, <1>1, <1>2, <1>3, <1>4, ReactsTypes

(* A row that is written and skipped is written once.                      *)
LEMMA SkippedToo ==
  ASSUME NEW f, NEW t \in DOMAIN f, NEW r
  PROVE  [[f EXCEPT ![t] = r] EXCEPT ![t].skipped = TRUE] = [f EXCEPT ![t] = [r EXCEPT !.skipped = TRUE]]
  OBVIOUS

LEMMA InvDelete == ASSUME Inv, NEW w \in Worker, DeleteTask(w) PROVE Inv'
<1> DEFINE t == held[w].task
           row == [task[t] EXCEPT !.back = task[t].column]
<1>0. held[w] # None /\ held[w].op = "DeleteTask" /\ task[t] # None /\ Replied(w)
  BY DEF DeleteTask, Holds
<1>1. t \in Task /\ task[t] \in Row
  BY <1>0, HeldTypes DEF Inv, TypeOK
<1>2. row \in Row /\ row.step = task[t].step
  BY <1>1, RowFields, RowReads
<1>3. /\ [row EXCEPT !.skipped = TRUE] \in Row
      /\ [row EXCEPT !.skipped = TRUE].step = task[t].step
  BY <1>2, RowFields, RowReads
<1>4. CASE task' = [task EXCEPT ![t] = row] /\ UNCHANGED <<born, run>>
  BY <1>0, <1>1, <1>2, <1>4, WritesTypes
<1>5. CASE Apply([[task EXCEPT ![t] = row] EXCEPT ![t].skipped = TRUE], run,
                 Event("Deleted", t, None))
  <2> DEFINE T == [task EXCEPT ![t] = [row EXCEPT !.skipped = TRUE]]
  <2>1. [[task EXCEPT ![t] = row] EXCEPT ![t].skipped = TRUE] = T
    BY <1>1, SkippedToo DEF Inv, TypeOK, Board
  <2>2. run \in Run /\ run # None /\ T \in Board /\ Known(T, run) /\ T[t] # None
    <3>1. /\ run \in Run /\ T \in Board /\ Known(T, run)
          /\ T[t] = [row EXCEPT !.skipped = TRUE] /\ [row EXCEPT !.skipped = TRUE] # None
      BY <1>0, <1>1, <1>3, Written, ZenonT(40)
    <3> QED BY <3>1, ProgramsValid
  <2>3. Occurs(T, run, Event("Deleted", t, None))
    BY <1>1, <2>2 DEF Occurs, Event
  <2> QED BY <1>0, <1>5, <2>1, <2>2, <2>3, ReactsTypes
<1> QED BY <1>4, <1>5 DEF DeleteTask

LEMMA InvRestore == ASSUME Inv, NEW w \in Worker, RestoreTask(w) PROVE Inv'
<1> DEFINE t == held[w].task
           row == [[[task[t] EXCEPT !.column = held[w].column] EXCEPT !.back = None]
                     EXCEPT !.skipped = FALSE]
<1>0. held[w] # None /\ held[w].op = "RestoreTask" /\ task[t] # None /\ Replied(w)
  BY DEF RestoreTask, Holds
<1>1. t \in Task /\ held[w].column \in Column /\ task[t] \in Row
  BY <1>0, HeldTypes DEF Inv, TypeOK
<1>2. /\ [task[t] EXCEPT !.column = held[w].column] \in Row
      /\ [task[t] EXCEPT !.column = held[w].column].step = task[t].step
  BY <1>1, RowFields, RowReads
<1>3. /\ [[task[t] EXCEPT !.column = held[w].column] EXCEPT !.back = None] \in Row
      /\ [[task[t] EXCEPT !.column = held[w].column] EXCEPT !.back = None].step = task[t].step
  BY <1>2, RowFields, RowReads
<1>4. row \in Row /\ row.step = task[t].step
  BY <1>3, RowFields, RowReads
<1>5. task' = [task EXCEPT ![t] = row] /\ UNCHANGED <<born, run>>
  BY DEF RestoreTask
<1> QED BY <1>0, <1>1, <1>4, <1>5, WritesTypes

LEMMA InvPurge == ASSUME Inv, NEW w \in Worker, PurgeTask(w) PROVE Inv'
<1> DEFINE t == held[w].task
<1>0. held[w] # None /\ task[t] # None /\ Replied(w) /\ born' = born
  BY DEF PurgeTask, Holds
<1>1. born \in Nat /\ Named' /\ held' \in [Worker -> Copy \cup {None}]
  BY <1>0, ReplyTypes, ProgramsValid DEF Inv, TypeOK
<1>2. CASE task' = [u \in Task |-> None] /\ run' = None
  <2>1. TypeOK' /\ Linked'
    BY <1>0, <1>1, <1>2 DEF Inv, TypeOK, Linked
  <2> QED BY <1>1, <2>1 DEF Inv
<1>3. CASE task' = [task EXCEPT ![t] = None] /\ run' = run
  <2>1. TypeOK'
    BY <1>0, <1>1, <1>3 DEF Inv, TypeOK
  <2>2. Linked'
    BY <1>0, <1>3 DEF Inv, TypeOK, Linked, Known
  <2> QED BY <1>1, <2>1, <2>2 DEF Inv
<1> QED BY <1>2, <1>3 DEF PurgeTask

LEMMA InvArchive == ASSUME Inv, NEW w \in Worker, Archive(w) PROVE Inv'
<1> DEFINE t == held[w].task
           row == [task[t] EXCEPT !.back = task[t].column]
<1>0. held[w] # None /\ held[w].op = "Archive" /\ task[t] # None /\ Replied(w)
  BY DEF Archive, Holds
<1>1. t \in Task /\ task[t] \in Row
  BY <1>0, HeldTypes DEF Inv, TypeOK
<1>2. row \in Row /\ row.step = task[t].step
  BY <1>1, RowFields, RowReads
<1>3. task' = [task EXCEPT ![t] = row] /\ UNCHANGED <<born, run>>
  BY DEF Archive
<1> QED BY <1>0, <1>1, <1>2, <1>3, WritesTypes

LEMMA InvCancel == ASSUME Inv, NEW w \in Worker, CancelRun(w) PROVE Inv'
<1>0. run # None /\ run' = [run EXCEPT !.cancelled = TRUE] /\ Replied(w) /\ born' = born
  BY DEF CancelRun
<1>1. run \in Run /\ run' \in Run /\ run' # None /\ run'.steps = run.steps
  <2>1. run \in Run
    BY <1>0 DEF Inv, TypeOK
  <2>2. run' \in Run /\ run'.steps = run.steps
    BY <1>0, <2>1, RunFields
  <2> QED BY <2>1, <2>2, ProgramsValid
<1>2. born \in Nat /\ Named' /\ held' \in [Worker -> Copy \cup {None}]
  BY <1>0, ReplyTypes, ProgramsValid DEF Inv, TypeOK
<1>3. task' \in Board /\ \A t \in Task : task'[t] # None =>
                            task[t] # None /\ task'[t].step = task[t].step
  <2>1. CASE task' = task
    BY <2>1 DEF Inv, TypeOK, Board
  <2>2. CASE task' = [t \in Task |-> IF t \in Tasks(task) /\ ~ IsDone(task[t])
                                     THEN [task[t] EXCEPT !.back = task[t].column]
                                     ELSE task[t]]
    <3>1. ASSUME NEW t \in Task
          PROVE  /\ task'[t] \in Row \cup {None}
                 /\ task'[t] # None => task[t] # None /\ task'[t].step = task[t].step
      <4>1. CASE t \in Tasks(task) /\ ~ IsDone(task[t])
        <5>1. task[t] # None /\ task[t] \in Row
          BY <4>1 DEF Tasks, Inv, TypeOK
        <5> QED BY <2>2, <4>1, <5>1, RowFields, RowReads
      <4>2. CASE ~ (t \in Tasks(task) /\ ~ IsDone(task[t]))
        BY <2>2, <4>2 DEF Inv, TypeOK
      <4> QED BY <4>1, <4>2
    <3> QED BY <2>2, <3>1 DEF Board
  <2> QED BY <2>1, <2>2 DEF CancelRun
<1>4. TypeOK'
  BY <1>0, <1>1, <1>2, <1>3 DEF Inv, TypeOK, Board
<1>5. Linked'
  BY <1>0, <1>1, <1>3 DEF Inv, Linked, Known
<1> QED BY <1>2, <1>4, <1>5 DEF Inv

LEMMA InvRefused == ASSUME Inv, NEW w \in Worker, Refused(w) PROVE Inv'
<1>0. Replied(w) /\ UNCHANGED <<task, born, run>>
  BY DEF Refused
<1>1. born \in Nat /\ Named' /\ held' \in [Worker -> Copy \cup {None}]
  BY <1>0, ReplyTypes, ProgramsValid DEF Inv, TypeOK
<1> QED BY <1>0, <1>1 DEF Inv, TypeOK, Linked, Known

LEMMA InvNext == Inv /\ [Next]_vars => Inv'
<1> SUFFICES ASSUME Inv, [Next]_vars PROVE Inv'
  OBVIOUS
<1>1. CASE UNCHANGED vars
  BY <1>1 DEF vars, Inv, TypeOK, Linked, Known, Named
<1>2. CASE Next
  BY <1>2, InvStart, InvLoad, InvMove, InvAnswer, InvDelete, InvRestore, InvPurge, InvArchive,
     InvCancel, InvRefused DEF Next, Handler
<1> QED BY <1>1, <1>2

(* The rows, the copies and the run keep their types, for every set of     *)
(* valid programs: a restored task has a column, whatever happened to it   *)
(* since its copy was loaded, and an answer that is stored is an answer.   *)
THEOREM TypeCorrect == Spec => []TypeOK
<1>1. Inv => TypeOK
  BY DEF Inv
<1> QED BY InvInit, InvNext, <1>1, PTL DEF Spec

-----------------------------------------------------------------------------
(* The root ends the run.                                                  *)

\* The run has ended, or was started in the finished column.
Over == ~ IsActive(run) \/ run.column = "finished"

RootOpen(T) == 1 \in Task /\ T[1] # None /\ T[1].back = None /\ T[1].column # "finished"

(* A request that was loaded with the root done, or to bring it back,      *)
(* comes after the end of the run: without this the root could be archived *)
(* or moved about under a run that still reacts.                           *)
Ended ==
  \A w \in Worker :
    (/\ held[w] # None /\ held[w].op # "CancelRun" /\ held[w].task = 1
     /\ held[w].op \in {"RestoreTask", "PurgeTask", "Archive"} \/ held[w].column = "finished")
    => Over

RootInv == Inv /\ (Over \/ RootOpen(task)) /\ Ended

LEMMA RootInvSuffices == RootInv => RootEndsRun
<1> SUFFICES ASSUME RootInv, IsActive(run), run.column # "finished"
             PROVE  \E t \in Of(task, Root) : ~ IsDone(task[t])
  BY DEF RootEndsRun
<1>1. RootOpen(task) /\ run # None
  BY DEF RootInv, Over, IsActive
<1>2. 1 \in Task /\ task[1] # None /\ task[1].step = Root
  BY <1>1 DEF RootOpen, RootInv, Inv, Linked, Known
<1>3. 1 \in Of(task, Root) /\ ~ IsDone(task[1])
  BY <1>1, <1>2 DEF RootOpen, Of, Tasks, IsDone, IsArchived
<1> QED BY <1>3

LEMMA AppliedRun ==
  ASSUME NEW T, NEW r \in Run, NEW e, Apply(T, r, e)
  PROVE  /\ run' \in Run /\ run'.column = r.column /\ run'.started = r.started
         /\ run'.steps = r.steps
<1>1. CASE EndsRun(T, e)
  <2>1. run' = [r EXCEPT !.finished = TRUE]
    BY <1>1 DEF Apply
  <2> QED BY <2>1 DEF Run
<1>2. CASE ~ EndsRun(T, e)
  <2>1. run' = [r EXCEPT !.finished = (r.finished \/ FinishesRoot(r, T, e))]
    BY <1>2 DEF Apply
  <2>2. (r.finished \/ FinishesRoot(r, T, e)) \in BOOLEAN
    OBVIOUS
  <2>3. PICK b \in BOOLEAN : b = (r.finished \/ FinishesRoot(r, T, e))
    BY <2>2, Zenon
  <2>4. run' = [r EXCEPT !.finished = b]
    BY <2>1, <2>3, Zenon
  <2> QED BY <2>4 DEF Run
<1> QED BY <1>1, <1>2

(* The run a request's event is about.                                     *)
LEMMA MovedRun ==
  ASSUME Inv, NEW w \in Worker, MoveTask(w), run # None
  PROVE  run' # None /\ run'.column = run.column /\ (run' = run \/ IsActive(run))
<1>1. run \in Run /\ run # None /\ None \notin Run
  BY ProgramsValid DEF Inv, TypeOK
<1>2. [run EXCEPT !.started = TRUE] \in Run /\ [run EXCEPT !.started = TRUE].column = run.column
  BY <1>1, RunFields
<1>3. CASE run' = run
  BY <1>1, <1>3
<1>4. CASE run' # run
  <2>1. IsActive(run) /\ \E T, e : \/ Apply(T, [run EXCEPT !.started = TRUE], e)
                                  \/ Apply(T, run, e)
    BY <1>4 DEF MoveTask
  <2> QED BY <1>1, <1>2, <2>1, AppliedRun
<1> QED BY <1>3, <1>4

(* A run that is over stays over.                                          *)
LEMMA OverStays ==
  ASSUME Inv, NEW w \in Worker, Load(w) \/ Handler(w), Over
  PROVE  Over'
<1>1. CASE run' = run
  BY <1>1 DEF Over, IsActive
<1>2. CASE run' # run /\ run = None
  BY <1>2 DEF Load, Handler, MoveTask, AnswerQuestion, DeleteTask, RestoreTask, PurgeTask,
              Archive, CancelRun, Refused, IsActive, Holds, Inv, Linked, TypeOK
<1>3. CASE run' # run /\ run # None
  <2>1. run \in Run /\ None \notin Run
    BY <1>3, ProgramsValid DEF Inv, TypeOK
  <2>2. CASE MoveTask(w)
    BY <1>3, <2>2, MovedRun DEF Over
  <2>3. CASE AnswerQuestion(w) \/ DeleteTask(w)
    <3>1. IsActive(run) /\ \E T, e : Apply(T, run, e)
      BY <1>3, <2>3 DEF AnswerQuestion, DeleteTask
    <3> QED BY <2>1, <3>1, AppliedRun DEF Over
  <2>4. CASE PurgeTask(w)
    BY <1>3, <2>4 DEF PurgeTask, Over, IsActive
  <2>5. CASE CancelRun(w)
    <3>1. run'.cancelled
      BY <2>1, <2>5, RunFields DEF CancelRun
    <3> QED BY <3>1 DEF Over, IsActive
  <2>6. CASE Load(w) \/ RestoreTask(w) \/ Archive(w) \/ Refused(w)
    BY <1>3, <2>6 DEF Load, RestoreTask, Archive, Refused
  <2> QED BY <2>2, <2>3, <2>4, <2>5, <2>6 DEF Handler
<1> QED BY <1>1, <1>2, <1>3

LEMMA ReactsRoot ==
  ASSUME NEW T \in Board, NEW r \in Run, NEW e, born \in 1 .. MaxTask,
         Known(T, r), Occurs(T, r, e), Apply(T, r, e), RootOpen(T) \/ EndsRun(T, e)
  PROVE  (Over \/ RootOpen(task))'
<1>1. CASE EndsRun(T, e)
  BY <1>1, Applied DEF Over, IsActive
<1>2. CASE RootOpen(T)
  BY <1>2, Applied DEF Over, IsActive, RootOpen
<1> QED BY <1>1, <1>2

LEMMA MoveRoot ==
  ASSUME Inv, NEW w \in Worker, MoveTask(w), RootOpen(task), Ended
  PROVE  (Over \/ RootOpen(task))'
<1> DEFINE t == held[w].task
<1>0. held[w] # None /\ held[w].op = "MoveTask" /\ task[t] # None /\ Replied(w)
  BY DEF MoveTask, Holds
<1>1. t \in Task /\ task[t] \in Row
  BY <1>0, HeldTypes DEF Inv, TypeOK
<1>2. PICK to \in ColumnsOf(task[t]) :
        LET T == [task EXCEPT ![t].column = to]
            reacts == IsActive(run) /\ to # held[w].column
            starts == reacts /\ to = "started" /\ T[t].step = Root /\ ~ run.started
        IN \/ starts /\ Apply(T, [run EXCEPT !.started = TRUE], Event("RootStarted", None, None))
           \/ /\ reacts /\ to = "finished"
              /\ \E answer \in Answer \cup {None} : Apply(T, run, Event("Finished", t, answer))
           \/ /\ ~ starts /\ ~ (reacts /\ to = "finished")
              /\ task' = T
              /\ UNCHANGED <<born, run>>
  BY DEF MoveTask
<1> DEFINE row == [task[t] EXCEPT !.column = to]
           T == [task EXCEPT ![t] = row]
<1>3. row \in Row /\ row.step = task[t].step /\ row.column = to /\ row.back = task[t].back
  BY <1>1, ColumnsTyped, RowFields, RowReads
<1>4. /\ run \in Run /\ born \in 1 .. MaxTask /\ T \in Board /\ Known(T, run)
      /\ T[t] = row /\ row # None /\ run # None
  BY <1>0, <1>1, <1>3, Written, ProgramsValid
<1>5. t # 1 \/ to # "finished" => RootOpen(T)
  BY <1>3, <1>4 DEF RootOpen, Inv, TypeOK
<1>6. CASE to = "started" /\ Apply(T, [run EXCEPT !.started = TRUE], Event("RootStarted", None, None))
  <2>1. /\ [run EXCEPT !.started = TRUE] \in Run
        /\ [run EXCEPT !.started = TRUE].steps = run.steps
    BY <1>4, RunFields
  <2>2. Known(T, [run EXCEPT !.started = TRUE])
    BY <1>4, <2>1 DEF Known
  <2>3. Occurs(T, [run EXCEPT !.started = TRUE], Event("RootStarted", None, None))
    BY DEF Occurs, Event
  <2>4. RootOpen(T)
    BY <1>5, <1>6
  <2> QED BY <1>4, <1>6, <2>1, <2>2, <2>3, <2>4, ReactsRoot
<1>7. CASE /\ to = "finished"
           /\ \E answer \in Answer \cup {None} : Apply(T, run, Event("Finished", t, answer))
  <2>1. PICK answer \in Answer \cup {None} : Apply(T, run, Event("Finished", t, answer))
    BY <1>7
  <2>2. Occurs(T, run, Event("Finished", t, answer))
    BY <1>1, <1>4 DEF Occurs, Event
  <2>3. ASSUME t = 1 PROVE EndsRun(T, Event("Finished", t, answer))
    <3>1. T[t].step = Root
      BY <1>1, <1>4, <2>3 DEF Known
    <3> QED BY <3>1 DEF EndsRun, Event
  <2>4. RootOpen(T) \/ EndsRun(T, Event("Finished", t, answer))
    BY <1>5, <2>3
  <2> QED BY <1>4, <2>1, <2>2, <2>4, ReactsRoot
<1>8. CASE /\ ~ (IsActive(run) /\ to # held[w].column /\ to = "finished")
           /\ task' = T /\ UNCHANGED <<born, run>>
  <2>1. CASE RootOpen(T)
    BY <1>8, <2>1 DEF RootOpen
  <2>2. CASE ~ RootOpen(T)
    <3>1. t = 1 /\ to = "finished"
      BY <1>5, <2>2
    <3>2. ~ IsActive(run) \/ held[w].column = "finished"
      BY <1>8, <3>1
    <3>3. Over
      BY <1>0, <3>1, <3>2 DEF Ended, Over
    <3> QED BY <1>8, <3>3 DEF Over, IsActive
  <2> QED BY <2>1, <2>2
<1> QED BY <1>2, <1>6, <1>7, <1>8

LEMMA DeleteRoot ==
  ASSUME Inv, NEW w \in Worker, DeleteTask(w), RootOpen(task)
  PROVE  (Over \/ RootOpen(task))'
<1> DEFINE t == held[w].task
           row == [task[t] EXCEPT !.back = task[t].column]
           T == [task EXCEPT ![t] = [row EXCEPT !.skipped = TRUE]]
<1>0. held[w] # None /\ held[w].op = "DeleteTask" /\ task[t] # None /\ Replied(w)
  BY DEF DeleteTask, Holds
<1>1. t \in Task /\ task[t] \in Row
  BY <1>0, HeldTypes DEF Inv, TypeOK
<1>2. row \in Row /\ row.step = task[t].step
  BY <1>1, RowFields, RowReads
<1>3. /\ [row EXCEPT !.skipped = TRUE] \in Row
      /\ [row EXCEPT !.skipped = TRUE].step = task[t].step
  BY <1>2, RowFields, RowReads
<1>4. CASE ~ IsActive(run) /\ UNCHANGED <<born, run>>
  BY <1>4 DEF Over, IsActive
<1>5. CASE Apply([[task EXCEPT ![t] = row] EXCEPT ![t].skipped = TRUE], run,
                 Event("Deleted", t, None))
  <2>1. [[task EXCEPT ![t] = row] EXCEPT ![t].skipped = TRUE] = T
    BY <1>1 DEF Inv, TypeOK
  <2>2. /\ run \in Run /\ born \in 1 .. MaxTask /\ T \in Board /\ Known(T, run)
        /\ T[t] = [row EXCEPT !.skipped = TRUE] /\ [row EXCEPT !.skipped = TRUE] # None
    BY <1>0, <1>1, <1>3, Written, ZenonT(40)
  <2>3. Occurs(T, run, Event("Deleted", t, None))
    BY <1>1, <2>2 DEF Occurs, Event
  <2>4. CASE t = 1
    <3>1. T[t].step = Root
      BY <1>1, <2>2, <2>4 DEF Known
    <3>2. EndsRun(T, Event("Deleted", t, None))
      BY <3>1 DEF EndsRun, Event
    <3> QED BY <1>5, <2>1, <2>2, <2>3, <3>2, ReactsRoot
  <2>5. CASE t # 1
    <3>1. RootOpen(T)
      BY <2>5 DEF RootOpen, Inv, TypeOK
    <3> QED BY <1>5, <2>1, <2>2, <2>3, <3>1, ReactsRoot
  <2> QED BY <2>4, <2>5
<1> QED BY <1>4, <1>5 DEF DeleteTask

LEMMA AnswerRoot ==
  ASSUME Inv, NEW w \in Worker, AnswerQuestion(w), RootOpen(task)
  PROVE  (Over \/ RootOpen(task))'
<1> DEFINE t == held[w].task
<1>0. /\ held[w] # None /\ held[w].op = "AnswerQuestion" /\ task[t] # None
      /\ IsActive(run)
  BY DEF AnswerQuestion, Holds
<1>1. t \in Task /\ t # 1 /\ task \in Board
  BY <1>0, HeldTypes DEF Inv, Named, TypeOK, Board
<1>2. run \in Run /\ Known(task, run) /\ born \in 1 .. MaxTask
  BY <1>0 DEF Inv, TypeOK, Linked, IsActive
<1>3. PICK answer \in run.steps[task[t].step].answers :
        Apply(task, run, Event("Answered", t, answer))
  BY DEF AnswerQuestion
<1>4. Occurs(task, run, Event("Answered", t, answer))
  BY <1>0, <1>1, <1>2, <1>3 DEF Occurs, Event, Known
<1> QED BY <1>1, <1>2, <1>3, <1>4, ReactsRoot

(* Requests that only write a task of which Ended says that it is not the root. *)
LEMMA OtherRoot ==
  ASSUME Inv, NEW w \in Worker, RestoreTask(w) \/ PurgeTask(w) \/ Archive(w), RootOpen(task), Ended
  PROVE  (Over \/ RootOpen(task))'
<1> DEFINE t == held[w].task
<1>1. /\ held[w] # None /\ held[w].op \in {"RestoreTask", "PurgeTask", "Archive"}
      /\ held[w].op # "CancelRun" /\ task[t] # None
  BY DEF RestoreTask, PurgeTask, Archive, Holds
<1>2. CASE t = 1
  <2>1. Over
    BY <1>1, <1>2 DEF Ended
  <2>2. Over'
    BY <2>1, OverStays DEF Handler
  <2> QED BY <2>2
<1>3. CASE t # 1
  <2>1. CASE task' = [u \in Task |-> None] /\ run' = None
    BY <2>1 DEF Over, IsActive
  <2>2. CASE ~ (task' = [u \in Task |-> None] /\ run' = None)
    <3>1. task'[1] = task[1]
      BY <1>3, <2>2 DEF RestoreTask, PurgeTask, Archive, RootOpen, Inv, TypeOK
    <3> QED BY <3>1 DEF RootOpen
  <2> QED BY <2>1, <2>2
<1> QED BY <1>2, <1>3

LEMMA StartRoot == Inv /\ StartProgram => (Over \/ RootOpen(task))'
<1> SUFFICES ASSUME Inv, StartProgram PROVE (Over \/ RootOpen(task))'
  OBVIOUS
<1> DEFINE r(p, c) == [steps |-> p, column |-> c, started |-> FALSE, finished |-> FALSE,
                       cancelled |-> FALSE]
           T(p, c) == [task EXCEPT ![1] = NewTask(r(p, c), Root, 1)]
           going(p, c) == Going(r(p, c), T(p, c), Event("WithRoot", None, None))
<1>1. PICK p \in Programs, c \in Landing :
        \E last \in 1 .. Most[p] : \E made \in [2 .. last -> going(p, c)] :
          /\ task' = [t \in Task |-> IF t \in DOMAIN made THEN NewTask(r(p, c), made[t], 1)
                                     ELSE T(p, c)[t]]
          /\ run' = r(p, c)
  BY DEF StartProgram
<1>2. 1 \in Task /\ r(p, c) \in Run /\ 1 \in Go
  <2>1. Most[p] \in Task /\ MaxTask \in Nat
    BY ProgramsValid
  <2> QED BY <2>1, ProgramsValid DEF Run, Task
<1>3. task'[1] = NewTask(r(p, c), Root, 1) /\ run' = r(p, c)
  <2>1. PICK last \in 1 .. Most[p] : \E made \in [2 .. last -> going(p, c)] :
          /\ task' = [t \in Task |-> IF t \in DOMAIN made THEN NewTask(r(p, c), made[t], 1)
                                     ELSE T(p, c)[t]]
          /\ run' = r(p, c)
    BY <1>1
  <2>2. PICK made \in [2 .. last -> going(p, c)] :
          /\ task' = [t \in Task |-> IF t \in DOMAIN made THEN NewTask(r(p, c), made[t], 1)
                                     ELSE T(p, c)[t]]
          /\ run' = r(p, c)
    BY <2>1
  <2>3. task'[1] = T(p, c)[1]
    BY <1>2, <2>2
  <2> QED BY <1>2, <2>2, <2>3 DEF Inv, TypeOK
<1>4. /\ task'[1] \in Row /\ task'[1].back = None /\ task'[1].column = c /\ run'.column = c
  BY <1>2, <1>3, NewTaskType
<1> QED BY <1>2, <1>4, ProgramsValid DEF Over, RootOpen

LEMMA RootStays == RootInv /\ [Next]_vars => (Over \/ RootOpen(task))'
<1> SUFFICES ASSUME RootInv, [Next]_vars PROVE (Over \/ RootOpen(task))'
  OBVIOUS
<1>1. CASE UNCHANGED vars
  BY <1>1 DEF vars, RootInv, Over, IsActive, RootOpen
<1>2. CASE StartProgram
  BY <1>2, StartRoot DEF RootInv
<1>3. ASSUME NEW w \in Worker, Load(w) \/ Handler(w) PROVE (Over \/ RootOpen(task))'
  <2>1. CASE Over
    BY <1>3, <2>1, OverStays DEF RootInv
  <2>2. CASE RootOpen(task)
    <3>1. CASE MoveTask(w) \/ AnswerQuestion(w) \/ DeleteTask(w) \/ RestoreTask(w)
               \/ PurgeTask(w) \/ Archive(w)
      BY <2>2, <3>1, MoveRoot, AnswerRoot, DeleteRoot, OtherRoot DEF RootInv
    <3>2. CASE CancelRun(w)
      <4>1. run \in Run /\ run' = [run EXCEPT !.cancelled = TRUE]
        BY <3>2 DEF CancelRun, RootInv, Inv, TypeOK
      <4> QED BY <4>1, RunFields DEF Over, IsActive
    <3>3. CASE Load(w) \/ Refused(w)
      BY <2>2, <3>3 DEF Load, Refused, RootOpen
    <3> QED BY <1>3, <3>1, <3>2, <3>3 DEF Handler
  <2> QED BY <2>1, <2>2 DEF RootInv
<1> QED BY <1>1, <1>2, <1>3 DEF Next

LEMMA HandlerReplies ==
  ASSUME NEW w \in Worker, Handler(w)
  PROVE  Replied(w) /\ held[w] # None
BY DEF Handler, MoveTask, AnswerQuestion, DeleteTask, RestoreTask, PurgeTask, Archive, CancelRun,
       Refused, Holds

LEMMA EndedStays == RootInv /\ [Next]_vars => Ended'
<1> SUFFICES ASSUME RootInv, [Next]_vars, NEW v \in Worker,
                    held'[v] # None, held'[v].op # "CancelRun", held'[v].task = 1,
                    \/ held'[v].op \in {"RestoreTask", "PurgeTask", "Archive"}
                    \/ held'[v].column = "finished"
             PROVE  Over'
  BY DEF Ended
<1>1. CASE UNCHANGED vars
  BY <1>1 DEF vars, RootInv, Ended, Over, IsActive
<1>2. CASE StartProgram
  <2>1. held'[v] = held[v] /\ born = 0
    BY <1>2 DEF StartProgram
  <2> QED BY <2>1 DEF RootInv, Inv, Named
<1>3. ASSUME NEW w \in Worker, Load(w) \/ Handler(w), held'[v] = held[v] PROVE Over'
  <2>1. Over
    BY <1>3 DEF RootInv, Ended
  <2> QED BY <1>3, <2>1, OverStays DEF RootInv
<1>4. ASSUME NEW w \in Worker, Handler(w) PROVE Over'
  <2>1. held'[v] = held[v]
    BY <1>4, HandlerReplies DEF Replied, RootInv, Inv, TypeOK
  <2> QED BY <1>3, <1>4, <2>1
<1>5. ASSUME NEW w \in Worker, Load(w), held'[v] # held[v] PROVE Over'
  <2>1. PICK op \in Requests, t \in Tasks(task) :
             /\ Accepts(op, task[t])
             /\ held' = [held EXCEPT ![w] = [op |-> op, task |-> t, column |-> Shown(task[t])]]
    <3>1. held' # [held EXCEPT ![w] = [op |-> "CancelRun"]]
      BY <1>5 DEF RootInv, Inv, TypeOK
    <3> QED BY <1>5, <3>1 DEF Load
  <2>2. held'[v] = [op |-> op, task |-> t, column |-> Shown(task[t])]
    BY <1>5, <2>1 DEF RootInv, Inv, TypeOK
  <2>3. t = 1 /\ (op \in {"RestoreTask", "PurgeTask", "Archive"} \/ Shown(task[t]) = "finished")
    BY <2>2
  <2>4. ~ RootOpen(task)
    BY <2>1, <2>3 DEF RootOpen, Accepts, Shown, IsArchived
  <2>5. Over
    BY <2>4 DEF RootInv
  <2> QED BY <1>5, <2>5, OverStays DEF RootInv
<1> QED BY <1>1, <1>2, <1>3, <1>4, <1>5 DEF Next

(* "The root itself was finished or deleted by hand.  The run is over": a  *)
(* run that still reacts has its root on the board, whatever requests for  *)
(* the root were loaded before it ended.                                   *)
THEOREM RootCorrect == Spec => []RootEndsRun
<1>1. Init => RootInv
  <2>1. Init => Over /\ Ended
    BY DEF Init, Over, IsActive, Ended
  <2> QED BY <2>1, InvInit DEF RootInv
<1>2. RootInv /\ [Next]_vars => RootInv'
  BY InvNext, RootStays, EndedStays DEF RootInv
<1> QED BY <1>1, <1>2, RootInvSuffices, PTL DEF Spec

-----------------------------------------------------------------------------
(* Over is over.                                                           *)

\* What OverIsOver says of one step.
Quiet ==
  /\ born' = born
  /\ \A t \in Tasks(task) : task'[t] # None =>
       task'[t].asked = task[t].asked /\ task'[t].answer = task[t].answer

LEMMA QuietWrite ==
  ASSUME NEW row \in Row, NEW v
  PROVE  /\ [row EXCEPT !.column = v].asked = row.asked /\ [row EXCEPT !.column = v].answer = row.answer
         /\ [row EXCEPT !.back = v].asked = row.asked /\ [row EXCEPT !.back = v].answer = row.answer
         /\ [row EXCEPT !.skipped = v].asked = row.asked /\ [row EXCEPT !.skipped = v].answer = row.answer
BY DEF Row

LEMMA QuietStep == Inv /\ [Next]_vars /\ run # None /\ ~ IsActive(run) => Quiet
<1> SUFFICES ASSUME Inv, [Next]_vars, run # None, ~ IsActive(run) PROVE Quiet
  OBVIOUS
<1>0. \A t \in Tasks(task) : t \in Task /\ task[t] \in Row
  BY DEF Tasks, Inv, TypeOK
<1>1. CASE UNCHANGED vars
  BY <1>1 DEF vars, Quiet
<1>2. CASE StartProgram
  BY <1>2 DEF StartProgram
<1>3. ASSUME NEW w \in Worker, Load(w) \/ Refused(w) PROVE Quiet
  BY <1>3 DEF Load, Refused, Quiet
<1>4. ASSUME NEW w \in Worker, MoveTask(w) PROVE Quiet
  <2>1. PICK to : task' = [task EXCEPT ![held[w].task].column = to] /\ born' = born
    BY <1>4 DEF MoveTask
  <2> QED BY <1>0, <2>1, QuietWrite DEF Quiet, Inv, TypeOK
<1>5. ASSUME NEW w \in Worker, AnswerQuestion(w) PROVE Quiet
  BY <1>5 DEF AnswerQuestion
<1>6. ASSUME NEW w \in Worker, DeleteTask(w) \/ Archive(w) PROVE Quiet
  <2>1. task' = [task EXCEPT ![held[w].task].back = task[held[w].task].column] /\ born' = born
    BY <1>6 DEF DeleteTask, Archive
  <2> QED BY <1>0, <2>1, QuietWrite DEF Quiet, Inv, TypeOK
<1>7. ASSUME NEW w \in Worker, RestoreTask(w) PROVE Quiet
  <2>1. /\ task' = [task EXCEPT ![held[w].task] = [@ EXCEPT !.column = held[w].column, !.back = None,
                                                           !.skipped = FALSE]]
        /\ born' = born
    BY <1>7 DEF RestoreTask
  <2>2. ASSUME NEW t \in Tasks(task)
        PROVE  task'[t].asked = task[t].asked /\ task'[t].answer = task[t].answer
    BY <1>0, <2>1 DEF Inv, TypeOK, Row
  <2> QED BY <2>1, <2>2 DEF Quiet
<1>8. ASSUME NEW w \in Worker, PurgeTask(w) PROVE Quiet
  BY <1>0, <1>8 DEF PurgeTask, Quiet, Inv, TypeOK
<1>9. ASSUME NEW w \in Worker, CancelRun(w) PROVE Quiet
  <2>1. born' = born
    BY <1>9 DEF CancelRun
  <2>2. ASSUME NEW t \in Tasks(task)
        PROVE  task'[t].asked = task[t].asked /\ task'[t].answer = task[t].answer
    <3>1. task'[t] \in {task[t], [task[t] EXCEPT !.back = task[t].column]}
      BY <1>0, <1>9 DEF CancelRun
    <3>2. task[t] \in Row
      BY <1>0
    <3>3. CASE task'[t] = [task[t] EXCEPT !.back = task[t].column]
      BY <3>2, <3>3, QuietWrite
    <3> QED BY <3>1, <3>3
  <2> QED BY <2>1, <2>2 DEF Quiet
<1> QED BY <1>1, <1>2, <1>3, <1>4, <1>5, <1>6, <1>7, <1>8, <1>9 DEF Next, Handler

(* "The run is over and nothing in it reacts to anything again": no        *)
(* request, loaded before or after the end, makes, asks or answers.        *)
THEOREM OverCorrect == Spec => OverIsOver
<1>1. Inv /\ [Next]_vars => [run # None /\ ~ IsActive(run) => Quiet]_vars
  BY QuietStep
<1> QED BY InvInit, InvNext, <1>1, PTL DEF Spec, OverIsOver, Quiet

-----------------------------------------------------------------------------
(* Not before.                                                             *)

(* When the engine finishes the root, nothing that counts is owed in the   *)
(* tasks as they are afterwards, the new ones and the question just asked  *)
(* or answered included.                                                   *)
LEMMA NothingOwed ==
  ASSUME NEW T \in Board, NEW r \in Run, NEW e, born \in 1 .. MaxTask,
         Known(T, r), Occurs(T, r, e), Apply(T, r, e), ~ r.finished, run'.finished,
         ~ EndsRun(T, e)
  PROVE  run'.started /\ Owed(run', task') = {}
<1> DEFINE going == Going(r, T, e)
           ends == FinishesRoot(r, T, e)
<1>1. PICK last \in born .. Most[r.steps], go \in [going -> Go] :
        \E made \in [born + 1 .. last -> going] :
          /\ task' = [t \in Task |->
               IF t \in DOMAIN made THEN NewTask(r, made[t], go[made[t]])
               ELSE IF t = e.task THEN Marked(r, T, e, T[t])
               ELSE IF ends /\ t \in Of(T, Root) THEN [T[t] EXCEPT !.column = "finished"]
               ELSE T[t]]
          /\ run' = [r EXCEPT !.finished = @ \/ ends]
  BY DEF Apply
<1>2. PICK made \in [born + 1 .. last -> going] :
        /\ task' = [t \in Task |->
             IF t \in DOMAIN made THEN NewTask(r, made[t], go[made[t]])
             ELSE IF t = e.task THEN Marked(r, T, e, T[t])
             ELSE IF ends /\ t \in Of(T, Root) THEN [T[t] EXCEPT !.column = "finished"]
             ELSE T[t]]
        /\ run' = [r EXCEPT !.finished = @ \/ ends]
  BY <1>1
<1>3. ends
  BY <1>2 DEF Run
<1>4. run'.started = r.started /\ run'.steps = r.steps
  BY AppliedRun
<1>5. /\ r.started /\ OwedAfter(r, T, e) = {}
      /\ \A s \in going : ~ r.steps[s].counts
  BY <1>3 DEF FinishesRoot
<1>6. \A row : Counts(run', row) <=> Counts(r, row)
  BY <1>4 DEF Counts
<1>7. ASSUME NEW u \in Owed(run', task') PROVE FALSE
  <2>1. /\ u \in Task /\ task'[u] # None /\ Counts(r, task'[u]) /\ ~ task'[u].skipped
        /\ ~ IsDone(task'[u]) \/ PendingAnswer(task'[u])
    BY <1>6, <1>7 DEF Owed, Tasks
  <2>2. CASE u \in born + 1 .. last
    <3>1. task'[u] = NewTask(r, made[u], go[made[u]]) /\ made[u] \in going
      BY <1>2, <2>1, <2>2
    <3>2. made[u] \in DOMAIN r.steps /\ go[made[u]] \in Go
      BY <3>1 DEF Going
    <3>3. task'[u].step = made[u]
      BY <3>1 DEF NewTask
    <3> QED BY <1>5, <2>1, <3>1, <3>3 DEF Counts
  <2>3. CASE u \notin born + 1 .. last /\ u # e.task
    <3>1. T[u] # None
      BY <1>2, <2>1, <2>3 DEF Of, Tasks
    <3>2. u \notin Of(T, Root)
      <4>1. CASE u \in Of(T, Root)
        <5>1. task'[u] = [T[u] EXCEPT !.column = "finished"] /\ T[u].step = Root /\ T[u] \in Row
          BY <1>2, <1>3, <2>1, <2>3, <3>1, <4>1 DEF Of, Board
        <5>2. task'[u].step = Root
          BY <5>1, RowReads
        <5> QED BY <2>1, <5>2 DEF Counts
      <4> QED BY <4>1
    <3>3. task'[u] = T[u]
      BY <1>2, <2>1, <2>3, <3>2
    <3>4. u \in Owed(r, T)
      BY <2>1, <3>3 DEF Owed, Tasks
    <3> QED BY <1>5, <2>3, <3>4 DEF OwedAfter
  <2>4. CASE u \notin born + 1 .. last /\ u = e.task
    <3>1. T[u] # None /\ T[u] \in Row
      <4>1. e.on # "RootStarted"
        BY <2>1, <2>4, ProgramsValid DEF Occurs
      <4> QED BY <2>4, <4>1 DEF Occurs, Board
    <3>2. task'[u] = Marked(r, T, e, T[u])
      BY <1>2, <2>1, <2>4
    <3>3. /\ task'[u].column = T[u].column /\ task'[u].back = T[u].back
          /\ task'[u].step = T[u].step
      BY <3>1, <3>2, MarkedType
    <3>4. task'[u].skipped = T[u].skipped
      BY <3>1, <3>2 DEF Marked, Row
    <3>5. Counts(r, T[u]) /\ ~ T[u].skipped /\ u \in Tasks(T)
      BY <2>1, <3>1, <3>3, <3>4 DEF Counts, Tasks
    <3>6. CASE Asks(r, T, e)
      BY <1>5, <2>1, <2>4, <3>5, <3>6 DEF OwedAfter
    <3>7. CASE ~ Asks(r, T, e) /\ Answered(r, T, e) # None
      <4>1. task'[u].answer = Answered(r, T, e)
        BY <3>1, <3>2, <3>7 DEF Marked, Row
      <4>2. ~ IsDone(task'[u])
        BY <2>1, <3>7, <4>1 DEF PendingAnswer
      <4>3. ~ IsDone(T[u])
        BY <3>3, <4>2 DEF IsDone, IsArchived
      <4>4. u \in Owed(r, T)
        BY <3>5, <4>3 DEF Owed
      <4> QED BY <1>5, <2>4, <4>3, <4>4 DEF OwedAfter
    <3>8. CASE ~ Asks(r, T, e) /\ Answered(r, T, e) = None
      <4>1. task'[u] = T[u]
        BY <3>2, <3>8 DEF Marked
      <4>2. u \in Owed(r, T)
        BY <2>1, <3>5, <4>1 DEF Owed
      <4> QED BY <1>5, <3>8, <4>2 DEF OwedAfter
    <3> QED BY <3>6, <3>7, <3>8
  <2> QED BY <2>2, <2>3, <2>4
<1> QED BY <1>4, <1>5, <1>7

\* What NotBefore says of one step.
NothingLeft == run'.started /\ Owed(run', task') = {}

(* The root that finishes by itself is not the task of the request.        *)
LEMMA RootByItself ==
  ASSUME Inv, NEW w \in Worker, Replied(w), FinishedItself
  PROVE  /\ run \in Run /\ ~ run.finished /\ run'.finished /\ run' # None
         /\ held[w].task # 1 \/ run'.started # run.started
<1>1. run \in Run /\ ~ run.finished /\ run' # None /\ run'.finished
  BY DEF FinishedItself, IsActive, Inv, TypeOK
<1>2. PICK t \in Of(task, Root), v \in Worker :
        held'[v] # held[v] /\ (held[v].task # t \/ run'.started # run.started)
  BY DEF FinishedItself
<1>3. v = w
  BY <1>2 DEF Replied, Inv, TypeOK
<1>4. t = 1
  BY <1>1, ProgramsValid DEF Of, Tasks, Inv, Linked, Known
<1> QED BY <1>1, <1>2, <1>3, <1>4

LEMMA MoveLeaves ==
  ASSUME Inv, NEW w \in Worker, MoveTask(w), FinishedItself
  PROVE  NothingLeft
<1> DEFINE t == held[w].task
<1>0. held[w] # None /\ held[w].op = "MoveTask" /\ task[t] # None /\ Replied(w)
  BY DEF MoveTask, Holds
<1>1. t \in Task /\ task[t] \in Row
  BY <1>0, HeldTypes DEF Inv, TypeOK
<1>2. PICK to \in ColumnsOf(task[t]) :
        LET T == [task EXCEPT ![t].column = to]
            reacts == IsActive(run) /\ to # held[w].column
            starts == reacts /\ to = "started" /\ T[t].step = Root /\ ~ run.started
        IN \/ starts /\ Apply(T, [run EXCEPT !.started = TRUE], Event("RootStarted", None, None))
           \/ /\ reacts /\ to = "finished"
              /\ \E answer \in Answer \cup {None} : Apply(T, run, Event("Finished", t, answer))
           \/ /\ ~ starts /\ ~ (reacts /\ to = "finished")
              /\ task' = T
              /\ UNCHANGED <<born, run>>
  BY DEF MoveTask
<1> DEFINE row == [task[t] EXCEPT !.column = to]
           T == [task EXCEPT ![t] = row]
<1>3. row \in Row /\ row.step = task[t].step
  BY <1>1, ColumnsTyped, RowFields, RowReads
<1>4. /\ run \in Run /\ born \in 1 .. MaxTask /\ T \in Board /\ Known(T, run)
      /\ T[t] = row /\ row # None
  BY <1>0, <1>1, <1>3, Written
<1>5. ~ run.finished /\ run'.finished /\ (t # 1 \/ run'.started # run.started)
  BY <1>0, RootByItself
<1>6. CASE Apply(T, [run EXCEPT !.started = TRUE], Event("RootStarted", None, None))
  <2>1. /\ [run EXCEPT !.started = TRUE] \in Run
        /\ [run EXCEPT !.started = TRUE].steps = run.steps
        /\ ~ [run EXCEPT !.started = TRUE].finished
    BY <1>4, <1>5, RunFields
  <2>2. Known(T, [run EXCEPT !.started = TRUE])
    BY <1>4, <2>1 DEF Known
  <2>3. Occurs(T, [run EXCEPT !.started = TRUE], Event("RootStarted", None, None))
    BY DEF Occurs, Event
  <2>4. ~ EndsRun(T, Event("RootStarted", None, None))
    BY DEF EndsRun, Event
  <2> QED BY <1>4, <1>5, <1>6, <2>1, <2>2, <2>3, <2>4, NothingOwed DEF NothingLeft
<1>7. CASE \E answer \in Answer \cup {None} : Apply(T, run, Event("Finished", t, answer))
  <2>1. PICK answer \in Answer \cup {None} : Apply(T, run, Event("Finished", t, answer))
    BY <1>7
  <2>2. Occurs(T, run, Event("Finished", t, answer))
    BY <1>1, <1>4 DEF Occurs, Event
  <2>3. run'.started = run.started
    BY <1>4, <2>1, AppliedRun
  <2>4. T[t].step # Root
    BY <1>1, <1>4, <1>5, <2>3 DEF Known
  <2>5. ~ EndsRun(T, Event("Finished", t, answer))
    BY <2>4 DEF EndsRun, Event
  <2> QED BY <1>4, <1>5, <2>1, <2>2, <2>5, NothingOwed DEF NothingLeft
<1>8. CASE UNCHANGED run
  BY <1>5, <1>8
<1> QED BY <1>2, <1>6, <1>7, <1>8

LEMMA AnswerLeaves ==
  ASSUME Inv, NEW w \in Worker, AnswerQuestion(w), FinishedItself
  PROVE  NothingLeft
<1> DEFINE t == held[w].task
<1>0. /\ held[w] # None /\ held[w].op = "AnswerQuestion" /\ task[t] # None
      /\ IsActive(run) /\ Replied(w)
  BY DEF AnswerQuestion, Holds
<1>1. t \in Task /\ t # 1 /\ task \in Board
  BY <1>0, HeldTypes DEF Inv, Named, TypeOK, Board
<1>2. run \in Run /\ Known(task, run) /\ born \in 1 .. MaxTask
  BY <1>0 DEF Inv, TypeOK, Linked, IsActive
<1>3. PICK answer \in run.steps[task[t].step].answers :
        Apply(task, run, Event("Answered", t, answer))
  BY DEF AnswerQuestion
<1>4. Occurs(task, run, Event("Answered", t, answer))
  BY <1>0, <1>1, <1>2, <1>3 DEF Occurs, Event, Known
<1>5. ~ EndsRun(task, Event("Answered", t, answer))
  BY DEF EndsRun, Event
<1>6. ~ run.finished /\ run'.finished
  BY <1>0, RootByItself
<1> QED BY <1>1, <1>2, <1>3, <1>4, <1>5, <1>6, NothingOwed DEF NothingLeft

LEMMA DeleteLeaves ==
  ASSUME Inv, NEW w \in Worker, DeleteTask(w), FinishedItself
  PROVE  NothingLeft
<1> DEFINE t == held[w].task
           row == [task[t] EXCEPT !.back = task[t].column]
           T == [task EXCEPT ![t] = [row EXCEPT !.skipped = TRUE]]
<1>0. held[w] # None /\ held[w].op = "DeleteTask" /\ task[t] # None /\ Replied(w)
  BY DEF DeleteTask, Holds
<1>1. t \in Task /\ task[t] \in Row
  BY <1>0, HeldTypes DEF Inv, TypeOK
<1>2. row \in Row /\ row.step = task[t].step
  BY <1>1, RowFields, RowReads
<1>3. /\ [row EXCEPT !.skipped = TRUE] \in Row
      /\ [row EXCEPT !.skipped = TRUE].step = task[t].step
  BY <1>2, RowFields, RowReads
<1>4. ~ run.finished /\ run'.finished /\ (t # 1 \/ run'.started # run.started)
  BY <1>0, RootByItself
<1>5. Apply([[task EXCEPT ![t] = row] EXCEPT ![t].skipped = TRUE], run, Event("Deleted", t, None))
  BY <1>4 DEF DeleteTask
<1>6. [[task EXCEPT ![t] = row] EXCEPT ![t].skipped = TRUE] = T
  BY <1>1, SkippedToo DEF Inv, TypeOK, Board
<1>7. /\ run \in Run /\ born \in 1 .. MaxTask /\ T \in Board /\ Known(T, run)
      /\ T[t] = [row EXCEPT !.skipped = TRUE] /\ [row EXCEPT !.skipped = TRUE] # None
  BY <1>0, <1>1, <1>3, Written, ZenonT(40)
<1>8. Occurs(T, run, Event("Deleted", t, None))
  BY <1>1, <1>7 DEF Occurs, Event
<1>9. run'.started = run.started
  BY <1>5, <1>7, AppliedRun
<1>10. T[t].step # Root
  BY <1>1, <1>4, <1>7, <1>9 DEF Known
<1>11. ~ EndsRun(T, Event("Deleted", t, None))
  BY <1>10 DEF EndsRun, Event
<1> QED BY <1>4, <1>5, <1>6, <1>7, <1>8, <1>11, NothingOwed DEF NothingLeft

LEMMA FinishedLeaves == Inv /\ [Next]_vars /\ FinishedItself => NothingLeft
<1> SUFFICES ASSUME Inv, [Next]_vars, FinishedItself PROVE NothingLeft
  OBVIOUS
<1>1. ~ run.finished /\ run # None /\ run' # None /\ run'.finished
  BY DEF FinishedItself, IsActive
<1>2. CASE UNCHANGED vars \/ StartProgram
  BY <1>1, <1>2 DEF vars, StartProgram
<1>3. ASSUME NEW w \in Worker, CancelRun(w) PROVE FALSE
  <2>1. run \in Run /\ run' = [run EXCEPT !.cancelled = TRUE]
    BY <1>1, <1>3 DEF CancelRun, Inv, TypeOK
  <2> QED BY <1>1, <2>1 DEF Run
<1>4. ASSUME NEW w \in Worker,
             Load(w) \/ RestoreTask(w) \/ PurgeTask(w) \/ Archive(w) \/ Refused(w)
      PROVE  FALSE
  BY <1>1, <1>4 DEF Load, RestoreTask, PurgeTask, Archive, Refused
<1> QED BY <1>2, <1>3, <1>4, MoveLeaves, AnswerLeaves, DeleteLeaves DEF Next, Handler

(* "The root finishes itself once it has started and nothing that counts   *)
(* is still open": not before, for every program, whatever is finished,    *)
(* deleted, answered, restored or made at the same time.                   *)
THEOREM NotBeforeCorrect == Spec => NotBefore
<1>1. Inv /\ [Next]_vars => [FinishedItself => NothingLeft]_vars
  BY FinishedLeaves
<1> QED BY InvInit, InvNext, <1>1, PTL DEF Spec, NotBefore, NothingLeft

-----------------------------------------------------------------------------
(* And not never.                                                          *)

(* When the engine does not finish the root of a run that has started,     *)
(* something that counts is owed afterwards: a task as before, the         *)
(* question that is asked, or a task that is made.  Unless the task has    *)
(* been answered before it is finished once more: then it looks asked.     *)
LEMMA SomethingOwed ==
  ASSUME NEW T \in Board, NEW r \in Run, NEW e, born \in 1 .. MaxTask,
         Known(T, r), Occurs(T, r, e), Apply(T, r, e), ~ EndsRun(T, e), ~ run'.finished,
         r.started, r.column # "finished", ~ RootDone(T),
         e.on = "Finished" => T[e.task].answer = None
  PROVE  Owed(run', task') # {}
<1> DEFINE going == Going(r, T, e)
           ends == FinishesRoot(r, T, e)
<1>1. PICK last \in born .. Most[r.steps], go \in [going -> Go] :
        \E made \in [born + 1 .. last -> going] :
          /\ \A s \in going : NextGo(T, s, go[s]) /\ Made(made, s) = r.steps[s].entries
          /\ task' = [t \in Task |->
               IF t \in DOMAIN made THEN NewTask(r, made[t], go[made[t]])
               ELSE IF t = e.task THEN Marked(r, T, e, T[t])
               ELSE IF ends /\ t \in Of(T, Root) THEN [T[t] EXCEPT !.column = "finished"]
               ELSE T[t]]
          /\ run' = [r EXCEPT !.finished = @ \/ ends]
  BY DEF Apply
<1>2. PICK made \in [born + 1 .. last -> going] :
        /\ \A s \in going : NextGo(T, s, go[s]) /\ Made(made, s) = r.steps[s].entries
        /\ task' = [t \in Task |->
             IF t \in DOMAIN made THEN NewTask(r, made[t], go[made[t]])
             ELSE IF t = e.task THEN Marked(r, T, e, T[t])
             ELSE IF ends /\ t \in Of(T, Root) THEN [T[t] EXCEPT !.column = "finished"]
             ELSE T[t]]
        /\ run' = [r EXCEPT !.finished = @ \/ ends]
  BY <1>1
<1>3. ~ ends
  BY <1>2 DEF Run
<1>4. run'.steps = r.steps
  BY AppliedRun
<1>5. (\E u \in Task : u \in OwedAfter(r, T, e)) \/ \E s \in going : r.steps[s].counts
  BY <1>3 DEF FinishesRoot, OwedAfter, Owed, Tasks
<1>6. ASSUME NEW u \in Task, T[u] # None, task'[u] # None, task'[u].step = T[u].step, Counts(r, T[u]),
             ~ task'[u].skipped, ~ IsDone(task'[u]) \/ PendingAnswer(task'[u])
      PROVE  u \in Owed(run', task')
  BY <1>4, <1>6 DEF Owed, Tasks, Counts
<1>7. ASSUME NEW u \in Task, T[u] # None
      PROVE  task'[u] = IF u = e.task THEN Marked(r, T, e, T[u]) ELSE T[u]
  <2>1. u \notin born + 1 .. last
    BY <1>7, ProgramsValid DEF Known, Task
  <2> QED BY <1>2, <1>3, <2>1
<1>8. ASSUME NEW u \in Task, T[u] # None, u = e.task
      PROVE  /\ task'[u] \in Row /\ task'[u] # None /\ task'[u].step = T[u].step
             /\ task'[u].skipped = T[u].skipped /\ (IsDone(task'[u]) <=> IsDone(T[u]))
             /\ Asks(r, T, e) => PendingAnswer(task'[u])
             /\ Answered(r, T, e) = None /\ PendingAnswer(T[u]) => PendingAnswer(task'[u])
  <2>1. T[u] \in Row /\ task'[u] = Marked(r, T, e, T[u])
    BY <1>7, <1>8 DEF Board
  <2>2. /\ task'[u] \in Row /\ task'[u].column = T[u].column /\ task'[u].back = T[u].back
        /\ task'[u].step = T[u].step
    BY <2>1, MarkedType
  <2>3. task'[u].skipped = T[u].skipped
    BY <2>1 DEF Marked, Row
  <2>4. ASSUME Asks(r, T, e) PROVE PendingAnswer(task'[u])
    <3>1. T[u].answer = None
      BY <1>8, <2>4 DEF Asks
    <3>2. task'[u] = [T[u] EXCEPT !.asked = TRUE]
      BY <2>1, <2>4 DEF Marked
    <3>3. task'[u].asked = TRUE /\ task'[u].answer = T[u].answer
      BY <2>1, <3>2 DEF Row
    <3> QED BY <3>1, <3>3 DEF PendingAnswer
  <2>5. ASSUME Answered(r, T, e) = None, PendingAnswer(T[u]) PROVE PendingAnswer(task'[u])
    <3>1. CASE Asks(r, T, e)
      BY <2>4, <3>1
    <3>2. CASE ~ Asks(r, T, e)
      BY <2>1, <2>5, <3>2 DEF Marked
    <3> QED BY <3>1, <3>2
  <2>6. IsDone(task'[u]) <=> IsDone(T[u])
    BY <2>2 DEF IsDone, IsArchived
  <2> QED BY <2>2, <2>3, <2>4, <2>5, <2>6, ProgramsValid
<1>9. ASSUME NEW u \in Task, u \in OwedAfter(r, T, e)
      PROVE  u \in Owed(run', task')
  <2>1. CASE u \in Owed(r, T) /\ ~ (u = e.task /\ IsDone(T[u]) /\ Answered(r, T, e) # None)
    <3>1. /\ T[u] # None /\ Counts(r, T[u]) /\ ~ T[u].skipped
          /\ ~ IsDone(T[u]) \/ PendingAnswer(T[u])
      BY <2>1 DEF Owed, Tasks
    <3>2. CASE u = e.task
      BY <1>6, <1>8, <2>1, <3>1, <3>2
    <3>3. CASE u # e.task
      BY <1>6, <1>7, <3>1, <3>3
    <3> QED BY <3>2, <3>3
  <2>2. CASE u = e.task /\ Asks(r, T, e) /\ Counts(r, T[u]) /\ ~ T[u].skipped
    <3>1. T[u] # None
      BY <2>2 DEF Occurs, Asks
    <3> QED BY <1>6, <1>8, <2>2, <3>1
  <2> QED BY <1>9, <2>1, <2>2 DEF OwedAfter
<1>10. ASSUME NEW s \in going, r.steps[s].counts
       PROVE  Owed(run', task') # {}
  <2>1. s \in DOMAIN r.steps /\ s \in Step /\ s # Root
    BY RunFields, StepTypes DEF Going
  <2>2. Made(made, s) \in Nat \ {0}
    BY <1>2, <2>1, RunFields, ProgramsValid DEF StepDef
  <2>3. PICK u \in DOMAIN made : made[u] = s
    BY <2>2, FS_EmptySet DEF Made
  <2>4. u \in Task /\ u \in born + 1 .. last
    BY <1>1, <2>3, RunFields, ProgramsValid DEF Task
  <2>5. task'[u] = NewTask(r, s, go[s])
    BY <1>2, <2>3, <2>4
  <2>6. go[s] \in Go
    BY <1>1
  <2>7. /\ task'[u] \in Row /\ task'[u].step = s /\ task'[u].back = None
        /\ task'[u].column # "finished"
    BY <2>1, <2>5, <2>6, NewTaskType
  <2>8. ~ task'[u].skipped
    BY <2>5 DEF NewTask
  <2>9. u \in Owed(run', task')
    BY <1>4, <1>10, <2>1, <2>4, <2>7, <2>8, ProgramsValid DEF Owed, Tasks, Counts, IsDone, IsArchived
  <2> QED BY <2>9
<1> QED BY <1>5, <1>9, <1>10

\* The run keeps the column it was started in; what is archived from a list
\* was in the finished column when it was listed.
Landed == run # None => run.column \in Landing
Listed == \A w \in Worker : held[w] # None /\ held[w].op = "Archive" => held[w].column = "finished"

LEMMA LandedStays == Inv /\ Landed /\ [Next]_vars => Landed'
<1> SUFFICES ASSUME Inv, Landed, [Next]_vars, run' # None PROVE run'.column \in Landing
  BY DEF Landed
<1>1. CASE run' = run
  BY <1>1 DEF Landed
<1>2. CASE StartProgram
  BY <1>2 DEF StartProgram
<1>3. ASSUME NEW w \in Worker, MoveTask(w), run # None PROVE run'.column \in Landing
  BY <1>3, MovedRun DEF Landed
<1>4. ASSUME NEW w \in Worker, AnswerQuestion(w) \/ DeleteTask(w), run' # run PROVE run'.column \in Landing
  <2>1. IsActive(run) /\ \E T, e : Apply(T, run, e)
    BY <1>4 DEF AnswerQuestion, DeleteTask
  <2>2. run \in Run /\ run # None
    BY <2>1 DEF IsActive, Inv, TypeOK
  <2> QED BY <2>1, <2>2, AppliedRun DEF Landed
<1>5. ASSUME NEW w \in Worker, CancelRun(w) PROVE run'.column \in Landing
  <2>1. run \in Run /\ run # None /\ run' = [run EXCEPT !.cancelled = TRUE]
    BY <1>5 DEF CancelRun, Inv, TypeOK
  <2> QED BY <2>1, RunFields DEF Landed
<1>6. ASSUME NEW w \in Worker, Load(w) \/ RestoreTask(w) \/ PurgeTask(w) \/ Archive(w) \/ Refused(w)
      PROVE  run' = run
  BY <1>6 DEF Load, RestoreTask, PurgeTask, Archive, Refused
<1>7. ASSUME NEW w \in Worker, MoveTask(w), run = None PROVE run' = run
  BY <1>7 DEF MoveTask, IsActive
<1> QED BY <1>1, <1>2, <1>3, <1>4, <1>5, <1>6, <1>7 DEF Next, Handler, vars

LEMMA ListedStays == Inv /\ Listed /\ [Next]_vars => Listed'
<1> SUFFICES ASSUME Inv, Listed, [Next]_vars, NEW v \in Worker, held'[v] # None, held'[v].op = "Archive"
             PROVE  held'[v].column = "finished"
  BY DEF Listed
<1>1. CASE held'[v] = held[v]
  BY <1>1 DEF Listed
<1>2. CASE held'[v] # held[v]
  <2>1. PICK w \in Worker : Load(w) \/ Handler(w)
    BY <1>2 DEF Next, vars, StartProgram
  <2>2. CASE Replied(w)
    BY <1>2, <2>2 DEF Replied, Inv, TypeOK
  <2>3. CASE Load(w)
    <3>1. PICK op \in Requests, t \in Tasks(task) :
            /\ Accepts(op, task[t])
            /\ held' = [held EXCEPT ![w] = [op |-> op, task |-> t, column |-> Shown(task[t])]]
      BY <1>2, <2>3 DEF Load, Inv, TypeOK
    <3>2. v = w /\ op = "Archive" /\ held'[v].column = Shown(task[t])
      BY <1>2, <3>1 DEF Inv, TypeOK
    <3> QED BY <3>1, <3>2 DEF Accepts, Shown
  <2> QED BY <2>1, <2>2, <2>3, HandlerReplies
<1> QED BY <1>1, <1>2

\* What NotNever says of one step.
Excused ==
  \E w \in Worker :
    \/ Commits(w, "PurgeTask")
    \/ Commits(w, "MoveTask") /\ task[held[w].task].answer # None
    \/ \E op \in Requests : Commits(w, op) /\ Stale(w)

\* A request of a handler that forgets, without an excuse.
Forgetting(w) == RootInv /\ Landed /\ Listed /\ "finished" \notin Landing /\ Forgets /\ Replied(w)

LEMMA ForgettingFacts ==
  ASSUME NEW w \in Worker, Forgetting(w)
  PROVE  /\ Inv /\ run \in Run /\ run # None /\ run.started /\ run.column # "finished"
         /\ RootOpen(task) /\ born \in 1 .. MaxTask /\ Known(task, run) /\ task \in Board
         /\ Owed(run', task') = {} /\ run' # None /\ ~ run'.finished /\ ~ run'.cancelled
         /\ \E u \in Task : u \in Owed(run, task)
         /\ \A op \in Requests : Holds(w, op) => Commits(w, op)
<1>1. /\ IsActive(run) /\ run.started /\ IsActive(run') /\ Owed(run, task) # {} /\ Owed(run', task') = {}
      /\ Inv /\ Landed
  BY DEF Forgetting, Forgets, RootInv
<1>2. run # None /\ run \in Run /\ run.column # "finished"
  BY <1>1 DEF IsActive, Forgetting, Landed, Inv, TypeOK
<1>3. RootOpen(task)
  BY <1>1, <1>2 DEF Forgetting, RootInv, Over
<1>4. held'[w] = None
  BY <1>1 DEF Forgetting, Replied, Inv, TypeOK
<1>5. born \in 1 .. MaxTask /\ Known(task, run) /\ task \in Board
  BY <1>1, <1>2 DEF Inv, Linked, TypeOK, Board
<1> QED BY <1>1, <1>2, <1>3, <1>4, <1>5 DEF IsActive, Owed, Tasks, Commits

\* The root is not done while the request's task is another one.
LEMMA RootNotDone ==
  ASSUME NEW T \in Board, NEW r, Known(T, r), RootOpen(T)
  PROVE  ~ RootDone(T)
BY DEF RootDone, Of, Tasks, Known, RootOpen, IsDone, IsArchived

\* What is owed stays owed if it is neither skipped nor settled.
LEMMA StaysOwed ==
  ASSUME Inv, run' = run, NEW u \in Task, u \in Owed(run, task), task'[u] # None,
         task'[u].step = task[u].step, ~ task'[u].skipped, ~ IsDone(task'[u]) \/ PendingAnswer(task'[u])
  PROVE  Owed(run', task') # {}
<1>1. u \in Owed(run', task')
  BY DEF Owed, Tasks, Counts
<1> QED BY <1>1

LEMMA MoveForgets ==
  ASSUME NEW w \in Worker, Forgetting(w), MoveTask(w), ~ Excused
  PROVE  FALSE
<1> DEFINE t == held[w].task
<1>0. Holds(w, "MoveTask") /\ held[w] # None /\ held[w].op = "MoveTask" /\ task[t] # None /\ Replied(w)
  BY DEF MoveTask, Holds
<1>1. /\ Inv /\ run \in Run /\ run # None /\ run.started /\ run.column # "finished" /\ RootOpen(task)
      /\ Owed(run', task') = {} /\ ~ run'.finished /\ Commits(w, "MoveTask")
  BY <1>0, ForgettingFacts DEF Requests
<1>2. t \in Task /\ task[t] \in Row /\ task[t].answer = None /\ ~ Stale(w)
  BY <1>0, <1>1, HeldTypes DEF Inv, TypeOK, Excused, Requests
<1>3. task[t].back = None /\ held[w].column = task[t].column
  BY <1>0, <1>2 DEF Stale, IsArchived, Shown
<1>4. PICK to \in ColumnsOf(task[t]) :
        LET T == [task EXCEPT ![t].column = to]
            reacts == IsActive(run) /\ to # held[w].column
            starts == reacts /\ to = "started" /\ T[t].step = Root /\ ~ run.started
        IN \/ starts /\ Apply(T, [run EXCEPT !.started = TRUE], Event("RootStarted", None, None))
           \/ /\ reacts /\ to = "finished"
              /\ \E answer \in Answer \cup {None} : Apply(T, run, Event("Finished", t, answer))
           \/ /\ ~ starts /\ ~ (reacts /\ to = "finished")
              /\ task' = T
              /\ UNCHANGED <<born, run>>
  BY DEF MoveTask
<1> DEFINE row == [task[t] EXCEPT !.column = to]
           T == [task EXCEPT ![t] = row]
<1>5. /\ row \in Row /\ row.step = task[t].step /\ row.column = to /\ row.back = None
      /\ row.answer = None /\ row.asked = task[t].asked /\ row.skipped = task[t].skipped
  <2>1. row.skipped = task[t].skipped
    BY <1>2 DEF Row
  <2> QED BY <1>2, <1>3, <2>1, ColumnsTyped, RowFields, RowReads, QuietWrite
<1>6. /\ born \in 1 .. MaxTask /\ T \in Board /\ Known(T, run) /\ T[t] = row /\ row # None
  BY <1>0, <1>1, <1>2, <1>5, Written
<1>7. CASE \E answer \in Answer \cup {None} : Apply(T, run, Event("Finished", t, answer)) /\ to = "finished"
  <2>1. PICK answer \in Answer \cup {None} : Apply(T, run, Event("Finished", t, answer))
    BY <1>7
  <2> DEFINE e == Event("Finished", t, answer)
  <2>2. Occurs(T, run, e) /\ e.on = "Finished" /\ e.task = t
    BY <1>2, <1>6 DEF Occurs, Event
  <2>3. ~ EndsRun(T, e)
    BY <1>1, <1>6, <2>1, <2>2, Applied
  <2>4. t # 1
    BY <1>2, <1>6, <2>2, <2>3 DEF EndsRun, Known
  <2>5. RootOpen(T)
    BY <1>1, <1>6, <2>4 DEF RootOpen
  <2>6. ~ RootDone(T)
    BY <1>6, <2>5, RootNotDone
  <2>7. T[e.task].answer = None
    BY <1>5, <1>6, <2>2
  <2> HIDE DEF e
  <2> QED BY <1>1, <1>6, <2>1, <2>2, <2>3, <2>6, <2>7, SomethingOwed DEF e
<1>8. CASE task' = T /\ run' = run /\ (to = "finished" => to = held[w].column)
  <2>1. PICK u \in Task : u \in Owed(run, task)
    BY ForgettingFacts
  <2>2. /\ task[u] # None /\ ~ task[u].skipped
        /\ ~ IsDone(task[u]) \/ PendingAnswer(task[u])
    BY <2>1 DEF Owed, Tasks
  <2>3. task'[t] = row /\ (u # t => task'[u] = task[u]) /\ run' = run /\ row # None
    BY <1>6, <1>8
  <2>4. ~ IsDone(task[t]) \/ PendingAnswer(task[t]) => ~ IsDone(row) \/ PendingAnswer(row)
    BY <1>3, <1>5, <1>8 DEF IsDone, IsArchived, PendingAnswer
  <2>5. row.step = task[t].step /\ row.skipped = task[t].skipped
    BY <1>5
  <2> HIDE DEF row, T, t
  <2>6. CASE u = t
    <3>1. ~ row.skipped
      BY <2>2, <2>5, <2>6, Zenon
    <3>2. ~ IsDone(task'[u]) \/ PendingAnswer(task'[u])
      BY <2>2, <2>3, <2>4, <2>6, Zenon
    <3>3. task'[u] # None /\ task'[u].step = task[u].step /\ ~ task'[u].skipped
      BY <2>3, <2>5, <2>6, <3>1, Zenon
    <3> QED BY <1>1, <2>1, <2>3, <3>2, <3>3, StaysOwed
  <2>7. CASE u # t
    <3>1. /\ ~ IsDone(task'[u]) \/ PendingAnswer(task'[u])
          /\ task'[u] # None /\ task'[u].step = task[u].step /\ ~ task'[u].skipped
      BY <2>2, <2>3, <2>7, Zenon
    <3> QED BY <1>1, <2>1, <2>3, <3>1, StaysOwed
  <2> QED BY <2>6, <2>7
<1> QED BY <1>1, <1>4, <1>7, <1>8, ForgettingFacts DEF Forgetting, Forgets

LEMMA AnswerForgets ==
  ASSUME NEW w \in Worker, Forgetting(w), AnswerQuestion(w)
  PROVE  FALSE
<1> DEFINE t == held[w].task
<1>0. /\ held[w] # None /\ held[w].op = "AnswerQuestion" /\ task[t] # None
  BY DEF AnswerQuestion, Holds
<1>1. /\ Inv /\ run \in Run /\ run.started /\ run.column # "finished" /\ RootOpen(task)
      /\ born \in 1 .. MaxTask /\ Known(task, run) /\ task \in Board
      /\ Owed(run', task') = {} /\ ~ run'.finished
  BY ForgettingFacts
<1>2. t \in Task /\ t # 1
  BY <1>0, <1>1, HeldTypes DEF Inv, Named
<1>3. PICK answer \in run.steps[task[t].step].answers : Apply(task, run, Event("Answered", t, answer))
  BY DEF AnswerQuestion
<1> DEFINE e == Event("Answered", t, answer)
<1>4. Occurs(task, run, e) /\ ~ EndsRun(task, e) /\ e.on # "Finished"
  BY <1>0, <1>1, <1>2, <1>3 DEF Occurs, Event, Known, EndsRun
<1>5. ~ RootDone(task)
  BY <1>1, RootNotDone
<1> HIDE DEF e
<1> QED BY <1>1, <1>3, <1>4, <1>5, SomethingOwed DEF e

LEMMA DeleteForgets ==
  ASSUME NEW w \in Worker, Forgetting(w), DeleteTask(w)
  PROVE  FALSE
<1> DEFINE t == held[w].task
           row == [task[t] EXCEPT !.back = task[t].column]
           T == [task EXCEPT ![t] = [row EXCEPT !.skipped = TRUE]]
<1>0. held[w] # None /\ held[w].op = "DeleteTask" /\ task[t] # None
  BY DEF DeleteTask, Holds
<1>1. /\ Inv /\ run \in Run /\ run.started /\ run.column # "finished" /\ RootOpen(task)
      /\ Owed(run', task') = {} /\ ~ run'.finished /\ IsActive(run)
  BY ForgettingFacts DEF Forgetting, Forgets
<1>2. t \in Task /\ task[t] \in Row
  BY <1>0, <1>1, HeldTypes DEF Inv, TypeOK
<1>3. row \in Row /\ row.step = task[t].step
  BY <1>2, RowFields, RowReads
<1>4. [row EXCEPT !.skipped = TRUE] \in Row /\ [row EXCEPT !.skipped = TRUE].step = task[t].step
  BY <1>3, RowFields, RowReads
<1>5. /\ born \in 1 .. MaxTask /\ T \in Board /\ Known(T, run)
      /\ T[t] = [row EXCEPT !.skipped = TRUE] /\ T[t] # None
  BY <1>0, <1>1, <1>2, <1>4, Written, ZenonT(40)
<1>6. [[task EXCEPT ![t] = row] EXCEPT ![t].skipped = TRUE] = T
  BY <1>1, <1>2 DEF Inv, TypeOK
<1> DEFINE e == Event("Deleted", t, None)
<1>7. Apply(T, run, e)
  BY <1>1, <1>6 DEF DeleteTask
<1>8. Occurs(T, run, e) /\ e.on = "Deleted" /\ e.task = t
  BY <1>2, <1>5 DEF Occurs, Event
<1>9. ~ EndsRun(T, e)
  BY <1>1, <1>5, <1>7, <1>8, Applied
<1>10. t # 1
  BY <1>2, <1>5, <1>8, <1>9 DEF EndsRun, Known
<1>11. ~ RootDone(T)
  <2>1. RootOpen(T)
    BY <1>1, <1>5, <1>10 DEF RootOpen
  <2> QED BY <1>5, <2>1, RootNotDone
<1> HIDE DEF e
<1> QED BY <1>1, <1>5, <1>7, <1>8, <1>9, <1>11, SomethingOwed

\* Restoring and archiving settle nothing that was shown to the one who asked.
LEMMA WriteForgets ==
  ASSUME NEW w \in Worker, Forgetting(w), RestoreTask(w) \/ Archive(w), ~ Excused
  PROVE  FALSE
<1> DEFINE t == held[w].task
<1>0. /\ Inv /\ run' = run /\ held[w] # None /\ task[t] # None /\ held[w].op \in {"RestoreTask", "Archive"}
      /\ Owed(run', task') = {} /\ Commits(w, held[w].op)
  BY ForgettingFacts DEF RestoreTask, Archive, Holds, Requests
<1>1. t \in Task /\ task[t] \in Row /\ ~ Stale(w)
  BY <1>0, HeldTypes DEF Inv, TypeOK, Excused, Requests
<1>2. PICK u \in Task : u \in Owed(run, task)
  BY ForgettingFacts
<1>3. /\ task[u] # None /\ ~ task[u].skipped
      /\ ~ IsDone(task[u]) \/ PendingAnswer(task[u])
  BY <1>2 DEF Owed, Tasks
<1>4. CASE u # t
  <2>1. task'[u] = task[u]
    BY <1>0, <1>1, <1>4 DEF RestoreTask, Archive, Inv, TypeOK
  <2>2. /\ ~ IsDone(task'[u]) \/ PendingAnswer(task'[u])
        /\ task'[u] # None /\ task'[u].step = task[u].step /\ ~ task'[u].skipped
    BY <1>3, <2>1, Zenon
  <2> QED BY <1>0, <1>2, <2>2, StaysOwed
<1>5. CASE u = t
  <2>1. IsDone(task[t])
    <3>1. CASE RestoreTask(w)
      BY <1>1, <3>1 DEF Stale, RestoreTask, Holds, IsDone
    <3>2. CASE Archive(w)
      <4>1. held[w].column = "finished" /\ held[w].op = "Archive"
        BY <3>2 DEF Archive, Holds, Forgetting, Listed
      <4> QED BY <1>1, <4>1 DEF Stale, IsArchived, Shown, IsDone
    <3> QED BY <3>1, <3>2
  <2>2. PendingAnswer(task[t])
    BY <1>3, <1>5, <2>1
  <2>3. /\ task'[t] \in Row /\ task'[t].asked = task[t].asked /\ task'[t].answer = task[t].answer
        /\ task'[t].step = task[t].step /\ ~ task'[t].skipped
    <3>1. CASE RestoreTask(w)
      <4>1. task'[t] = [task[t] EXCEPT !.column = held[w].column, !.back = None, !.skipped = FALSE]
        BY <1>0, <1>1, <3>1 DEF RestoreTask, Inv, TypeOK
      <4>2. held[w].column \in Column
        BY <1>0, HeldTypes DEF Inv
      <4> DEFINE c == held[w].column
      <4>3. [task[t] EXCEPT !.column = c] \in Row
        BY <1>1, <4>2, RowFields
      <4>4. [[task[t] EXCEPT !.column = c] EXCEPT !.back = None] \in Row
        BY <4>3, RowFields
      <4>5. [[[task[t] EXCEPT !.column = c] EXCEPT !.back = None] EXCEPT !.skipped = FALSE] \in Row
        BY <4>4, RowFields
      <4>6. task'[t] = [[[task[t] EXCEPT !.column = c] EXCEPT !.back = None] EXCEPT !.skipped = FALSE]
        BY <4>1
      <4> QED BY <1>1, <4>1, <4>5, <4>6 DEF Row
    <3>2. CASE Archive(w)
      <4>1. task'[t] = [task[t] EXCEPT !.back = task[t].column]
        BY <1>0, <1>1, <3>2 DEF Archive, Inv, TypeOK
      <4> QED BY <1>1, <1>3, <1>5, <4>1 DEF Row
    <3> QED BY <3>1, <3>2
  <2> QED BY <1>0, <1>2, <1>5, <2>2, <2>3, StaysOwed, ProgramsValid DEF PendingAnswer
<1> QED BY <1>4, <1>5

LEMMA ForgetsExcused == RootInv /\ Landed /\ Listed /\ "finished" \notin Landing /\ [Next]_vars /\ Forgets => Excused
<1> SUFFICES ASSUME RootInv, Landed, Listed, "finished" \notin Landing, [Next]_vars, Forgets, ~ Excused
             PROVE  FALSE
  OBVIOUS
<1>1. \A w \in Worker : Replied(w) => Forgetting(w)
  BY DEF Forgetting
<1>2. IsActive(run) /\ Owed(run, task) # {} /\ IsActive(run') /\ Owed(run', task') = {}
  BY DEF Forgets
<1>3. CASE UNCHANGED vars \/ StartProgram
  BY <1>2, <1>3 DEF vars, StartProgram, IsActive
<1>4. ASSUME NEW w \in Worker, Load(w) \/ Refused(w) PROVE FALSE
  BY <1>2, <1>4 DEF Load, Refused
<1>5. ASSUME NEW w \in Worker, MoveTask(w) PROVE FALSE
  BY <1>1, <1>5, MoveForgets DEF MoveTask
<1>6. ASSUME NEW w \in Worker, AnswerQuestion(w) PROVE FALSE
  BY <1>1, <1>6, AnswerForgets DEF AnswerQuestion
<1>7. ASSUME NEW w \in Worker, DeleteTask(w) PROVE FALSE
  BY <1>1, <1>7, DeleteForgets DEF DeleteTask
<1>8. ASSUME NEW w \in Worker, RestoreTask(w) \/ Archive(w) PROVE FALSE
  BY <1>1, <1>8, WriteForgets DEF RestoreTask, Archive
<1>9. ASSUME NEW w \in Worker, PurgeTask(w) PROVE FALSE
  <2>1. Commits(w, "PurgeTask")
    BY <1>9 DEF PurgeTask, Commits, Replied, RootInv, Inv, TypeOK
  <2> QED BY <2>1 DEF Excused
<1>10. ASSUME NEW w \in Worker, CancelRun(w) PROVE FALSE
  <2>1. run \in Run /\ run' = [run EXCEPT !.cancelled = TRUE]
    BY <1>10 DEF CancelRun, RootInv, Inv, TypeOK
  <2> QED BY <1>2, <2>1, RunFields DEF IsActive
<1> QED BY <1>3, <1>4, <1>5, <1>6, <1>7, <1>8, <1>9, <1>10 DEF Next, Handler

(* "and not never": for every program that is not started in the finished  *)
(* column, the step that settles the last thing that counts finishes the   *)
(* root, but for the purge, the stale copy and the second finish that      *)
(* NotNever names.                                                         *)
THEOREM NotNeverCorrect ==
  ASSUME "finished" \notin Landing
  PROVE  Spec => NotNever
<1>1. Init => RootInv /\ Landed /\ Listed
  <2>1. Init => Over /\ Ended
    BY DEF Init, Over, IsActive, Ended
  <2>2. Init => Landed /\ Listed
    BY DEF Init, Landed, Listed
  <2> QED BY <2>1, <2>2, InvInit DEF RootInv
<1>2. (RootInv /\ Landed /\ Listed) /\ [Next]_vars => (RootInv /\ Landed /\ Listed)'
  BY InvNext, RootStays, EndedStays, LandedStays, ListedStays DEF RootInv
<1>3. (RootInv /\ Landed /\ Listed) /\ [Next]_vars => [Forgets => Excused]_vars
  BY ForgetsExcused
<1> QED BY <1>1, <1>2, <1>3, PTL DEF Spec, NotNever, Excused
=============================================================================
