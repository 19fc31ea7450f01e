-------------------------- MODULE TaskStore_proofs --------------------------
(***************************************************************************)
(* TaskStore's invariants, for every number of tasks, workers and columns. *)
(***************************************************************************)
EXTENDS TaskStore, DepsTheorems

Ages(limit) == (0..limit) \cup {None}

(* Writing one field of a row, or reading one.                             *)
LEMMA RowFields ==
  ASSUME NEW r \in Row
  PROVE  /\ \A v \in Column : [r EXCEPT !.column = v] \in Row
         /\ \A v \in Ages(ArchiveAfter) : [r EXCEPT !.finished = v] \in Row
         /\ \A v \in BOOLEAN : [r EXCEPT !.archived = v] \in Row
         /\ \A v \in Ages(PurgeAfter) : [r EXCEPT !.deleted = v] \in Row
         /\ \A v \in Column \cup {None} : [r EXCEPT !.from = v] \in Row
         /\ \A v \in Nat : [r EXCEPT !.version = v] \in Row
         /\ \A v \in Text : [r EXCEPT !.text = v] \in Row
         /\ \A v \in SUBSET Item : [r EXCEPT !.ticks = v] \in Row
         /\ \A v \in BOOLEAN : [r EXCEPT !.auto = v] \in Row
         /\ \A v \in BOOLEAN : [r EXCEPT !.started = v] \in Row
BY DEF Row, Ages

LEMMA RowReads ==
  ASSUME NEW r \in Row
  PROVE  /\ r.column \in Column
         /\ r.finished \in Ages(ArchiveAfter)
         /\ r.deleted \in Ages(PurgeAfter)
         /\ r.from \in Column \cup {None}
         /\ r.version + 1 \in Nat
         /\ r.ticks \in SUBSET Item
         /\ Older(r.finished, ArchiveAfter) \in Ages(ArchiveAfter)
         /\ Older(r.deleted, PurgeAfter) \in Ages(PurgeAfter)
BY DelaysAreTicks DEF Row, Ages, Older

(* The writes of db/repo.rs take rows to rows.                             *)
LEMMA RowTypes ==
  ASSUME NEW r \in Row, NEW copy \in Row, NEW to \in Column
  PROVE  /\ ApplyMove(r, copy, to) \in Row
         /\ ArchiveTask(r) \in Row
         /\ SoftDeleteTask(r) \in Row
         /\ RestoreTask(r, to) \in Row
         /\ RestoreColumn(copy) \in Column
         /\ Aged(r) \in Row
         /\ \A i \in Item, done \in BOOLEAN : SetChecklistItem(r, copy, i, done) \in Row
         /\ \A x \in Text, ticks \in SUBSET Item, auto \in BOOLEAN :
              UpdateTask(r, x, ticks, auto) \in Row
<1>0. None \in Ages(ArchiveAfter) /\ None \in Ages(PurgeAfter) /\ 0 \in Ages(ArchiveAfter)
        /\ 0 \in Ages(PurgeAfter) /\ None \in Column \cup {None}
  BY DelaysAreTicks DEF Ages
<1>1. ApplyMove(r, copy, to) \in Row
  <2>1. PlanFinished(copy, to) \in Ages(ArchiveAfter)
    BY <1>0, RowReads DEF PlanFinished
  <2>2. (r.started \/ (to = StartedCol /\ copy.column # to)) \in BOOLEAN
    OBVIOUS
  <2> QED
    BY <2>1, <2>2, RowReads, RowFields DEF ApplyMove
<1>2. ArchiveTask(r) \in Row
  <2>1. r.column \in Column \cup {None}
    BY RowReads
  <2> QED
    BY <2>1, RowReads, RowFields DEF ArchiveTask
<1>3. SoftDeleteTask(r) \in Row
  BY <1>0, <1>2, RowFields DEF SoftDeleteTask
<1>4. RestoreTask(r, to) \in Row
  <2>1. (r.started \/ to = StartedCol) \in BOOLEAN
    OBVIOUS
  <2> QED
    BY <1>0, <2>1, RowReads, RowFields DEF RestoreTask
<1>5. RestoreColumn(copy) \in Column
  BY RolesOnBoard DEF RestoreColumn
<1>6. Aged(r) \in Row
  BY RowReads, RowFields DEF Aged
<1>7. ASSUME NEW i \in Item, NEW done \in BOOLEAN
      PROVE  SetChecklistItem(r, copy, i, done) \in Row
  <2>1. (IF done THEN copy.ticks \cup {i} ELSE copy.ticks \ {i}) \in SUBSET Item
    BY RowReads
  <2> QED
    BY <2>1, RowReads, RowFields DEF SetChecklistItem
<1>8. ASSUME NEW x \in Text, NEW ticks \in SUBSET Item, NEW auto \in BOOLEAN
      PROVE  UpdateTask(r, x, ticks, auto) \in Row
  BY RowReads, RowFields DEF UpdateTask
<1> QED
  BY <1>1, <1>2, <1>3, <1>4, <1>5, <1>6, <1>7, <1>8

LEMMA NewRowType ==
  ASSUME NEW col \in Column, NEW x \in Text, NEW ticks \in SUBSET Item, NEW auto \in BOOLEAN
  PROVE  NewRow(col, x, ticks, auto) \in Row
<1>1. (col = StartedCol) \in BOOLEAN
  OBVIOUS
<1>2. (IF col = FinishedCol THEN 0 ELSE None) \in (0..ArchiveAfter) \cup {None}
  BY DelaysAreTicks
<1> QED
  BY <1>1, <1>2 DEF NewRow, Row

-----------------------------------------------------------------------------
(* A request that is held names a task and carries a row.                  *)
LEMMA HeldTypes ==
  ASSUME TypeOK, NEW w \in Worker, held[w] # None
  PROVE  /\ held[w] \in Request
         /\ held[w].task \in Task
         /\ held[w].copy \in Row
         /\ held[w].op \in Requests
BY DEF TypeOK, Request

LEMMA DueTypes ==
  ASSUME TypeOK
  PROVE  /\ DOMAIN due \in SUBSET Task
         /\ due = [t \in DOMAIN due |-> due[t]]
         /\ \A t \in DOMAIN due : due[t] \in Row
BY DEF TypeOK

(* A transaction that writes a row keeps the types.                        *)
LEMMA CommitTypes ==
  ASSUME TypeOK, NEW w \in Worker, held[w] # None, NEW r \in Row,
         Commit(w, r), deps' \in [Task -> SUBSET Task]
  PROVE  TypeOK'
<1>1. held[w].task \in Task
  BY HeldTypes
<1>2. store' \in [Task -> Row \cup {None}] /\ held' \in [Worker -> Request \cup {None}]
  BY <1>1 DEF TypeOK, Commit
<1> QED
  BY <1>2 DEF TypeOK, Commit

(* Type correctness: every action of every handler and scheduler pass      *)
(* leaves well-typed rows, copies and lists.                               *)
THEOREM TypeCorrect == Spec => []TypeOK
<1>1. Init => TypeOK
  <2> SUFFICES ASSUME Init PROVE TypeOK
    OBVIOUS
  <2>1. due \in [{} -> Row]
    BY DEF Init
  <2> QED
    BY <2>1 DEF Init, TypeOK, Phases
<1>2. TypeOK /\ [Next]_vars => TypeOK'
  <2> SUFFICES ASSUME TypeOK, [Next]_vars PROVE TypeOK'
    OBVIOUS
  <2> USE RolesOnBoard, InputsTyped, NoneIsNoRow
  <2>1. ASSUME NEW w \in Worker, Load(w) PROVE TypeOK'
    <3>1. PICK t \in Task, op \in Requests \ {"CreateTask"} :
            /\ store[t] # None
            /\ held' = [held EXCEPT ![w] = [op |-> op, task |-> t, copy |-> store[t]]]
      BY <2>1 DEF Load, Exists
    <3>2. [op |-> op, task |-> t, copy |-> store[t]] \in Request
      BY <3>1 DEF TypeOK, Request
    <3>3. held' \in [Worker -> Request \cup {None}]
      BY <3>1, <3>2 DEF TypeOK
    <3> QED
      BY <2>1, <3>3 DEF TypeOK, Load
  <2>2. ASSUME NEW w \in Worker, CreateTask(w) PROVE TypeOK'
    <3>1. PICK t \in Task \ born, col \in Column, x \in Text, ticks \in SUBSET Item,
               auto \in AutoChoice, ds \in DepChoice :
            /\ store' = [store EXCEPT ![t] = NewRow(col, x, ticks, auto)]
            /\ born' = born \cup {t}
            /\ deps' = Replaced(deps, t, ds)
      BY <2>2 DEF CreateTask
    <3>2. NewRow(col, x, ticks, auto) \in Row
      BY NewRowType
    <3>3. store' \in [Task -> Row \cup {None}]
      BY <3>1, <3>2 DEF TypeOK
    <3>4. deps' \in [Task -> SUBSET Task] /\ born' \subseteq Task
      BY <3>1 DEF TypeOK, Replaced
    <3> QED
      BY <2>2, <3>3, <3>4 DEF TypeOK, CreateTask
  <2>3. ASSUME NEW w \in Worker, Update(w) PROVE TypeOK'
    <3>1. held[w] # None /\ held[w].task \in Task /\ store[held[w].task] \in Row
      BY <2>3, HeldTypes DEF Update, Holds, Exists, TypeOK
    <3>2. PICK x \in Text, ticks \in SUBSET Item, auto \in AutoChoice, ds \in DepChoice :
            /\ Commit(w, UpdateTask(store[held[w].task], x, ticks, auto))
            /\ deps' = Replaced(deps, held[w].task, ds)
      BY <2>3 DEF Update
    <3>3. UpdateTask(store[held[w].task], x, ticks, auto) \in Row
      BY <3>1, RowTypes
    <3>4. deps' \in [Task -> SUBSET Task]
      BY <3>1, <3>2 DEF TypeOK, Replaced
    <3> QED
      BY <3>1, <3>2, <3>3, <3>4, CommitTypes
  <2>4. ASSUME NEW w \in Worker, UpdateRefused(w) \/ MoveRefused(w) \/ CommitLost(w)
        PROVE TypeOK'
    <3>1. held' = [held EXCEPT ![w] = None] /\ UNCHANGED <<store, born, deps, phase, due>>
      BY <2>4 DEF UpdateRefused, MoveRefused, CommitLost
    <3>2. held' \in [Worker -> Request \cup {None}]
      BY <3>1 DEF TypeOK
    <3> QED
      BY <3>1, <3>2 DEF TypeOK
  <2>5. ASSUME NEW w \in Worker, Move(w) PROVE TypeOK'
    <3>1. /\ held[w] # None /\ held[w].task \in Task
          /\ store[held[w].task] \in Row /\ held[w].copy \in Row
      BY <2>5, HeldTypes DEF Move, Exists, TypeOK
    <3>2. PICK to \in Target(held[w].op, held[w].copy) :
            Commit(w, ApplyMove(store[held[w].task], held[w].copy, to))
      BY <2>5 DEF Move
    <3>3. to \in Column
      BY DEF Target
    <3>4. ApplyMove(store[held[w].task], held[w].copy, to) \in Row
      BY <3>1, <3>3, RowTypes
    <3>5. deps' \in [Task -> SUBSET Task]
      BY <2>5 DEF Move, TypeOK
    <3> QED
      BY <3>1, <3>2, <3>4, <3>5, CommitTypes
  <2>6. ASSUME NEW w \in Worker, Tick(w) PROVE TypeOK'
    <3>1. /\ held[w] # None /\ held[w].task \in Task
          /\ store[held[w].task] \in Row /\ held[w].copy \in Row
      BY <2>6, HeldTypes DEF Tick, Holds, Exists, TypeOK
    <3>2. PICK i \in Item, done \in BOOLEAN :
            Commit(w, SetChecklistItem(store[held[w].task], held[w].copy, i, done))
      BY <2>6 DEF Tick
    <3>3. SetChecklistItem(store[held[w].task], held[w].copy, i, done) \in Row
      BY <3>1, RowTypes
    <3>4. deps' \in [Task -> SUBSET Task]
      BY <2>6 DEF Tick, TypeOK
    <3> QED
      BY <3>1, <3>2, <3>3, <3>4, CommitTypes
  <2>7. ASSUME NEW w \in Worker, Delete(w) \/ Restore(w) PROVE TypeOK'
    <3>1. /\ held[w] # None /\ held[w].task \in Task
          /\ store[held[w].task] \in Row /\ held[w].copy \in Row
      BY <2>7, HeldTypes DEF Delete, Restore, Holds, Exists, TypeOK
    <3>2. /\ SoftDeleteTask(store[held[w].task]) \in Row
          /\ RestoreTask(store[held[w].task], RestoreColumn(held[w].copy)) \in Row
      BY <3>1, RowTypes
    <3>3. deps' \in [Task -> SUBSET Task]
      BY <2>7 DEF Delete, Restore, TypeOK
    <3> QED
      BY <2>7, <3>1, <3>2, <3>3, CommitTypes DEF Delete, Restore
  <2>8. ASSUME NEW w \in Worker, Purge(w) PROVE TypeOK'
    <3>1. held[w].task \in Task
      BY <2>8, HeldTypes DEF Purge, Holds
    <3>2. /\ store' \in [Task -> Row \cup {None}] /\ deps' \in [Task -> SUBSET Task]
          /\ held' \in [Worker -> Request \cup {None}]
      BY <2>8, <3>1 DEF Purge, PurgedStore, PurgedDeps, TypeOK
    <3> QED
      BY <2>8, <3>2 DEF Purge, TypeOK
  <2>9. ASSUME ReadDue PROVE TypeOK'
    <3>1. due' \in [{x \in Task : Exists(x) /\ DueIn(phase', store[x])} -> Row]
      BY <2>9 DEF ReadDue, Exists, TypeOK
    <3>2. phase' \in Phases
      BY <2>9 DEF ReadDue, NextPhase, Phases, TypeOK
    <3> QED
      BY <2>9, <3>1, <3>2 DEF ReadDue, TypeOK
  <2>10. ASSUME ArchiveFinished PROVE TypeOK'
    <3>1. PICK t \in DOMAIN due : Exists(t) /\ due' = Without(t)
                                   /\ store' = [store EXCEPT ![t] = ArchiveTask(store[t])]
      BY <2>10 DEF ArchiveFinished
    <3>2. t \in Task /\ ArchiveTask(store[t]) \in Row
      BY <3>1, DueTypes, RowTypes DEF Exists, TypeOK
    <3>3. due' \in [DOMAIN due \ {t} -> Row] /\ DOMAIN due \ {t} \in SUBSET Task
      BY <3>1, DueTypes DEF Without
    <3>4. store' \in [Task -> Row \cup {None}]
      BY <3>1, <3>2 DEF TypeOK
    <3> QED
      BY <2>10, <3>3, <3>4 DEF ArchiveFinished, TypeOK
  <2>11. ASSUME TickAborted PROVE TypeOK'
    <3>1. due' \in [{} -> Row]
      BY <2>11 DEF TickAborted
    <3> QED
      BY <2>11, <3>1 DEF TickAborted, TypeOK, Phases
  <2>12. ASSUME PurgeDeleted PROVE TypeOK'
    <3>1. PICK t \in DOMAIN due : /\ store' = PurgedStore(t) /\ deps' = PurgedDeps(t)
                                  /\ due' = Without(t)
      BY <2>12 DEF PurgeDeleted
    <3>2. due' \in [DOMAIN due \ {t} -> Row] /\ DOMAIN due \ {t} \in SUBSET Task
      BY <3>1, DueTypes DEF Without
    <3>3. store' \in [Task -> Row \cup {None}] /\ deps' \in [Task -> SUBSET Task]
      BY <3>1, DueTypes DEF PurgedStore, PurgedDeps, TypeOK
    <3> QED
      BY <2>12, <3>2, <3>3 DEF PurgeDeleted, TypeOK
  <2>13. ASSUME AutoStart PROVE TypeOK'
    <3>1. PICK t \in DOMAIN due :
            /\ store' = store \/ (Exists(t) /\ store' = [store EXCEPT ![t] =
                                     ApplyMove(store[t], due[t], StartedCol)])
            /\ due' = Without(t)
      BY <2>13 DEF AutoStart
    <3>2. due' \in [DOMAIN due \ {t} -> Row] /\ DOMAIN due \ {t} \in SUBSET Task
      BY <3>1, DueTypes DEF Without
    <3>3. t \in Task /\ due[t] \in Row /\ (Exists(t) => store[t] \in Row)
      BY DueTypes DEF Exists, TypeOK
    <3>4. Exists(t) => ApplyMove(store[t], due[t], StartedCol) \in Row
      BY <3>3, RowTypes
    <3>5. store' \in [Task -> Row \cup {None}]
      BY <3>1, <3>3, <3>4 DEF TypeOK
    <3> QED
      BY <2>13, <3>2, <3>5 DEF AutoStart, TypeOK
  <2>14. ASSUME TimePasses PROVE TypeOK'
    <3>1. \A r \in Row : Aged(r) \in Row
      BY RowTypes
    <3>2. store' \in [Task -> Row \cup {None}]
      BY <2>14, <3>1 DEF TimePasses, Exists, TypeOK
    <3>3. \A q \in Request : [q EXCEPT !.copy = Aged(@)] \in Request
      BY <3>1 DEF Request
    <3>4. held' \in [Worker -> Request \cup {None}]
      BY <2>14, <3>3 DEF TimePasses, TypeOK
    <3>5. due' \in [DOMAIN due -> Row] /\ DOMAIN due \in SUBSET Task
      BY <2>14, <3>1, DueTypes DEF TimePasses
    <3> QED
      BY <2>14, <3>2, <3>4, <3>5 DEF TimePasses, TypeOK
  <2>15. CASE UNCHANGED vars
    BY <2>15 DEF vars, TypeOK
  <2> QED
    BY <2>1, <2>2, <2>3, <2>4, <2>5, <2>6, <2>7, <2>8, <2>9, <2>10, <2>11, <2>12,
       <2>13, <2>14, <2>15 DEF Next, Handler, Scheduler
<1> QED
  BY <1>1, <1>2, PTL DEF Spec

-----------------------------------------------------------------------------
(* Every row or copy there is.                                             *)
Present == Rows \cup Copies

(* What a step may turn rows and copies into: a copy is never written back *)
(* as it is, only through one of the writes of db/repo.rs.                 *)
Derived(q) ==
  \/ \E col \in Column, x \in Text, ticks \in SUBSET Item, auto \in BOOLEAN :
       q = NewRow(col, x, ticks, auto)
  \/ \E r \in Present :
       \/ q = r \/ q = Aged(r) \/ q = ArchiveTask(r) \/ q = SoftDeleteTask(r)
       \/ \E to \in Column : q = RestoreTask(r, to)
       \/ \E x \in Text, ticks \in SUBSET Item, auto \in BOOLEAN : q = UpdateTask(r, x, ticks, auto)
       \/ \E c \in Present, to \in Column : q = ApplyMove(r, c, to)
       \/ \E c \in Present, i \in Item, done \in BOOLEAN : q = SetChecklistItem(r, c, i, done)

LEMMA PresentRows ==
  ASSUME TypeOK
  PROVE  /\ Present \subseteq Row
         /\ \A t \in Task : store[t] # None => store[t] \in Present
         /\ \A w \in Worker : held[w] # None => held[w].copy \in Present
         /\ \A t \in DOMAIN due : due[t] \in Present
BY HeldTypes, DueTypes DEF Present, Rows, Copies, Exists, TypeOK

(* Committing r to a worker's task makes r present and nothing else new.   *)
LEMMA CommitDerived ==
  ASSUME TypeOK, NEW w \in Worker, held[w] # None, NEW r, Commit(w, r), Derived(r)
  PROVE  /\ \A t \in Task : store'[t] # None => Derived(store'[t])
         /\ \A v \in Worker : held'[v] # None => Derived(held'[v].copy)
         /\ \A t \in DOMAIN due' : Derived(due'[t])
<1>1. \A q \in Present : Derived(q)
  BY DEF Derived
<1>2. held[w].task \in Task
  BY HeldTypes
<1>3. ASSUME NEW t \in Task, store'[t] # None PROVE Derived(store'[t])
  BY <1>1, <1>2, <1>3, PresentRows DEF Commit, TypeOK
<1>4. ASSUME NEW v \in Worker, held'[v] # None PROVE Derived(held'[v].copy)
  <2>1. held'[v] = held[v] /\ held[v] # None
    BY <1>4 DEF Commit, TypeOK
  <2> QED
    BY <2>1, <1>1, PresentRows
<1>5. ASSUME NEW t \in DOMAIN due' PROVE Derived(due'[t])
  BY <1>1, PresentRows DEF Commit
<1> QED
  BY <1>3, <1>4, <1>5

LEMMA StepDerived ==
  ASSUME TypeOK, [Next]_vars
  PROVE  /\ \A t \in Task : store'[t] # None => Derived(store'[t])
         /\ \A v \in Worker : held'[v] # None => Derived(held'[v].copy)
         /\ \A t \in DOMAIN due' : Derived(due'[t])
<1> DEFINE Goal == /\ \A t \in Task : store'[t] # None => Derived(store'[t])
                   /\ \A v \in Worker : held'[v] # None => Derived(held'[v].copy)
                   /\ \A t \in DOMAIN due' : Derived(due'[t])
<1>0. \A q \in Present : Derived(q)
  BY DEF Derived
<1>p. /\ \A t \in Task : store[t] # None => Derived(store[t])
      /\ \A w \in Worker : held[w] # None => Derived(held[w].copy)
      /\ \A t \in DOMAIN due : Derived(due[t])
  BY <1>0, PresentRows
<1>w. \A t \in DOMAIN due : \A x \in DOMAIN Without(t) :
        x \in DOMAIN due /\ Without(t)[x] = due[x]
  BY DEF Without
<1> USE RolesOnBoard, InputsTyped
<1>1. ASSUME NEW w \in Worker, Load(w) PROVE Goal
  <2>1. PICK t \in Task, op \in Requests \ {"CreateTask"} :
          /\ store[t] # None
          /\ held' = [held EXCEPT ![w] = [op |-> op, task |-> t, copy |-> store[t]]]
    BY <1>1 DEF Load, Exists
  <2>2. ASSUME NEW v \in Worker, held'[v] # None PROVE Derived(held'[v].copy)
    <3>1. CASE v = w
      <4>1. held'[v].copy = store[t]
        BY <2>1, <3>1 DEF TypeOK
      <4> QED
        BY <4>1, <2>1, <1>p
    <3>2. CASE v # w
      <4>1. held'[v] = held[v]
        BY <2>1, <3>2 DEF TypeOK
      <4> QED
        BY <4>1, <2>2, <1>p
    <3> QED
      BY <3>1, <3>2
  <2> QED
    BY <1>1, <2>2, <1>p DEF Load
<1>2. ASSUME NEW w \in Worker, CreateTask(w) PROVE Goal
  <2>1. PICK t \in Task \ born, col \in Column, x \in Text, ticks \in SUBSET Item,
             auto \in AutoChoice, ds \in DepChoice :
          store' = [store EXCEPT ![t] = NewRow(col, x, ticks, auto)]
    BY <1>2 DEF CreateTask
  <2>2. Derived(NewRow(col, x, ticks, auto))
    <3>1. auto \in BOOLEAN
      OBVIOUS
    <3> QED
      BY <3>1 DEF Derived
  <2>3. \A u \in Task : store'[u] = NewRow(col, x, ticks, auto) \/ store'[u] = store[u]
    BY <2>1 DEF TypeOK
  <2> QED
    BY <1>2, <2>2, <2>3, <1>p DEF CreateTask
<1>3. ASSUME NEW w \in Worker, Update(w) PROVE Goal
  <2>1. held[w] # None /\ held[w].task \in Task /\ store[held[w].task] \in Present
    BY <1>3, HeldTypes, PresentRows DEF Update, Holds, Exists
  <2>2. PICK x \in Text, ticks \in SUBSET Item, auto \in AutoChoice :
          Commit(w, UpdateTask(store[held[w].task], x, ticks, auto))
    BY <1>3 DEF Update
  <2>3. Derived(UpdateTask(store[held[w].task], x, ticks, auto))
    <3>1. auto \in BOOLEAN
      OBVIOUS
    <3> QED
      BY <2>1, <3>1 DEF Derived
  <2> QED
    BY <2>1, <2>2, <2>3, CommitDerived
<1>4. ASSUME NEW w \in Worker, UpdateRefused(w) \/ MoveRefused(w) \/ CommitLost(w)
      PROVE Goal
  <2>1. held' = [held EXCEPT ![w] = None] /\ UNCHANGED <<store, born, deps, phase, due>>
    BY <1>4 DEF UpdateRefused, MoveRefused, CommitLost
  <2>2. \A v \in Worker : held'[v] # None => held'[v] = held[v]
    BY <2>1 DEF TypeOK
  <2> QED
    BY <2>1, <2>2, <1>p
<1>5. ASSUME NEW w \in Worker, Move(w) PROVE Goal
  <2>1. /\ held[w] # None /\ store[held[w].task] \in Present /\ held[w].copy \in Present
    BY <1>5, HeldTypes, PresentRows DEF Move, Exists
  <2>2. PICK to \in Target(held[w].op, held[w].copy) :
          Commit(w, ApplyMove(store[held[w].task], held[w].copy, to))
    BY <1>5 DEF Move
  <2>3. to \in Column
    BY DEF Target
  <2>4. Derived(ApplyMove(store[held[w].task], held[w].copy, to))
    BY <2>1, <2>3 DEF Derived
  <2> QED
    BY <2>1, <2>2, <2>4, CommitDerived
<1>6. ASSUME NEW w \in Worker, Tick(w) PROVE Goal
  <2>1. /\ held[w] # None /\ store[held[w].task] \in Present /\ held[w].copy \in Present
    BY <1>6, HeldTypes, PresentRows DEF Tick, Holds, Exists
  <2>2. PICK i \in Item, done \in BOOLEAN :
          Commit(w, SetChecklistItem(store[held[w].task], held[w].copy, i, done))
    BY <1>6 DEF Tick
  <2>3. Derived(SetChecklistItem(store[held[w].task], held[w].copy, i, done))
    BY <2>1 DEF Derived
  <2> QED
    BY <2>1, <2>2, <2>3, CommitDerived
<1>7. ASSUME NEW w \in Worker, Delete(w) \/ Restore(w) PROVE Goal
  <2>1. /\ held[w] # None /\ store[held[w].task] \in Present
        /\ held[w].copy \in Row
    BY <1>7, HeldTypes, PresentRows DEF Delete, Restore, Holds, Exists
  <2>2. RestoreColumn(held[w].copy) \in Column
    BY <2>1 DEF RestoreColumn
  <2>3. /\ Derived(SoftDeleteTask(store[held[w].task]))
        /\ Derived(RestoreTask(store[held[w].task], RestoreColumn(held[w].copy)))
    BY <2>1, <2>2 DEF Derived
  <2> QED
    BY <1>7, <2>1, <2>3, CommitDerived DEF Delete, Restore
<1>8. ASSUME NEW w \in Worker, Purge(w) PROVE Goal
  <2>1. \A v \in Worker : held'[v] # None => held'[v] = held[v]
    BY <1>8 DEF Purge, TypeOK
  <2>2. \A t \in Task : store'[t] # None => store'[t] = store[t]
    BY <1>8, HeldTypes DEF Purge, Holds, PurgedStore, TypeOK
  <2> QED
    BY <1>8, <2>1, <2>2, <1>p DEF Purge
<1>9. ASSUME ReadDue PROVE Goal
  <2>1. \A t \in DOMAIN due' : t \in Task /\ store[t] # None /\ due'[t] = store[t]
    BY <1>9 DEF ReadDue, Exists
  <2> QED
    BY <1>9, <2>1, <1>p DEF ReadDue
<1>10. ASSUME ArchiveFinished PROVE Goal
  <2>1. PICK t \in DOMAIN due : Exists(t) /\ due' = Without(t)
                                 /\ store' = [store EXCEPT ![t] = ArchiveTask(store[t])]
    BY <1>10 DEF ArchiveFinished
  <2>2. t \in Task /\ store[t] \in Present
    BY <2>1, DueTypes, PresentRows DEF Exists
  <2>3. Derived(ArchiveTask(store[t]))
    BY <2>2 DEF Derived
  <2>4. \A u \in Task : store'[u] = ArchiveTask(store[t]) \/ store'[u] = store[u]
    BY <2>1 DEF TypeOK
  <2>5. \A u \in DOMAIN due' : Derived(due'[u])
    BY <2>1, <1>w, <1>p
  <2> QED
    BY <1>10, <2>3, <2>4, <2>5, <1>p DEF ArchiveFinished
<1>11. ASSUME TickAborted PROVE Goal
  <2>1. \A t \in DOMAIN due' : FALSE
    BY <1>11 DEF TickAborted
  <2> QED
    BY <1>11, <2>1, <1>p DEF TickAborted
<1>12. ASSUME PurgeDeleted PROVE Goal
  <2>1. PICK t \in DOMAIN due : store' = PurgedStore(t) /\ due' = Without(t)
    BY <1>12 DEF PurgeDeleted
  <2>2. \A u \in Task : store'[u] # None => store'[u] = store[u]
    BY <2>1 DEF PurgedStore, TypeOK
  <2>3. \A u \in DOMAIN due' : Derived(due'[u])
    BY <2>1, <1>w, <1>p
  <2> QED
    BY <1>12, <2>2, <2>3, <1>p DEF PurgeDeleted
<1>13. ASSUME AutoStart PROVE Goal
  <2>1. PICK t \in DOMAIN due :
          /\ store' = store \/ (Exists(t) /\ store' = [store EXCEPT ![t] =
                                   ApplyMove(store[t], due[t], StartedCol)])
          /\ due' = Without(t)
    BY <1>13 DEF AutoStart
  <2>2. t \in Task /\ due[t] \in Present /\ (Exists(t) => store[t] \in Present)
    BY DueTypes, PresentRows DEF Exists
  <2>3. Exists(t) => Derived(ApplyMove(store[t], due[t], StartedCol))
    BY <2>2 DEF Derived
  <2>4. \A u \in Task : store'[u] = store[u]
          \/ (Exists(t) /\ store'[u] = ApplyMove(store[t], due[t], StartedCol))
    BY <2>1 DEF TypeOK
  <2>5. \A u \in DOMAIN due' : Derived(due'[u])
    BY <2>1, <1>w, <1>p
  <2> QED
    BY <1>13, <2>3, <2>4, <2>5, <1>p DEF AutoStart
<1>14. ASSUME TimePasses PROVE Goal
  <2>1. \A r \in Present : Derived(Aged(r))
    BY DEF Derived
  <2>2. \A t \in Task : store'[t] # None => store[t] # None /\ store'[t] = Aged(store[t])
    BY <1>14 DEF TimePasses, Exists
  <2>3. ASSUME NEW v \in Worker, held'[v] # None PROVE Derived(held'[v].copy)
    <3>1. held[v] # None /\ held'[v] = [held[v] EXCEPT !.copy = Aged(@)]
      BY <1>14, <2>3 DEF TimePasses
    <3>2. held'[v].copy = Aged(held[v].copy)
      BY <3>1, HeldTypes DEF Request
    <3> QED
      BY <3>1, <3>2, <2>1, PresentRows
  <2>4. \A t \in DOMAIN due' : t \in DOMAIN due /\ due'[t] = Aged(due[t])
    BY <1>14 DEF TimePasses
  <2> QED
    BY <2>1, <2>2, <2>3, <2>4, PresentRows
<1>15. CASE UNCHANGED vars
  BY <1>15, <1>p DEF vars
<1> QED
  BY <1>1, <1>2, <1>3, <1>4, <1>5, <1>6, <1>7, <1>8, <1>9, <1>10, <1>11, <1>12,
     <1>13, <1>14, <1>15 DEF Next, Handler, Scheduler

(* So the rows and copies after a step are derived from those before it.   *)
LEMMA PresentDerived ==
  ASSUME TypeOK, TypeOK', [Next]_vars, NEW q \in Present'
  PROVE  Derived(q)
<1>1. CASE q \in Rows'
  BY <1>1, StepDerived DEF Rows, Exists
<1>2. CASE q \in Copies'
  BY <1>2, StepDerived DEF Copies
<1> QED
  BY <1>1, <1>2 DEF Present

-----------------------------------------------------------------------------
ClockOf(r) == r.finished # None => r.column = FinishedCol

MarksOf(r) == (r.deleted # None => r.archived) /\ (r.archived <=> r.from # None)

(* Each write keeps the clock in the finished column, a move because the   *)
(* copy it was planned from had its own clock there.                       *)
LEMMA DerivedClock ==
  ASSUME TypeOK, \A r \in Present : ClockOf(r), NEW q, Derived(q)
  PROVE  ClockOf(q)
<1> USE DelaysAreTicks, NoneIsNoTime
<1>0. Present \subseteq Row
  BY PresentRows
<1>1. ASSUME NEW col \in Column, NEW x \in Text, NEW ticks \in SUBSET Item, NEW auto \in BOOLEAN,
             q = NewRow(col, x, ticks, auto)
      PROVE  ClockOf(q)
  BY <1>1 DEF NewRow, ClockOf
<1>2. ASSUME NEW r \in Present,
             q = r \/ q = Aged(r) \/ q = ArchiveTask(r) \/ q = SoftDeleteTask(r)
      PROVE  ClockOf(q)
  <2>1. ClockOf(r) /\ r \in Row
    BY <1>0
  <2>2. CASE q = Aged(r)
    BY <2>1, <2>2 DEF ClockOf, Aged, Older, Row
  <2>3. CASE q = ArchiveTask(r)
    BY <2>1, <2>3 DEF ClockOf, ArchiveTask, Row
  <2>4. CASE q = SoftDeleteTask(r)
    <3>1. q.finished = r.finished /\ q.column = r.column
      BY <2>1, <2>4 DEF SoftDeleteTask, ArchiveTask, Row
    <3> QED
      BY <2>1, <3>1 DEF ClockOf
  <2> QED
    BY <1>2, <2>1, <2>2, <2>3, <2>4
<1>3. ASSUME NEW r \in Present, NEW to \in Column, q = RestoreTask(r, to)
      PROVE  ClockOf(q)
  BY <1>0, <1>3 DEF ClockOf, RestoreTask, Row
<1>4. ASSUME NEW r \in Present, NEW x \in Text, NEW ticks \in SUBSET Item, NEW auto \in BOOLEAN,
             q = UpdateTask(r, x, ticks, auto)
      PROVE  ClockOf(q)
  BY <1>0, <1>4 DEF ClockOf, UpdateTask, Row
<1>5. ASSUME NEW r \in Present, NEW c \in Present, NEW to \in Column, q = ApplyMove(r, c, to)
      PROVE  ClockOf(q)
  <2>1. q.finished = PlanFinished(c, to) /\ q.column = to
    BY <1>0, <1>5 DEF ApplyMove, Row
  <2> QED
    BY <2>1 DEF ClockOf, PlanFinished
<1>6. ASSUME NEW r \in Present, NEW c \in Present, NEW i \in Item, NEW done \in BOOLEAN,
             q = SetChecklistItem(r, c, i, done)
      PROVE  ClockOf(q)
  <2>1. q.finished = r.finished /\ q.column = r.column
    BY <1>0, <1>6 DEF SetChecklistItem, Row
  <2> QED
    BY <2>1 DEF ClockOf
<1> QED
  BY <1>1, <1>2, <1>3, <1>4, <1>5, <1>6 DEF Derived

(* The archive clock runs only in the finished column, in the table and in *)
(* every copy a handler or the scheduler holds, whatever interleaves.      *)
THEOREM ClockCorrect == Spec => []ClockOnlyInFinished
<1>1. Init => ClockOnlyInFinished
  BY DEF Init, ClockOnlyInFinished, Rows, Copies, Exists
<1>2. TypeOK /\ TypeOK' /\ ClockOnlyInFinished /\ [Next]_vars => ClockOnlyInFinished'
  <2> SUFFICES ASSUME TypeOK, TypeOK', ClockOnlyInFinished, [Next]_vars, NEW q \in Present'
               PROVE  ClockOf(q)
    BY DEF ClockOnlyInFinished, ClockOf, Present
  <2>1. Derived(q)
    BY PresentDerived
  <2>2. \A r \in Present : ClockOf(r)
    BY DEF ClockOnlyInFinished, ClockOf, Present
  <2> QED
    BY <2>1, <2>2, DerivedClock
<1> QED
  BY <1>1, <1>2, TypeCorrect, PTL DEF Spec

(* Archive, delete and restore each leave the marks of the archive agreeing*)
(* with each other; no other write touches them.                           *)
LEMMA DerivedMarks ==
  ASSUME TypeOK, \A r \in Present : MarksOf(r), NEW q, Derived(q)
  PROVE  MarksOf(q)
<1> USE DelaysAreTicks, NoneIsNoTime
<1>0. Present \subseteq Row
  BY PresentRows
<1>1. ASSUME NEW col \in Column, NEW x \in Text, NEW ticks \in SUBSET Item, NEW auto \in BOOLEAN,
             q = NewRow(col, x, ticks, auto)
      PROVE  MarksOf(q)
  BY <1>1 DEF NewRow, MarksOf
<1>2. ASSUME NEW r \in Present,
             q = r \/ q = Aged(r) \/ q = ArchiveTask(r) \/ q = SoftDeleteTask(r)
      PROVE  MarksOf(q)
  <2>1. MarksOf(r) /\ r \in Row
    BY <1>0
  <2>2. CASE q = Aged(r)
    <3>1. /\ q.archived = r.archived /\ q.from = r.from
          /\ q.deleted = Older(r.deleted, PurgeAfter)
      BY <2>1, <2>2 DEF Aged, Row
    <3> QED
      BY <2>1, <3>1 DEF MarksOf, Older
  <2>3. CASE q = ArchiveTask(r)
    <3>1. q.archived = TRUE /\ q.from = r.column /\ r.column # None
      BY <2>1, <2>3 DEF ArchiveTask, Row
    <3> QED
      BY <3>1 DEF MarksOf
  <2>4. CASE q = SoftDeleteTask(r)
    <3>1. q.archived = TRUE /\ q.from = r.column /\ r.column # None
      BY <2>1, <2>4 DEF SoftDeleteTask, ArchiveTask, Row
    <3> QED
      BY <3>1 DEF MarksOf
  <2> QED
    BY <1>2, <2>1, <2>2, <2>3, <2>4
<1>3. ASSUME NEW r \in Present, NEW to \in Column, q = RestoreTask(r, to)
      PROVE  MarksOf(q)
  <2>1. q.archived = FALSE /\ q.from = None /\ q.deleted = None
    BY <1>0, <1>3 DEF RestoreTask, Row
  <2> QED
    BY <2>1 DEF MarksOf
<1>4. ASSUME NEW r \in Present, q.archived = r.archived, q.from = r.from, q.deleted = r.deleted
      PROVE  MarksOf(q)
  BY <1>4 DEF MarksOf
<1>5. ASSUME NEW r \in Present, NEW x \in Text, NEW ticks \in SUBSET Item, NEW auto \in BOOLEAN,
             q = UpdateTask(r, x, ticks, auto)
      PROVE  MarksOf(q)
  BY <1>0, <1>4, <1>5 DEF UpdateTask, Row
<1>6. ASSUME NEW r \in Present, NEW c \in Present, NEW to \in Column, q = ApplyMove(r, c, to)
      PROVE  MarksOf(q)
  BY <1>0, <1>4, <1>6 DEF ApplyMove, Row
<1>7. ASSUME NEW r \in Present, NEW c \in Present, NEW i \in Item, NEW done \in BOOLEAN,
             q = SetChecklistItem(r, c, i, done)
      PROVE  MarksOf(q)
  BY <1>0, <1>4, <1>7 DEF SetChecklistItem, Row
<1> QED
  BY <1>1, <1>2, <1>3, <1>5, <1>6, <1>7 DEF Derived

(* A task with a purge clock is in the archive and one in the archive      *)
(* remembers its column, whatever order archives, deletes and restores     *)
(* commit in.                                                              *)
THEOREM MarksCorrect == Spec => []ArchiveMarks
<1> DEFINE AllMarks == \A r \in Present : MarksOf(r)
<1>1. Init => AllMarks
  BY DEF Init, Present, Rows, Copies, Exists
<1>2. TypeOK /\ TypeOK' /\ AllMarks /\ [Next]_vars => AllMarks'
  <2> SUFFICES ASSUME TypeOK, TypeOK', AllMarks, [Next]_vars, NEW q \in Present'
               PROVE  MarksOf(q)
    BY DEF MarksOf
  <2> QED
    BY PresentDerived, DerivedMarks
<1>3. AllMarks => ArchiveMarks
  BY DEF ArchiveMarks, MarksOf, Present
<1> QED
  BY <1>1, <1>2, <1>3, TypeCorrect, PTL DEF Spec
-----------------------------------------------------------------------------
(* What a step does to the set of rows there are and to the links.         *)
SameRows == \A t \in Task : Exists(t)' <=> Exists(t)

Edited(t, ds) == /\ CheckDeps(t, ds)
                 /\ deps' = Replaced(deps, t, ds)
                 /\ t \in born => Exists(t)
                 /\ Exists(t)'
                 /\ \A u \in Task : u # t => (Exists(u)' <=> Exists(u))

Purged(t) == store' = PurgedStore(t) /\ deps' = PurgedDeps(t)

LEMMA CommitKeepsRows ==
  ASSUME TypeOK, NEW w \in Worker, held[w] # None, NEW r \in Row,
         Commit(w, r), Exists(held[w].task)
  PROVE  SameRows
BY HeldTypes, NoneIsNoRow DEF Commit, SameRows, Exists, TypeOK

(* A step keeps the rows and the links, edits one task's list through      *)
(* check_deps, or takes one task away with its links.                      *)
LEMMA StepGraph ==
  ASSUME TypeOK, [Next]_vars
  PROVE  \/ SameRows /\ deps' = deps
         \/ \E t \in Task, ds \in SUBSET Task : Edited(t, ds)
         \/ \E t \in Task : Purged(t)
<1> DEFINE Goal == \/ SameRows /\ deps' = deps
                   \/ \E t \in Task, ds \in SUBSET Task : Edited(t, ds)
                   \/ \E t \in Task : Purged(t)
<1> USE InputsTyped, NoneIsNoRow
<1>1. ASSUME NEW w \in Worker, CreateTask(w) PROVE Goal
  <2>1. PICK t \in Task \ born, col \in Column, x \in Text, ticks \in SUBSET Item,
             auto \in AutoChoice, ds \in DepChoice :
          /\ CheckDeps(t, ds)
          /\ store' = [store EXCEPT ![t] = NewRow(col, x, ticks, auto)]
          /\ deps' = Replaced(deps, t, ds)
    BY <1>1 DEF CreateTask
  <2>2. auto \in BOOLEAN
    OBVIOUS
  <2>3. NewRow(col, x, ticks, auto) # None
    BY <2>2, NewRowType
  <2>4. Exists(t)' /\ \A u \in Task : u # t => (Exists(u)' <=> Exists(u))
    BY <2>1, <2>3 DEF Exists, TypeOK
  <2>5. Edited(t, ds)
    BY <2>1, <2>4 DEF Edited
  <2> QED
    BY <2>5
<1>2. ASSUME NEW w \in Worker, Update(w) PROVE Goal
  <2>1. PICK t \in Task : t = held[w].task
    BY <1>2, HeldTypes DEF Update, Holds
  <2>2. held[w] # None /\ Exists(t) /\ store[t] \in Row
    BY <1>2, <2>1, HeldTypes DEF Update, Holds, Exists, TypeOK
  <2>3. PICK x \in Text, ticks \in SUBSET Item, auto \in AutoChoice, ds \in DepChoice :
          /\ CheckDeps(t, ds)
          /\ Commit(w, UpdateTask(store[t], x, ticks, auto))
          /\ deps' = Replaced(deps, t, ds)
    BY <1>2, <2>1 DEF Update
  <2>4. UpdateTask(store[t], x, ticks, auto) \in Row
    <3>1. auto \in BOOLEAN
      OBVIOUS
    <3> QED
      BY <2>2, <3>1, RowTypes, RolesOnBoard
  <2>5. SameRows
    BY <2>1, <2>2, <2>3, <2>4, CommitKeepsRows
  <2>6. Edited(t, ds)
    BY <2>2, <2>3, <2>5 DEF Edited, SameRows
  <2> QED
    BY <2>6
<1>3. ASSUME NEW w \in Worker, Move(w) PROVE Goal
  <2>1. /\ held[w] # None /\ held[w].task \in Task /\ Exists(held[w].task)
        /\ store[held[w].task] \in Row /\ held[w].copy \in Row
    BY <1>3, HeldTypes DEF Move, Exists, TypeOK
  <2>2. PICK to \in Target(held[w].op, held[w].copy) :
          Commit(w, ApplyMove(store[held[w].task], held[w].copy, to))
    BY <1>3 DEF Move
  <2>3. to \in Column
    BY RolesOnBoard DEF Target
  <2>4. ApplyMove(store[held[w].task], held[w].copy, to) \in Row
    BY <2>1, <2>3, RowTypes
  <2> QED
    BY <1>3, <2>1, <2>2, <2>4, CommitKeepsRows DEF Move
<1>4. ASSUME NEW w \in Worker, Tick(w) \/ Delete(w) \/ Restore(w) PROVE Goal
  <2>1. /\ held[w] # None /\ held[w].task \in Task /\ Exists(held[w].task)
        /\ store[held[w].task] \in Row /\ held[w].copy \in Row
    BY <1>4, HeldTypes DEF Tick, Delete, Restore, Holds, Exists, TypeOK
  <2>2. PICK r \in Row : Commit(w, r)
    <3>1. /\ SoftDeleteTask(store[held[w].task]) \in Row
          /\ RestoreTask(store[held[w].task], RestoreColumn(held[w].copy)) \in Row
          /\ \A i \in Item, done \in BOOLEAN :
               SetChecklistItem(store[held[w].task], held[w].copy, i, done) \in Row
      BY <2>1, RowTypes, RolesOnBoard
    <3> QED
      BY <1>4, <3>1 DEF Tick, Delete, Restore
  <2> QED
    BY <1>4, <2>1, <2>2, CommitKeepsRows DEF Tick, Delete, Restore
<1>5. ASSUME NEW w \in Worker, Purge(w) PROVE Goal
  BY <1>5, HeldTypes DEF Purge, Holds, Purged
<1>6. ASSUME NEW w \in Worker, Load(w) \/ UpdateRefused(w) \/ MoveRefused(w) \/ CommitLost(w)
      PROVE Goal
  BY <1>6 DEF Load, UpdateRefused, MoveRefused, CommitLost, SameRows, Exists
<1>7. ASSUME ReadDue \/ TickAborted PROVE Goal
  BY <1>7 DEF ReadDue, TickAborted, SameRows, Exists
<1>8. ASSUME ArchiveFinished PROVE Goal
  <2>1. PICK t \in DOMAIN due : Exists(t) /\ store' = [store EXCEPT ![t] = ArchiveTask(store[t])]
    BY <1>8 DEF ArchiveFinished
  <2>2. t \in Task /\ store[t] \in Row
    BY <2>1, DueTypes DEF Exists, TypeOK
  <2>3. ArchiveTask(store[t]) \in Row
    BY <2>2, RowTypes, RolesOnBoard
  <2> QED
    BY <1>8, <2>1, <2>2, <2>3 DEF ArchiveFinished, SameRows, Exists, TypeOK
<1>9. ASSUME PurgeDeleted PROVE Goal
  BY <1>9, DueTypes DEF PurgeDeleted, Purged
<1>10. ASSUME AutoStart PROVE Goal
  <2>1. PICK t \in DOMAIN due :
          store' = store \/ (Exists(t) /\ store' = [store EXCEPT ![t] =
                                ApplyMove(store[t], due[t], StartedCol)])
    BY <1>10 DEF AutoStart
  <2>2. t \in Task /\ due[t] \in Row /\ (Exists(t) => store[t] \in Row)
    BY DueTypes DEF Exists, TypeOK
  <2>3. Exists(t) => ApplyMove(store[t], due[t], StartedCol) \in Row
    BY <2>2, RowTypes, RolesOnBoard
  <2> QED
    BY <1>10, <2>1, <2>2, <2>3 DEF AutoStart, SameRows, Exists, TypeOK
<1>11. ASSUME TimePasses PROVE Goal
  <2>1. \A t \in Task : Exists(t) => Aged(store[t]) \in Row
    BY RowTypes, RolesOnBoard DEF Exists, TypeOK
  <2> QED
    BY <1>11, <2>1 DEF TimePasses, SameRows, Exists
<1>12. CASE UNCHANGED vars
  BY <1>12 DEF vars, SameRows, Exists
<1> QED
  BY <1>1, <1>2, <1>3, <1>4, <1>5, <1>6, <1>7, <1>8, <1>9, <1>10, <1>11, <1>12
  DEF Next, Handler, Scheduler

(* A purge leaves a graph with fewer edges, none of them at the task.      *)
LEMMA PurgedGraph ==
  ASSUME TypeOK, NEW t \in Task, Purged(t)
  PROVE  /\ deps' \in [Task -> SUBSET Task]
         /\ \A x \in Task : deps'[x] \subseteq deps[x]
         /\ \A x \in Task : t \notin deps'[x]
         /\ deps'[t] = {}
         /\ ~ Exists(t)'
         /\ \A u \in Task : u # t => (Exists(u)' <=> Exists(u))
BY DEF Purged, PurgedStore, PurgedDeps, Exists, TypeOK

(* The dependency graph stays a DAG, whatever creations, edits and purges  *)
(* interleave: check_deps reads the graph in the transaction that writes.  *)
THEOREM AcyclicCorrect == Spec => []DepsAcyclic
<1>1. Init => DepsAcyclic
  BY DEF Init, DepsAcyclic, Acyclic
<1>2. TypeOK /\ DepsAcyclic /\ [Next]_vars => DepsAcyclic'
  <2> SUFFICES ASSUME TypeOK, DepsAcyclic, [Next]_vars PROVE Acyclic(deps')
    BY DEF DepsAcyclic, Acyclic, Reaches, Closed
  <2>1. deps \in [Task -> SUBSET Task] /\ Acyclic(deps)
    BY DEF TypeOK, DepsAcyclic
  <2>2. ASSUME NEW t \in Task, NEW ds \in SUBSET Task, Edited(t, ds)
        PROVE  Acyclic(deps')
    BY <2>1, <2>2, NoFirstCycleAcyclic DEF Edited, CheckDeps
  <2>3. ASSUME NEW t \in Task, Purged(t) PROVE Acyclic(deps')
    BY <2>1, <2>3, PurgedGraph, FewerEdgesAcyclic
  <2> QED
    BY <2>1, <2>2, <2>3, StepGraph
<1> QED
  BY <1>1, <1>2, TypeCorrect, PTL DEF Spec

(* No link names a task that is not there: an edit names existing tasks in *)
(* its own transaction, and a purge takes the links of both sides with it. *)
THEOREM LinksCorrect == Spec => []DepsExist
<1>1. Init => DepsExist
  BY DEF Init, DepsExist
<1>2. TypeOK /\ DepsExist /\ [Next]_vars => DepsExist'
  <2> SUFFICES ASSUME TypeOK, DepsExist, [Next]_vars, NEW t \in Task, NEW d \in deps'[t]
               PROVE  Exists(t)' /\ Exists(d)'
    BY DEF DepsExist
  <2>0. deps \in [Task -> SUBSET Task]
    BY DEF TypeOK
  <2>1. CASE SameRows /\ deps' = deps
    BY <2>0, <2>1 DEF SameRows, DepsExist
  <2>2. ASSUME NEW u \in Task, NEW ds \in SUBSET Task, Edited(u, ds)
        PROVE  Exists(t)' /\ Exists(d)'
    <3>1. t = u => d \in ds
      BY <2>0, <2>2 DEF Edited, Replaced
    <3>2. t # u => d \in deps[t]
      BY <2>0, <2>2 DEF Edited, Replaced
    <3> QED
      BY <2>0, <2>2, <3>1, <3>2 DEF Edited, CheckDeps, DepsExist
  <2>3. ASSUME NEW u \in Task, Purged(u) PROVE Exists(t)' /\ Exists(d)'
    BY <2>0, <2>3, PurgedGraph DEF DepsExist
  <2> QED
    BY <2>1, <2>2, <2>3, StepGraph
<1> QED
  BY <1>1, <1>2, TypeCorrect, PTL DEF Spec

(* No commit brings a purged row back: UPDATE finds no row, and an id is   *)
(* handed out once.                                                        *)
THEOREM PurgeIsFinal == Spec => PurgedStaysPurged
<1>1. TypeOK /\ [Next]_vars
        => [\A t \in born : store[t] = None => store'[t] = None]_vars
  <2> SUFFICES ASSUME TypeOK, [Next]_vars, NEW t \in born, store[t] = None
               PROVE  store'[t] = None
    OBVIOUS
  <2>0. t \in Task /\ ~ Exists(t)
    BY DEF TypeOK, Exists
  <2>1. CASE SameRows /\ deps' = deps
    BY <2>0, <2>1 DEF SameRows, Exists
  <2>2. ASSUME NEW u \in Task, NEW ds \in SUBSET Task, Edited(u, ds) PROVE store'[t] = None
    BY <2>0, <2>2 DEF Edited, Exists
  <2>3. ASSUME NEW u \in Task, Purged(u) PROVE store'[t] = None
    BY <2>0, <2>3 DEF Purged, PurgedStore, TypeOK
  <2> QED
    BY <2>1, <2>2, <2>3, StepGraph
<1> QED
  BY <1>1, TypeCorrect, PTL DEF Spec, PurgedStaysPurged
-----------------------------------------------------------------------------
(* A worker's request is its own: it is new, kept, or kept and grown older,*)
(* and only the worker's own handler answers it.                           *)
NewlyLoaded(q) == \E t \in Task, op \in Requests :
  /\ store[t] # None
  /\ Accepts(op, store[t])
  /\ q = [op |-> op, task |-> t, copy |-> store[t]]

LEMMA StepHeld ==
  ASSUME TypeOK, [Next]_vars, NEW w \in Worker
  PROVE  \/ held'[w] = held[w]
         \/ NewlyLoaded(held'[w])
         \/ held[w] # None /\ held'[w] = [held[w] EXCEPT !.copy = Aged(@)]
         \/ held[w] # None /\ held'[w] = None /\ Handler(w)
<1> DEFINE Goal == \/ held'[w] = held[w]
                   \/ NewlyLoaded(held'[w])
                   \/ held[w] # None /\ held'[w] = [held[w] EXCEPT !.copy = Aged(@)]
                   \/ held[w] # None /\ held'[w] = None /\ Handler(w)
<1>1. ASSUME NEW v \in Worker, Load(v) PROVE Goal
  <2>1. PICK t \in Task, op \in Requests \ {"CreateTask"} :
          /\ store[t] # None /\ Accepts(op, store[t])
          /\ held' = [held EXCEPT ![v] = [op |-> op, task |-> t, copy |-> store[t]]]
    BY <1>1 DEF Load, Exists
  <2>2. CASE v = w
    <3>1. held'[w] = [op |-> op, task |-> t, copy |-> store[t]]
      BY <2>1, <2>2 DEF TypeOK
    <3> QED
      BY <2>1, <3>1 DEF NewlyLoaded
  <2>3. CASE v # w
    BY <2>1, <2>3 DEF TypeOK
  <2> QED
    BY <2>2, <2>3
<1>2. ASSUME NEW v \in Worker, Handler(v) PROVE Goal
  <2>1. held[v] # None /\ held' = [held EXCEPT ![v] = None]
    BY <1>2 DEF Handler, Update, UpdateRefused, Move, MoveRefused, Tick, Delete, Restore, Purge,
                CommitLost, Commit, Holds
  <2>2. CASE v = w
    BY <1>2, <2>1, <2>2 DEF TypeOK
  <2>3. CASE v # w
    BY <2>1, <2>3 DEF TypeOK
  <2> QED
    BY <2>2, <2>3
<1>3. ASSUME NEW v \in Worker, CreateTask(v) PROVE Goal
  BY <1>3 DEF CreateTask
<1>4. ASSUME Scheduler PROVE Goal
  BY <1>4 DEF Scheduler, ReadDue, ArchiveFinished, TickAborted, PurgeDeleted, AutoStart
<1>5. ASSUME TimePasses PROVE Goal
  BY <1>5 DEF TimePasses
<1>6. CASE UNCHANGED vars
  BY <1>6 DEF vars
<1> QED
  BY <1>1, <1>2, <1>3, <1>4, <1>5, <1>6 DEF Next

(* scan_target refused every finish scan of a task already finished.       *)
ScanCopies == \A w \in Worker : Holds(w, "FinishScan") => held[w].copy.column # FinishedCol

(* A finish scan that commits found no open dependency in its own          *)
(* transaction, whatever was open when it loaded the task.                 *)
THEOREM ScanCorrect == Spec => ScanRespectsDeps
<1>1. Init => ScanCopies
  BY DEF Init, ScanCopies, Holds
<1>2. TypeOK /\ ScanCopies /\ [Next]_vars => ScanCopies'
  <2> SUFFICES ASSUME TypeOK, ScanCopies, [Next]_vars, NEW w \in Worker,
                      held'[w] # None, held'[w].op = "FinishScan"
               PROVE  held'[w].copy.column # FinishedCol
    BY DEF ScanCopies, Holds
  <2>1. CASE held'[w] = held[w]
    BY <2>1 DEF ScanCopies, Holds
  <2>2. CASE NewlyLoaded(held'[w])
    BY <2>2 DEF NewlyLoaded, Accepts
  <2>3. CASE held[w] # None /\ held'[w] = [held[w] EXCEPT !.copy = Aged(@)]
    <3>1. held[w] \in Request /\ held[w].copy \in Row
      BY <2>3, HeldTypes
    <3>2. held'[w].op = held[w].op /\ held'[w].copy = Aged(held[w].copy)
      BY <2>3, <3>1 DEF Request
    <3>3. Aged(held[w].copy).column = held[w].copy.column
      BY <3>1 DEF Aged, Row
    <3> QED
      BY <2>3, <3>2, <3>3 DEF ScanCopies, Holds
  <2> QED
    BY <2>1, <2>2, <2>3, StepHeld
<1>3. TypeOK /\ ScanCopies /\ [Next]_vars
        => [\A w \in Worker : (Holds(w, "FinishScan") /\ held'[w] = None /\ store' # store)
               => OpenDeps(held[w].task) = {}]_vars
  <2> SUFFICES ASSUME TypeOK, ScanCopies, [Next]_vars, NEW w \in Worker,
                      Holds(w, "FinishScan"), held'[w] = None, store' # store
               PROVE  OpenDeps(held[w].task) = {}
    OBVIOUS
  <2>1. held[w] \in Request
    BY HeldTypes DEF Holds
  <2>2. held[w] # [held[w] EXCEPT !.copy = Aged(@)] => [held[w] EXCEPT !.copy = Aged(@)] # None
    <3>1. Aged(held[w].copy) \in Row
      BY HeldTypes, RowTypes, RolesOnBoard DEF Holds
    <3>2. [held[w] EXCEPT !.copy = Aged(@)] \in Request
      BY <2>1, <3>1 DEF Request
    <3> QED
      BY <3>2, NoneIsNoRow
  <2>n. ~ NewlyLoaded(held'[w])
    <3> SUFFICES ASSUME NEW t \in Task, NEW op \in Requests, store[t] # None,
                        held'[w] = [op |-> op, task |-> t, copy |-> store[t]]
                 PROVE  FALSE
      BY DEF NewlyLoaded
    <3>1. store[t] \in Row
      BY DEF TypeOK
    <3>2. [op |-> op, task |-> t, copy |-> store[t]] \in Request
      BY <3>1 DEF Request
    <3> QED
      BY <3>2, NoneIsNoRow
  <2>h. held[w] # None
    BY DEF Holds
  <2>3. Handler(w)
    BY <2>2, <2>n, <2>h, StepHeld
  <2>4. Move(w)
    BY <2>3 DEF Handler, Update, UpdateRefused, MoveRefused, Tick, Delete, Restore, Purge,
                CommitLost, Holds
  <2>5. PlanMove(held[w].task, held[w].copy, FinishedCol, FALSE)
    BY <2>4 DEF Move, Holds, Target
  <2> QED
    BY <2>5 DEF PlanMove, ScanCopies
<1> QED
  BY <1>1, <1>2, <1>3, TypeCorrect, PTL DEF Spec, ScanRespectsDeps
=============================================================================
