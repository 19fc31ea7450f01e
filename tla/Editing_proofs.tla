---------------------------- MODULE Editing_proofs ----------------------------
(* What holds of the columns of a board however many columns, tasks and     *)
(* members there are; of the form for boards, however often the board is    *)
(* changed while it is open; of the editor of a program, however many steps *)
(* it has; and of the settings and the panels of the printer.               *)
EXTENDS BoardColumns, BoardForm, ProgramEditor, ClientSettings,
        SequenceTheorems, FiniteSetTheorems, TLAPS

LEMMA HeldTypes ==
  ASSUME TypeOK, NEW w \in Worker, NEW r \in Request \cup {None}
  PROVE  [held EXCEPT ![w] = r] \in [Worker -> Request \cup {None}]
BY DEF TypeOK

LEMMA HeldReads ==
  ASSUME TypeOK, NEW w \in Worker, held[w] # None
  PROVE  /\ held[w] \in Request
         /\ held[w].board \in Board
         /\ held[w].op = "MoveTask" => held[w].target \in Task
BY DEF TypeOK, Request

LEMMA LoadedTypes ==
  ASSUME TypeOK, NEW w \in Worker, NEW op, NEW target, NEW from, NEW mark,
         \/ /\ op \in Requests \ {"MoveTask"} /\ target \in Column \cup {None} /\ from = None
            /\ mark \in BOOLEAN \cup {None}
         \/ op = "MoveTask" /\ target \in Task /\ from \in Column /\ mark \in BOOLEAN,
         Loaded(w, op, target, from, mark)
  PROVE  held' \in [Worker -> Request \cup {None}]
<1>1. Current \in Board
  BY DEF TypeOK, Current, Board
<1>2. [op |-> op, board |-> Current, target |-> target, from |-> from, mark |-> mark] \in Request
  BY <1>1 DEF Request
<1> QED BY <1>2, HeldTypes DEF Loaded

LEMMA AnsweredTypes ==
  ASSUME TypeOK, NEW w \in Worker, Answered(w)
  PROVE  held' \in [Worker -> Request \cup {None}]
BY HeldTypes DEF Answered

LEMMA HandedOverTypes ==
  ASSUME TypeOK, NEW R \in SUBSET Role, NEW to \in [R -> Column]
  PROVE  HandedOver(to) \in [Role -> Column]
BY DEF TypeOK, HandedOver

\* The tables and the copies of them have the shape the handlers expect.
THEOREM TypeCorrect == Spec => []TypeOK
<1>1. Init => TypeOK
  <2> SUFFICES ASSUME Init PROVE TypeOK
    OBVIOUS
  <2>1. PICK C \in SUBSET Column, r \in [Role -> Column] :
            /\ \E n \in [C -> Name] : column = [c \in Column |-> IF c \in C THEN n[c] ELSE None]
            /\ born = C /\ role = r
    BY DEF Init
  <2>2. PICK n \in [C -> Name] : column = [c \in Column |-> IF c \in C THEN n[c] ELSE None]
    BY <2>1
  <2>3. column \in [Column -> Name \cup {None}]
    BY <2>2
  <2> QED BY <2>1, <2>3 DEF Init, TypeOK
<1>2. TypeOK /\ [Next]_vars => TypeOK'
  <2> SUFFICES ASSUME TypeOK, [Next]_vars PROVE TypeOK'
    OBVIOUS
  <2>0. CASE UNCHANGED vars
    BY <2>0 DEF TypeOK, vars
  <2>a. \A overtaken, what : what \in {"roles", "names"} /\ CrossedIf(overtaken, what)
                              => crossed' \subseteq {"roles", "names"}
    BY DEF CrossedIf, TypeOK
  <2>b. ASSUME NEW w \in Worker, AddColumn(w) \/ RenameColumn(w) \/ UpdateBoard(w) \/ RemoveColumn(w)
        PROVE  crossed' \subseteq {"roles", "names"}
    BY <2>a, <2>b DEF AddColumn, RenameColumn, UpdateBoard, RemoveColumn
  <2>1. ASSUME NEW w \in Worker, Load(w) PROVE TypeOK'
    <3>1. CASE \E op \in {"AddColumn", "UpdateBoard"} : Loaded(w, op, None, None, None)
      BY <3>1, <2>1, LoadedTypes DEF Load, TypeOK, Requests
    <3>2. CASE \E op \in {"RenameColumn", "RemoveColumn"}, c \in OnBoard(Current) :
                 Loaded(w, op, c, None, None)
      BY <3>2, <2>1, LoadedTypes DEF Load, TypeOK, Requests, OnBoard
    <3>3. CASE Loaded(w, "CreateTask", None, None, None)
      BY <3>3, <2>1, LoadedTypes DEF Load, TypeOK, Requests
    <3>4. CASE \E t \in Task : place[t] # None /\ Loaded(w, "MoveTask", t, place[t], t \in stamped)
      <4>1. PICK t \in Task : place[t] # None /\ Loaded(w, "MoveTask", t, place[t], t \in stamped)
        BY <3>4
      <4>2. place[t] \in Column /\ (t \in stamped) \in BOOLEAN
        BY <4>1 DEF TypeOK
      <4>3. held' \in [Worker -> Request \cup {None}]
        BY <4>1, <4>2, LoadedTypes
      <4> QED BY <4>3, <2>1 DEF Load, TypeOK
    <3> QED BY <2>1, <3>1, <3>2, <3>3, <3>4 DEF Load
  <2>2. ASSUME NEW w \in Worker, AddColumn(w) PROVE TypeOK'
    BY <2>2, <2>b, AnsweredTypes DEF AddColumn, TypeOK
  <2>3. ASSUME NEW w \in Worker, RenameColumn(w) PROVE TypeOK'
    <3>1. PICK name \in Name :
            column' = [column EXCEPT ![held[w].target] = IF @ = None THEN None ELSE name]
      BY <2>3 DEF RenameColumn
    <3>2. column' \in [Column -> Name \cup {None}]
      BY <3>1 DEF TypeOK
    <3> QED BY <2>3, <2>b, <3>2, AnsweredTypes DEF RenameColumn, TypeOK
  <2>4. ASSUME NEW w \in Worker, UpdateBoard(w) PROVE TypeOK'
    <3>0. PICK R \in SUBSET Role :
            \E to \in [R -> OnBoard(held[w].board)] : role' = HandedOver(to)
      BY <2>4 DEF UpdateBoard
    <3>1. PICK to \in [R -> OnBoard(held[w].board)] : role' = HandedOver(to)
      BY <3>0
    <3>2. to \in [R -> Column]
      BY <3>1 DEF OnBoard
    <3>3. role' \in [Role -> Column]
      BY <3>1, <3>2, HandedOverTypes
    <3> QED BY <2>4, <2>b, <3>3, AnsweredTypes DEF UpdateBoard, TypeOK
  <2>5. ASSUME NEW w \in Worker, CountTasks(w) PROVE TypeOK'
    <3>1. held[w] \in Request /\ held[w].op = "RemoveColumn"
      BY <2>5, HeldReads DEF CountTasks, Holds
    <3>2. [held[w] EXCEPT !.mark = (TasksIn(held[w].target) # {})] \in Request
      BY <3>1 DEF Request
    <3>3. held' = [held EXCEPT ![w] = [held[w] EXCEPT !.mark = (TasksIn(held[w].target) # {})]]
      BY <2>5 DEF CountTasks
    <3> QED BY <2>5, <3>2, <3>3, HeldTypes DEF CountTasks, TypeOK
  <2>6. ASSUME NEW w \in Worker, RemoveColumn(w) PROVE TypeOK'
    <3>1. PICK to \in Column \cup {None}, R \in SUBSET Role :
            \E instead \in [R -> Column] :
              /\ place' = [t \in Task |-> IF to # None /\ t \in TasksIn(held[w].target)
                                          THEN to ELSE place[t]]
              /\ role' = HandedOver(instead)
              /\ column' = [column EXCEPT ![held[w].target] = None]
      BY <2>6 DEF RemoveColumn
    <3>2. role' \in [Role -> Column]
      BY <3>1, HandedOverTypes
    <3>3. place' \in [Task -> Column \cup {None}]
      BY <3>1 DEF TypeOK
    <3>4. column' \in [Column -> Name \cup {None}]
      BY <3>1 DEF TypeOK
    <3> QED BY <2>6, <2>b, <3>2, <3>3, <3>4, AnsweredTypes DEF RemoveColumn, TypeOK
  <2>7. ASSUME NEW w \in Worker, CreateTask(w) PROVE TypeOK'
    BY <2>7, AnsweredTypes DEF CreateTask, TypeOK, OnBoard
  <2>8. ASSUME NEW w \in Worker, MoveTask(w) PROVE TypeOK'
    <3>1. PICK to \in OnBoard(held[w].board) :
            /\ place' = [place EXCEPT ![held[w].target] = to]
            /\ stamped' = IF PlanFinished(held[w], to) THEN stamped \cup {held[w].target}
                                                      ELSE stamped \ {held[w].target}
      BY <2>8 DEF MoveTask
    <3>2. place' \in [Task -> Column \cup {None}]
      BY <3>1 DEF TypeOK, OnBoard
    <3>3. held[w].target \in Task
      BY <2>8, HeldReads DEF MoveTask, Holds
    <3> QED BY <2>8, <3>1, <3>2, <3>3, AnsweredTypes DEF MoveTask, TypeOK
  <2>9. ASSUME NEW w \in Worker, Refused(w) PROVE TypeOK'
    BY <2>9, AnsweredTypes DEF Refused, TypeOK
  <2> QED BY <2>0, <2>1, <2>2, <2>3, <2>4, <2>5, <2>6, <2>7, <2>8, <2>9 DEF Next, Handler
<1> QED BY <1>1, <1>2, PTL DEF Spec

-----------------------------------------------------------------------------
(* Tasks keep a column.                                                    *)

\* "Removing a column never silently deletes tasks": a task created in a
\* column or moved into it after RemoveColumn has counted its tasks still has
\* a column, whatever the number of managers and members.
THEOREM PlacedCorrect == Spec => []EveryTaskPlaced
<1>1. Init => EveryTaskPlaced
  BY DEF Init, EveryTaskPlaced
<1>2. TypeOK /\ EveryTaskPlaced /\ [Next]_vars => EveryTaskPlaced'
  <2> SUFFICES ASSUME TypeOK, EveryTaskPlaced, [Next]_vars PROVE EveryTaskPlaced'
    OBVIOUS
  <2>0. CASE UNCHANGED <<column, place>>
    BY <2>0 DEF EveryTaskPlaced
  <2>1. ASSUME NEW w \in Worker, AddColumn(w) PROVE EveryTaskPlaced'
    BY <2>1, NoneIsNothing DEF AddColumn, EveryTaskPlaced, TypeOK
  <2>2. ASSUME NEW w \in Worker, RenameColumn(w) PROVE EveryTaskPlaced'
    <3>1. PICK name \in Name :
            column' = [column EXCEPT ![held[w].target] = IF @ = None THEN None ELSE name]
      BY <2>2 DEF RenameColumn
    <3>2. \A c \in Column : column[c] # None => column'[c] # None
      BY <3>1, NoneIsNothing DEF TypeOK
    <3> QED BY <2>2, <3>2 DEF RenameColumn, EveryTaskPlaced, TypeOK
  <2>3. ASSUME NEW w \in Worker, RemoveColumn(w) \/ CreateTask(w) \/ MoveTask(w)
        PROVE  EveryTaskPlaced'
    <3>1. KeyHolds(column', place')
      BY <2>3 DEF RemoveColumn, CreateTask, MoveTask, KeyHolds
    <3> QED BY <3>1 DEF KeyHolds, EveryTaskPlaced
  <2>4. ASSUME NEW w \in Worker, Load(w) \/ UpdateBoard(w) \/ CountTasks(w) \/ Refused(w)
        PROVE  EveryTaskPlaced'
    BY <2>4, <2>0 DEF Load, UpdateBoard, CountTasks, Refused
  <2> QED BY <2>0, <2>1, <2>2, <2>3, <2>4 DEF Next, Handler, vars
<1> QED BY <1>1, <1>2, TypeCorrect, PTL DEF Spec

-----------------------------------------------------------------------------
(* Roles and names, for any number of managers.                            *)

\* What was noted stays noted; the other requests note nothing.
LEMMA CrossedGrows == [Next]_vars => crossed \subseteq crossed'
<1> SUFFICES ASSUME [Next]_vars PROVE crossed \subseteq crossed'
  OBVIOUS
<1>1. \A overtaken, what : CrossedIf(overtaken, what) => crossed \subseteq crossed'
  BY DEF CrossedIf
<1>2. ASSUME NEW w \in Worker, AddColumn(w) \/ RenameColumn(w) \/ UpdateBoard(w) \/ RemoveColumn(w)
      PROVE  crossed \subseteq crossed'
  BY <1>1, <1>2 DEF AddColumn, RenameColumn, UpdateBoard, RemoveColumn
<1>3. ASSUME NEW w \in Worker,
             Load(w) \/ CountTasks(w) \/ CreateTask(w) \/ MoveTask(w) \/ Refused(w)
      PROVE  crossed \subseteq crossed'
  BY <1>3 DEF Load, CountTasks, CreateTask, MoveTask, Refused
<1> QED
  BY <1>2, <1>3 DEF Next, Handler, vars

\* A copy whose change is not noted has no column that is gone; the one a column
\* is removed by has the roles too; the one a name is given by has all names.
LEMMA NotCrossed ==
  ASSUME NEW w \in Worker
  PROVE  /\ UpdateBoard(w) /\ "roles" \notin crossed' => OnBoard(held[w].board) \subseteq OnBoard(Current)
         /\ RemoveColumn(w) /\ "roles" \notin crossed' =>
              OnBoard(held[w].board) \subseteq OnBoard(Current) /\ held[w].board.role = role
         /\ (AddColumn(w) \/ RenameColumn(w)) /\ "names" \notin crossed' =>
              \A c \in OnBoard(Current) : held[w].board.column[c] = column[c]
<1>1. \A overtaken : CrossedIf(overtaken, "roles") /\ "roles" \notin crossed' => ~overtaken
  BY DEF CrossedIf
<1>2. \A overtaken : CrossedIf(overtaken, "names") /\ "names" \notin crossed' => ~overtaken
  BY DEF CrossedIf
<1>3. UpdateBoard(w) /\ "roles" \notin crossed' => OnBoard(held[w].board) \subseteq OnBoard(Current)
  BY <1>1 DEF UpdateBoard, ColumnsOvertaken
<1>4. RemoveColumn(w) /\ "roles" \notin crossed' =>
        OnBoard(held[w].board) \subseteq OnBoard(Current) /\ held[w].board.role = role
  BY <1>1 DEF RemoveColumn, ColumnsOvertaken
<1>5. (AddColumn(w) \/ RenameColumn(w)) /\ "names" \notin crossed' =>
        \A c \in OnBoard(Current) : held[w].board.column[c] = column[c]
  BY <1>2 DEF AddColumn, RenameColumn, NamesOvertaken
<1> QED
  BY <1>3, <1>4, <1>5

\* However many managers and members there are, started, paused and finished
\* always name a column of the board, until somebody sets a role or removes a
\* column from a copy whose columns, or roles, others have taken away meanwhile
\* (plan_column_removal, UpdateBoard): a role goes elsewhere before its column
\* is removed, and a new role is a column that is still there.
THEOREM RolesCorrect == Spec => []RolesExist
<1>1. Init => RolesExist
  <2> SUFFICES ASSUME Init PROVE RolesExist
    OBVIOUS
  <2>1. PICK C \in SUBSET Column, r \in [Role -> Column] :
            /\ \A x \in Role : r[x] \in C
            /\ \E n \in [C -> Name] : column = [c \in Column |-> IF c \in C THEN n[c] ELSE None]
            /\ role = r
    BY DEF Init
  <2>2. PICK n \in [C -> Name] : column = [c \in Column |-> IF c \in C THEN n[c] ELSE None]
    BY <2>1
  <2>3. \A c \in C : column[c] # None
    BY <2>2, NoneIsNothing
  <2> QED BY <2>1, <2>3 DEF RolesExist
<1>2. TypeOK /\ RolesExist /\ [Next]_vars => RolesExist'
  <2> SUFFICES ASSUME TypeOK, RolesExist, [Next]_vars, "roles" \notin crossed'
               PROVE  \A x \in Role : column'[role'[x]] # None
    BY DEF RolesExist
  <2>a. \A x \in Role : role[x] \in Column /\ column[role[x]] # None
    BY CrossedGrows DEF RolesExist, TypeOK
  <2>0. CASE UNCHANGED <<column, role>>
    BY <2>0, <2>a
  <2>1. ASSUME NEW w \in Worker, AddColumn(w) PROVE \A x \in Role : column'[role'[x]] # None
    BY <2>1, <2>a, NoneIsNothing DEF AddColumn, TypeOK
  <2>2. ASSUME NEW w \in Worker, RenameColumn(w) PROVE \A x \in Role : column'[role'[x]] # None
    <3>1. PICK name \in Name :
            column' = [column EXCEPT ![held[w].target] = IF @ = None THEN None ELSE name]
      BY <2>2 DEF RenameColumn
    <3>2. \A c \in Column : column[c] # None => column'[c] # None
      BY <3>1, NoneIsNothing DEF TypeOK
    <3> QED BY <2>2, <2>a, <3>2 DEF RenameColumn
  <2>3. ASSUME NEW w \in Worker, UpdateBoard(w) PROVE \A x \in Role : column'[role'[x]] # None
    <3>1. OnBoard(held[w].board) \subseteq OnBoard(Current)
      BY <2>3, NotCrossed
    <3>2. PICK R \in SUBSET Role : \E to \in [R -> OnBoard(held[w].board)] : role' = HandedOver(to)
      BY <2>3 DEF UpdateBoard
    <3>3. PICK to \in [R -> OnBoard(held[w].board)] : role' = HandedOver(to)
      BY <3>2
    <3>4. \A x \in R : column[to[x]] # None
      BY <3>1, <3>3 DEF OnBoard, Current
    <3>5. \A x \in Role : column[role'[x]] # None
      BY <2>a, <3>3, <3>4 DEF HandedOver
    <3> QED BY <2>3, <3>5 DEF UpdateBoard
  <2>4. ASSUME NEW w \in Worker, RemoveColumn(w) PROVE \A x \in Role : column'[role'[x]] # None
    <3> DEFINE gone == held[w].target
    <3>1. OnBoard(held[w].board) \subseteq OnBoard(Current) /\ held[w].board.role = role
      BY <2>4, NotCrossed
    <3>2. PICK to \in Column \cup {None}, R \in SUBSET Role : \E instead \in [R -> Column] :
            /\ Plan(held[w].board, gone, held[w].mark, to, instead)
            /\ role' = HandedOver(instead)
            /\ column' = [column EXCEPT ![gone] = None]
      BY <2>4 DEF RemoveColumn
    <3>3. PICK instead \in [R -> Column] :
            /\ Plan(held[w].board, gone, held[w].mark, to, instead)
            /\ role' = HandedOver(instead)
            /\ column' = [column EXCEPT ![gone] = None]
      BY <3>2
    <3>4. \A x \in R : instead[x] # gone /\ column[instead[x]] # None
      BY <3>1, <3>3 DEF Plan, OnBoard, Current
    <3>5. \A x \in Role \ R : role[x] # gone
      BY <3>1, <3>3 DEF Plan
    <3>6. \A x \in Role : role'[x] # gone /\ column[role'[x]] # None
      BY <2>a, <3>3, <3>4, <3>5 DEF HandedOver
    <3>7. \A x \in Role : role'[x] \in Column
      BY <3>3, HandedOverTypes
    <3> QED BY <3>3, <3>6, <3>7 DEF TypeOK
  <2>5. ASSUME NEW w \in Worker,
               Load(w) \/ CountTasks(w) \/ CreateTask(w) \/ MoveTask(w) \/ Refused(w)
        PROVE  \A x \in Role : column'[role'[x]] # None
    BY <2>5, <2>0 DEF Load, CountTasks, CreateTask, MoveTask, Refused
  <2> QED BY <2>0, <2>1, <2>2, <2>3, <2>4, <2>5 DEF Next, Handler, vars
<1> QED BY <1>1, <1>2, TypeCorrect, PTL DEF Spec

\* However many managers there are, no two columns of the board have the same
\* name, until a name is given from a copy that lacks a name others have given
\* meanwhile (validate_column_names decides on a copy).
THEOREM NamesCorrect == Spec => []NamesDiffer
<1>1. Init => NamesDiffer
  <2> SUFFICES ASSUME Init PROVE NamesDiffer
    OBVIOUS
  <2>1. PICK C \in SUBSET Column :
          \E n \in [C -> Name] :
            /\ \A c, d \in C : c # d => n[c] # n[d]
            /\ column = [c \in Column |-> IF c \in C THEN n[c] ELSE None]
    BY DEF Init
  <2>2. PICK n \in [C -> Name] :
            /\ \A c, d \in C : c # d => n[c] # n[d]
            /\ column = [c \in Column |-> IF c \in C THEN n[c] ELSE None]
    BY <2>1
  <2> QED BY <2>2, NoneIsNothing DEF NamesDiffer
<1>2. TypeOK /\ NamesDiffer /\ [Next]_vars => NamesDiffer'
  <2> SUFFICES ASSUME TypeOK, NamesDiffer, [Next]_vars, "names" \notin crossed',
                      NEW a \in Column, NEW b \in Column, column'[a] # None, column'[b] = column'[a]
               PROVE  a = b
    BY DEF NamesDiffer
  <2>a. \A c, d \in Column : (column[c] # None /\ column[d] = column[c]) => c = d
    BY CrossedGrows DEF NamesDiffer
  <2>0. CASE UNCHANGED column
    BY <2>0, <2>a
  <2>b. ASSUME NEW w \in Worker, AddColumn(w) \/ RenameColumn(w), NEW c, NEW name,
               Fresh(held[w].board, c, name), name # None
        PROVE  \A d \in Column \ {c} : column[d] # name
    <3>1. \A d \in OnBoard(Current) : held[w].board.column[d] = column[d]
      BY <2>b, NotCrossed
    <3> QED BY <2>b, <3>1 DEF Fresh, OnBoard, Current
  <2>1. ASSUME NEW w \in Worker, AddColumn(w) PROVE a = b
    <3>1. PICK c \in Column \ born, name \in Name :
            Fresh(held[w].board, None, name) /\ column' = [column EXCEPT ![c] = name]
      BY <2>1 DEF AddColumn
    <3>2. \A d \in Column : column[d] # name
      BY <2>1, <2>b, <3>1, NoneIsNothing
    <3> QED BY <2>a, <3>1, <3>2 DEF TypeOK
  <2>2. ASSUME NEW w \in Worker, RenameColumn(w) PROVE a = b
    <3> DEFINE c == held[w].target
    <3>1. PICK name \in Name : /\ Fresh(held[w].board, c, name)
                               /\ column' = [column EXCEPT ![c] = IF @ = None THEN None ELSE name]
      BY <2>2 DEF RenameColumn
    <3>2. \A d \in Column \ {c} : column[d] # name
      BY <2>2, <2>b, <3>1, NoneIsNothing
    <3> QED BY <2>a, <3>1, <3>2 DEF TypeOK
  <2>3. ASSUME NEW w \in Worker, RemoveColumn(w) PROVE a = b
    <3>1. column' = [column EXCEPT ![held[w].target] = None]
      BY <2>3 DEF RemoveColumn
    <3> QED BY <2>a, <3>1 DEF TypeOK
  <2>4. ASSUME NEW w \in Worker, Load(w) \/ UpdateBoard(w) \/ CountTasks(w) \/ CreateTask(w)
                                 \/ MoveTask(w) \/ Refused(w)
        PROVE  a = b
    BY <2>4, <2>0 DEF Load, UpdateBoard, CountTasks, CreateTask, MoveTask, Refused
  <2> QED BY <2>0, <2>1, <2>2, <2>3, <2>4 DEF Next, Handler, vars
<1> QED BY <1>1, <1>2, TypeCorrect, PTL DEF Spec

-----------------------------------------------------------------------------
(* The form for boards.                                                     *)
FormFields ==
  Field \cup {"mode", "base", "lines", "users", "error", "saving"}
Days == {{}, Junk} \cup {{n} : n \in Nat}
IsForm(f) ==
  /\ f = [x \in FormFields |-> f[x]]
  /\ f.mode \in {"Create", "Edit"} /\ IsBoard(f.base) /\ f.archive \in Days

\* A field shows what it is compared with.
Shows(f, x) == IF x = "archive" THEN f.archive = DaysText(f.base.archive) ELSE f[x] = f.base[x]

Asking(q) ==
  /\ "archive" \in DOMAIN q.update => q.update["archive"] \in WholeDays
  /\ "cards" \in DOMAIN q.update => "shortId" \notin q.update["cards"]
Named(s) == DOMAIN s.request.update \subseteq s.touched \cup s.heard

Orderly == \E S : asked \in Seq(S) /\ \A q \in S : q.kind # "Users" => Asking(q)

(* The inductive invariant: what the form shows and nobody touched, neither *)
(* by hand nor from elsewhere, is what it is compared with.                 *)
BoardFormInv ==
  /\ IsBoard(row) /\ IsForm(form)
  /\ view = "form" /\ form.mode = "Edit" => \A x \in Field \ (touched \cup heard) : Shows(form, x)
  /\ Orderly
  /\ \A w \in wanted : Asking(w.request) /\ Named(w)
  /\ UpdateNamesTouched

LEMMA OneField ==
  ASSUME NEW F, NEW f, f = [x \in F |-> f[x]], NEW w \in F, NEW v
  PROVE  [f EXCEPT ![w] = v] = [x \in F |-> IF x = w THEN v ELSE f[x]]
  OBVIOUS

\* Parts of a form that are no settings leave what it shows.
LEMMA Aside ==
  ASSUME NEW f, IsForm(f), NEW w \in {"lines", "users", "error", "saving"}, NEW v
  PROVE  /\ IsForm([f EXCEPT ![w] = v]) /\ [f EXCEPT ![w] = v].mode = f.mode
         /\ \A x \in Field : Shows(f, x) => Shows([f EXCEPT ![w] = v], x)
<1>1. w \in FormFields /\ "mode" \in FormFields /\ "base" \in FormFields /\ "archive" \in FormFields
      /\ Field \subseteq FormFields /\ w \notin Field \cup {"mode", "base", "archive"}
  BY DEF FormFields, Field, Roles
<1> DEFINE g == [x \in FormFields |-> IF x = w THEN v ELSE f[x]]
<1>2. [f EXCEPT ![w] = v] = g
  BY <1>1, OneField DEF IsForm
<1>3. g.mode = f.mode /\ g.base = f.base /\ g.archive = f.archive /\ \A x \in Field : g[x] = f[x]
  BY <1>1
<1>4. g = [x \in FormFields |-> g[x]]
  OBVIOUS
<1> HIDE DEF g
<1>5. IsForm(g) /\ \A x \in Field : Shows(f, x) => Shows(g, x)
  BY <1>3, <1>4 DEF IsForm, Shows
<1> QED
  BY <1>2, <1>3, <1>5

LEMMA WholeDaysBack ==
  ASSUME NEW a \in WholeDays
  PROVE  /\ a \in Nat /\ DaysText(a) \in Days \ {{}, Junk} /\ ParseDays(DaysText(a)) = a
<1>1. a \in Nat /\ a % 2 = 0
  BY DEF WholeDays, Day
<1>2. a \div 2 \in Nat /\ 2 * (a \div 2) = a
  BY <1>1
<1> DEFINE d == a \div 2
<1>3. d \in Nat /\ 2 * d = a
  BY <1>2
<1> HIDE DEF d
<1>4. {d} # {} /\ {d} # {-1} /\ (CHOOSE e \in {d} : TRUE) = d
  BY <1>3
<1>5. DaysText(a) = {d}
  BY DEF DaysText, Day, d
<1> QED
  BY <1>1, <1>3, <1>4, <1>5 DEF Days, Junk, ParseDays, Day

LEMMA GoodDays ==
  ASSUME NEW t \in Days, ~BadDays(t)
  PROVE  ParseDays(t) \in WholeDays
<1>1. PICK n \in Nat : t = {n}
  BY DEF Days, BadDays
<1>2. (CHOOSE d \in {n} : TRUE) = n
  OBVIOUS
<1>3. (2 * n) \in Nat /\ (2 * n) % 2 = 0
  OBVIOUS
<1> QED
  BY <1>1, <1>2, <1>3 DEF ParseDays, WholeDays, Day

\* A form that opens shows what the board is.
LEMMA EditShows ==
  ASSUME NEW b, IsBoard(b)
  PROVE  IsForm(Edit(b)) /\ Edit(b).mode = "Edit" /\ \A x \in Field : Shows(Edit(b), x)
<1>1. Edit(b) = [x \in FormFields |-> Edit(b)[x]]
  BY ZenonT(60) DEF Edit, Blank, FormFields, Field, Roles
<1>2. Edit(b).mode = "Edit" /\ Edit(b).base = b /\ Edit(b).archive = DaysText(b.archive)
  BY DEF Edit, Blank
<1>3. \A x \in Field \ {"archive"} : Edit(b)[x] = b[x]
  <2>1. /\ Edit(b).started = b.started /\ Edit(b).paused = b.paused /\ Edit(b).finished = b.finished
        /\ Edit(b).name = b.name /\ Edit(b).description = b.description /\ Edit(b).cards = b.cards
        /\ Edit(b).private = b.private /\ Edit(b).locked = b.locked
    BY DEF Edit, Blank
  <2> QED
    BY <2>1 DEF Field, Roles
<1>4. DaysText(b.archive) \in Days
  BY WholeDaysBack DEF IsBoard
<1> QED
  BY <1>1, <1>2, <1>3, <1>4 DEF IsForm, Shows

LEMMA CreateForm ==
  ASSUME NEW b, IsBoard(b)
  PROVE  IsForm(Create(b)) /\ Create(b).mode = "Create"
<1>1. Create(b) = [x \in FormFields |-> Create(b)[x]]
  BY ZenonT(60) DEF Create, Blank, FormFields, Field, Roles
<1>2. Create(b).mode = "Create" /\ Create(b).base = b /\ Create(b).archive = {1}
  BY DEF Create, Blank
<1>3. {1} \in Days
  BY DEF Days
<1> QED
  BY <1>1, <1>2, <1>3 DEF IsForm

\* What a form would send of the fields it shows as they are: nothing.
LEMMA SentIsDifferent ==
  ASSUME NEW f, IsForm(f), ~Invalid(f), NEW s, \A x \in Field \ s : Shows(f, x)
  PROVE  DOMAIN Update(f) \subseteq s /\ Asking([update |-> Update(f)])
<1>1. f.base.archive \in WholeDays /\ f.archive \in Days /\ ~BadDays(f.archive)
  <2>1. ~BadDays(f.archive)
    BY Zenon DEF Invalid
  <2> QED
    BY <2>1 DEF IsForm, IsBoard
<1>2. ASSUME NEW x \in Field, Shows(f, x) PROVE Value(f, x) = f.base[x]
  <2>1. CASE x = "archive"
    BY <1>1, <1>2, <2>1, WholeDaysBack DEF Shows, Value
  <2>2. CASE x = "cards"
    <3>1. "shortId" \notin f.base.cards /\ f.cards = f.base.cards
      BY <1>2, <2>2 DEF Shows, IsForm, IsBoard
    <3> QED
      BY <2>2, <3>1 DEF Value
  <2> QED
    BY <1>2, <2>1, <2>2 DEF Shows, Value
<1>3. DOMAIN Update(f) \subseteq s
  BY <1>2 DEF Update, Different
<1>4. ASSUME "archive" \in DOMAIN Update(f) PROVE Update(f)["archive"] \in WholeDays
  BY <1>1, <1>4, GoodDays DEF Update, Value
<1>5. "cards" \in DOMAIN Update(f) => "shortId" \notin Update(f)["cards"]
  BY DEF Update, Value
<1> QED
  BY <1>3, <1>4, <1>5 DEF Asking

-----------------------------------------------------------------------------
(* What is asked is taken from the front and put behind.                    *)
LEMMA OneMore ==
  ASSUME Orderly, NEW q, q.kind # "Users" => Asking(q), asked' = Append(asked, q)
  PROVE  Orderly'
<1>1. PICK S : asked \in Seq(S) /\ \A r \in S : r.kind # "Users" => Asking(r)
  BY DEF Orderly
<1>2. asked' \in Seq(S \cup {q})
  BY <1>1
<1> QED
  BY <1>1, <1>2 DEF Orderly

LEMMA OneLess ==
  ASSUME Orderly, asked # <<>>, asked' = Tail(asked)
  PROVE  Orderly' /\ (Head(asked).kind # "Users" => Asking(Head(asked)))
<1>1. PICK S : asked \in Seq(S) /\ \A r \in S : r.kind # "Users" => Asking(r)
  BY DEF Orderly
<1>2. asked' \in Seq(S) /\ Head(asked) \in S
  BY <1>1
<1> QED
  BY <1>1, <1>2 DEF Orderly

LEMMA TypeShows ==
  ASSUME BoardFormInv, Type
  PROVE  BoardFormInv'
<1>1. CASE \E w \in Ring(form) : \E v \in Inputs(form, w) :
             form' = [form EXCEPT ![w] = v] /\ touched' = touched \cup {w}
  <2>1. PICK w \in Ring(form) : \E v \in Inputs(form, w) :
             form' = [form EXCEPT ![w] = v] /\ touched' = touched \cup {w}
    BY <1>1
  <2>2. PICK v \in Inputs(form, w) : form' = [form EXCEPT ![w] = v]
    BY <2>1
  <2>3. IsForm(form) /\ w \in Field \cup {"lines"}
    BY DEF BoardFormInv, Ring
  <2>4. w \in FormFields /\ w \notin {"mode", "base"}
    BY <2>3 DEF FormFields, Field, Roles
  <2>5. form' = [x \in FormFields |-> IF x = w THEN v ELSE form[x]]
    BY <2>2, <2>3, <2>4, OneField DEF IsForm
  <2>6. w = "archive" => v \in Days
    <3>1. ASSUME w = "archive" PROVE v \in {{}, Junk, {3}}
      BY <2>2, <3>1 DEF Inputs, Roles
    <3> QED
      BY <3>1 DEF Days
  <2>7. \A x \in FormFields : x # w => form'[x] = form[x]
    BY <2>5
  <2>8. /\ "mode" \in FormFields /\ "base" \in FormFields /\ "archive" \in FormFields
        /\ Field \subseteq FormFields
    BY DEF FormFields, Field, Roles
  <2>9. form'.mode = form.mode /\ form'.base = form.base
    BY <2>4, <2>7, <2>8
  <2>10. IsForm(form')
    <3>1. form'.archive \in Days
      BY <2>3, <2>5, <2>6, <2>7, <2>8 DEF IsForm
    <3>2. form' = [x \in FormFields |-> form'[x]]
      BY <2>5
    <3> QED
      BY <2>3, <2>9, <3>1, <3>2 DEF IsForm
  <2>11. \A x \in Field : x # w /\ Shows(form, x) => Shows(form', x)
    BY <2>7, <2>8, <2>9 DEF Shows
  <2> QED
    BY <2>1, <2>9, <2>10, <2>11 DEF BoardFormInv, Type, Typing, UpdateNamesTouched, Orderly, Asking, Named
<1>2. CASE \E i \in DOMAIN form.users : form' = [form EXCEPT !.users = Toggled(@, i)] /\ touched' = touched
  <2>1. PICK u : form' = [form EXCEPT !["users"] = u]
    BY <1>2
  <2>2. IsForm(form') /\ form'.mode = form.mode /\ \A x \in Field : Shows(form, x) => Shows(form', x)
    BY <2>1, Aside DEF BoardFormInv
  <2> QED
    BY <1>2, <2>2 DEF BoardFormInv, Type, Typing, UpdateNamesTouched, Orderly, Asking, Named
<1> QED
  BY <1>1, <1>2 DEF Type

\* What is sent for the board a form is about.
LEMMA SendKeeps ==
  ASSUME BoardFormInv, NEW q, q.kind # "Users" => Asking(q), DOMAIN q.update \subseteq touched \cup heard,
         Send(form, q), UNCHANGED <<row, view, wanted, touched, heard>>
  PROVE  BoardFormInv'
<1> DEFINE f == [form EXCEPT !["error"] = FALSE]
<1>1. form' = [f EXCEPT !["saving"] = TRUE]
  BY DEF Send, BoardFormInv, IsForm
<1>2. IsForm(f) /\ f.mode = form.mode /\ \A x \in Field : Shows(form, x) => Shows(f, x)
  BY Aside DEF BoardFormInv
<1> HIDE DEF f
<1>3. IsForm(form') /\ form'.mode = f.mode /\ \A x \in Field : Shows(f, x) => Shows(form', x)
  BY <1>1, <1>2, Aside
<1>4. Orderly'
  BY OneMore DEF Send, BoardFormInv
<1>5. UpdateNamesTouched'
  BY DEF Send, UpdateNamesTouched
<1> QED
  BY <1>2, <1>3, <1>4, <1>5 DEF BoardFormInv, Asking, Named

LEMMA SaveSends ==
  ASSUME BoardFormInv, SaveBoard
  PROVE  BoardFormInv'
<1>1. CASE form' = [form EXCEPT !.error = TRUE] /\ UNCHANGED <<view, asked, wanted, sent>>
  <2>1. IsForm(form') /\ form'.mode = form.mode /\ \A x \in Field : Shows(form, x) => Shows(form', x)
    BY <1>1, Aside DEF BoardFormInv
  <2> QED
    BY <1>1, <2>1 DEF BoardFormInv, SaveBoard, UpdateNamesTouched, Asking, Named, Orderly
<1>2. CASE /\ Send(form, [kind |-> "Create", update |-> <<>>, board |-> {NewBoard(form)}])
           /\ UNCHANGED <<view, wanted>>
  <2> DEFINE q == [kind |-> "Create", update |-> <<>>, board |-> {NewBoard(form)}]
  <2>1. DOMAIN q.update = {}
    OBVIOUS
  <2> HIDE DEF q
  <2>2. Asking(q)
    BY <2>1 DEF Asking
  <2> QED
    BY <1>2, <2>1, <2>2, SendKeeps DEF SaveBoard, q
<1>3. CASE ~Refusal(form) /\ form.mode = "Edit"
  <2> DEFINE q == [kind |-> "Update", update |-> Update(form), board |-> {}]
  <2>1. q.update = Update(form)
    OBVIOUS
  <2> HIDE DEF q
  <2>2. Asking(q) /\ DOMAIN q.update \subseteq touched \cup heard
    <3>1. ~Invalid(form) /\ IsForm(form) /\ \A x \in Field \ (touched \cup heard) : Shows(form, x)
      BY <1>3 DEF Refusal, BoardFormInv, SaveBoard, Typing
    <3> QED
      BY <2>1, <3>1, SentIsDifferent DEF Asking
  <2>3. CASE Send(form, q) /\ UNCHANGED <<view, wanted>>
    BY <2>2, <2>3, SendKeeps DEF SaveBoard
  <2>4. CASE /\ view' = "confirm" /\ wanted' = {[request |-> q, touched |-> touched, heard |-> heard]}
             /\ form' = [form EXCEPT !.error = FALSE] /\ UNCHANGED <<asked, sent>>
    <3>1. IsForm(form')
      BY <2>4, Aside DEF BoardFormInv
    <3>2. \A w \in wanted' : Asking(w.request) /\ Named(w)
      BY <2>2, <2>4 DEF Named
    <3> QED
      BY <2>4, <3>1, <3>2 DEF BoardFormInv, SaveBoard, UpdateNamesTouched, Asking, Named, Orderly
  <2> QED
    BY <1>3, <2>3, <2>4 DEF SaveBoard, q
<1> QED
  BY <1>1, <1>2, <1>3 DEF SaveBoard

LEMMA ConfirmSends ==
  ASSUME BoardFormInv, Confirm
  PROVE  BoardFormInv'
<1>1. Orderly' /\ UpdateNamesTouched'
  <2>1. CASE UNCHANGED <<asked, sent>>
    BY <2>1 DEF BoardFormInv, UpdateNamesTouched, Orderly
  <2>2. ASSUME NEW w \in wanted, asked' = Append(asked, w.request), sent' = {w}
        PROVE  Orderly' /\ UpdateNamesTouched'
    BY <2>2, OneMore DEF BoardFormInv, UpdateNamesTouched, Named
  <2> QED
    BY <2>1, <2>2 DEF Confirm
<1> QED
  BY <1>1 DEF BoardFormInv, Confirm

LEMMA OpenShows ==
  ASSUME BoardFormInv, Cancel \/ OpenAgain \/ OthersChange \/ Refresh
  PROVE  BoardFormInv'
<1>1. CASE Cancel
  BY <1>1 DEF BoardFormInv, Cancel, UpdateNamesTouched, Orderly
<1>2. CASE OpenAgain
  <2>1. IsForm(form') /\ form'.mode = "Edit" /\ \A x \in Field : Shows(form', x)
    BY <1>2, EditShows DEF OpenAgain, BoardFormInv, IsForm
  <2> QED
    BY <1>2, <2>1 DEF BoardFormInv, OpenAgain, UpdateNamesTouched, Orderly
<1>3. CASE OthersChange
  <2> DEFINE parts == Field \cup {"columns"}
  <2>1. PICK x \in parts \ {"archive", "cards"} : \E v : row' = [row EXCEPT ![x] = v]
    <3>1. ASSUME NEW x \in {"description", "locked", "started"}, NEW v, row' = [row EXCEPT ![x] = v]
          PROVE  x \in parts \ {"archive", "cards"}
      BY DEF Field, Roles
    <3>2. "columns" \in parts \ {"archive", "cards"}
      OBVIOUS
    <3> QED
      BY <1>3, <3>1, <3>2 DEF OthersChange
  <2>2. PICK v : row' = [row EXCEPT ![x] = v]
    BY <2>1
  <2>3. row' = [y \in parts |-> IF y = x THEN v ELSE row[y]]
    BY <2>1, <2>2, OneField DEF BoardFormInv, IsBoard
  <2>4. "archive" \in parts /\ "cards" \in parts
    BY DEF Field
  <2>5. IsBoard(row')
    BY <2>1, <2>3, <2>4 DEF BoardFormInv, IsBoard
  <2> QED
    BY <1>3, <2>5 DEF BoardFormInv, OthersChange, UpdateNamesTouched, Orderly
<1>4. CASE Refresh
  <2>1. form' = [form EXCEPT !["base"] = row] /\ "base" \in FormFields
    BY <1>4 DEF Refresh, FormFields
  <2>2. IsForm(form) /\ IsBoard(row)
    BY DEF BoardFormInv
  <2>3. form' = [x \in FormFields |-> IF x = "base" THEN row ELSE form[x]]
    BY <2>1, <2>2, OneField DEF IsForm
  <2>4. Field \subseteq FormFields \ {"base", "mode"} /\ {"mode", "archive"} \subseteq FormFields
    BY DEF FormFields, Field, Roles
  <2>5. form'.mode = form.mode /\ form'.base = row /\ form'.archive = form.archive
        /\ \A x \in Field : form'[x] = form[x]
    <3>1. \A x \in FormFields : x # "base" => form'[x] = form[x]
      BY <2>3
    <3>2. form'["base"] = row
      BY <2>1, <2>3
    <3> QED
      BY <2>4, <3>1, <3>2
  <2>6. form' = [x \in FormFields |-> form'[x]]
    BY <2>3
  <2>7. IsForm(form')
    BY <2>2, <2>5, <2>6 DEF IsForm
  <2>8. \A x \in Field : Shows(form, x) /\ form.base[x] = row[x] => Shows(form', x)
    BY <2>5 DEF Shows
  <2> QED
    BY <1>4, <2>5, <2>7, <2>8 DEF BoardFormInv, Refresh, UpdateNamesTouched, Orderly
<1> QED
  BY <1>1, <1>2, <1>3, <1>4

LEMMA AnswersKeep ==
  ASSUME BoardFormInv, UsersCome \/ BoardAnswered
  PROVE  BoardFormInv'
<1>1. Orderly' /\ (Head(asked).kind # "Users" => Asking(Head(asked)))
  BY OneLess DEF BoardFormInv, UsersCome, BoardAnswered
<1>2. IsForm(form) /\ IsBoard(row)
  BY DEF BoardFormInv
<1>3. CASE form' = form /\ UNCHANGED <<row, view, wanted, touched, heard, sent>>
  BY <1>1, <1>3 DEF BoardFormInv, UpdateNamesTouched, Asking, Named
<1>4. CASE UsersCome /\ view = "form"
  <2>1. PICK u : form' = [form EXCEPT !["users"] = u]
    BY <1>4 DEF UsersCome, SetUsers
  <2>2. IsForm(form') /\ form'.mode = form.mode /\ \A x \in Field : Shows(form, x) => Shows(form', x)
    BY <1>2, <2>1, Aside
  <2> QED
    BY <1>1, <1>4, <2>2 DEF BoardFormInv, UsersCome, UpdateNamesTouched, Asking, Named
<1>5. CASE /\ view = "form" /\ form' = [form EXCEPT !.saving = FALSE, !.error = TRUE]
           /\ UNCHANGED <<row, view, wanted, touched, heard, sent>>
  <2> DEFINE f == [form EXCEPT !["saving"] = FALSE]
  <2>1. form' = [f EXCEPT !["error"] = TRUE]
    BY <1>2, <1>5 DEF IsForm
  <2>2. IsForm(f) /\ f.mode = form.mode /\ \A x \in Field : Shows(form, x) => Shows(f, x)
    BY <1>2, Aside
  <2> HIDE DEF f
  <2>3. IsForm(form') /\ form'.mode = f.mode /\ \A x \in Field : Shows(f, x) => Shows(form', x)
    BY <2>1, <2>2, Aside
  <2> QED
    BY <1>1, <1>5, <2>2, <2>3 DEF BoardFormInv, UpdateNamesTouched, Asking, Named
<1>6. CASE /\ BoardAnswered /\ view' = "none"
           /\ row' = [x \in DOMAIN row |-> IF x \in DOMAIN Head(asked).update
                                          THEN Head(asked).update[x] ELSE row[x]]
           /\ form' = IF form.mode = "Edit" THEN [form EXCEPT !.base = row'] ELSE form
  <2> DEFINE parts == Field \cup {"columns"}
  <2>1. DOMAIN row = parts /\ "archive" \in parts /\ "cards" \in parts
    BY <1>2 DEF IsBoard, Field
  <2>2. row' = [x \in parts |-> row'[x]]
    BY <1>6, <2>1
  <2>3. row'.archive \in WholeDays /\ "shortId" \notin row'.cards
    <3>1. Asking(Head(asked))
      BY <1>1, <1>6 DEF BoardAnswered
    <3>2. row'["archive"] = IF "archive" \in DOMAIN Head(asked).update
                            THEN Head(asked).update["archive"] ELSE row["archive"]
      BY <1>6, <2>1
    <3>3. row'["cards"] = IF "cards" \in DOMAIN Head(asked).update
                          THEN Head(asked).update["cards"] ELSE row["cards"]
      BY <1>6, <2>1
    <3> QED
      BY <1>2, <3>1, <3>2, <3>3 DEF Asking, IsBoard
  <2>4. IsBoard(row')
    BY <2>2, <2>3 DEF IsBoard
  <2>5. IsForm(form')
    <3>1. CASE form' = [form EXCEPT !["base"] = row']
      <4>1. {"base", "mode", "archive"} \subseteq FormFields
        BY DEF FormFields, Field
      <4>2. form' = [x \in FormFields |-> IF x = "base" THEN row' ELSE form[x]]
        BY <1>2, <3>1, <4>1, OneField DEF IsForm
      <4>3. form' = [x \in FormFields |-> form'[x]] /\ form'["base"] = row'
        BY <4>1, <4>2
      <4>4. \A x \in FormFields : x # "base" => form'[x] = form[x]
        BY <4>2
      <4>5. form'.mode = form.mode /\ form'.archive = form.archive
        BY <4>1, <4>4
      <4> QED
        BY <1>2, <2>4, <4>3, <4>5 DEF IsForm
    <3> QED
      BY <1>2, <1>6, <3>1
  <2> QED
    BY <1>1, <1>6, <2>4, <2>5 DEF BoardFormInv, BoardAnswered, UpdateNamesTouched, Asking, Named
<1> QED
  BY <1>3, <1>4, <1>5, <1>6 DEF UsersCome, BoardAnswered

LEMMA BoardFormInvInit == BoardFormInit => BoardFormInv
<1> SUFFICES ASSUME BoardFormInit PROVE BoardFormInv
  OBVIOUS
<1>1. IsBoard(row)
  BY BeginAssumption DEF BoardFormInit
<1>2. CASE form = Edit(row) /\ asked = <<>>
  <2>1. Orderly
    <3>1. asked \in Seq({})
      BY <1>2
    <3> QED
      BY <3>1 DEF Orderly
  <2>2. IsForm(form) /\ \A x \in Field : Shows(form, x)
    BY <1>1, <1>2, EditShows
  <2> QED
    BY <1>1, <2>1, <2>2 DEF BoardFormInit, BoardFormInv, UpdateNamesTouched
<1>3. CASE form = Create(row) /\ asked = <<[kind |-> "Users", update |-> <<>>, board |-> {}]>>
  <2> DEFINE q == [kind |-> "Users", update |-> <<>>, board |-> {}]
  <2>1. q.kind = "Users"
    OBVIOUS
  <2> HIDE DEF q
  <2>2. Orderly
    <3>1. asked \in Seq({q})
      BY <1>3 DEF q
    <3> QED
      BY <2>1, <3>1 DEF Orderly
  <2>3. IsForm(form) /\ form.mode = "Create"
    BY <1>1, <1>3, CreateForm
  <2> QED
    BY <1>1, <2>2, <2>3 DEF BoardFormInit, BoardFormInv, UpdateNamesTouched
<1> QED
  BY <1>2, <1>3 DEF BoardFormInit

LEMMA BoardFormInvNext == BoardFormInv /\ [BoardFormNext]_boardFormVars => BoardFormInv'
<1> SUFFICES ASSUME BoardFormInv, [BoardFormNext]_boardFormVars PROVE BoardFormInv'
  OBVIOUS
<1>1. CASE UNCHANGED boardFormVars
  BY <1>1 DEF BoardFormInv, boardFormVars, UpdateNamesTouched, Orderly, Asking, Named
<1> QED
  BY <1>1, TypeShows, SaveSends, ConfirmSends, OpenShows, AnswersKeep DEF BoardFormNext

(* A save of the form names only fields that were changed by hand or, while *)
(* the form was open, by others (BoardForm::save, BoardForm::refresh).      *)
THEOREM NamesTouchedCorrect == BoardFormSpec => []UpdateNamesTouched
<1>1. BoardFormInv => UpdateNamesTouched
  BY DEF BoardFormInv
<1> QED
  BY <1>1, BoardFormInvInit, BoardFormInvNext, PTL DEF BoardFormSpec

-----------------------------------------------------------------------------
(* The editor of a program.                                                 *)

StepFormFields ==
  {"index", "isRoot", "others", "key", "title", "text", "assign", "preselect", "members",
   "withRoot", "rootStarted", "once", "after", "also", "start", "startAmount", "startDays",
   "autoStart", "limit", "limitAmount", "counts", "qKind", "qText", "qAnswers", "qDefault",
   "fanOut", "rules", "error"}

\* What the step window takes from the program behind it and gives back to it.
Ties == {"index", "isRoot", "others", "after", "also", "key", "qKind"}

\* The program in the form is one that validate passes, but for the keys that were
\* given up.
ProgramHolds ==
  /\ DOMAIN editor = {"steps", "at", "name", "minSamples", "error", "saving"}
  /\ IsProgram(editor.steps)
  /\ editor.at \in DOMAIN editor.steps
  /\ RefersWithin(editor.steps, Keys \cup renamed)

\* A step window that is open still fits the program behind it.
Fits(f, steps) ==
  /\ DOMAIN f = StepFormFields
  /\ f.index \subseteq DOMAIN steps
  /\ \A i, j \in f.index : i = j
  /\ f.others = OtherKeys(steps, f.index)
  /\ f.after \subseteq f.others /\ f.also \subseteq f.others
  /\ f.isRoot \in BOOLEAN
  /\ f.isRoot <=> \E i \in f.index : IsRoot(steps[i])
  /\ f.isRoot => f.key = Root
  /\ f.qKind \in {"None", "YesNo", "Choice"}

EditorInv == ProgramHolds /\ (win \in {"step", "rules"} => Fits(step, editor.steps))

\* A sequence is one of its own elements.
LEMMA SeqOfOwn ==
  ASSUME NEW S, NEW s \in Seq(S)
  PROVE  s \in Seq(ToSet(s)) /\ DOMAIN s = 1..Len(s) /\ Len(s) \in Nat
<1>1. s \in [1..Len(s) -> S] /\ Len(s) \in Nat
  OBVIOUS
<1>2. s \in [1..Len(s) -> ToSet(s)]
  BY <1>1 DEF ToSet
<1> QED BY <1>1, <1>2

\* No two steps share a key: there are as many keys as steps.
LEMMA KeysCount ==
  ASSUME NEW steps, IsProgram(steps)
  PROVE  Cardinality(KeysOf(steps)) = Len(steps)
<1> DEFINE n == Len(steps)
           f == [i \in 1..n |-> steps[i].key]
<1>1. n \in Nat /\ DOMAIN steps = 1..n
  BY SeqOfOwn DEF IsProgram
<1>2. f \in [1..n -> KeysOf(steps)]
  BY <1>1 DEF KeysOf
<1>3. \A i, j \in 1..n : f[i] = f[j] => i = j
  BY <1>1 DEF IsProgram
<1>4. \A k \in KeysOf(steps) : \E i \in 1..n : f[i] = k
  BY <1>1 DEF KeysOf
<1>5. f \in Bijection(1..n, KeysOf(steps))
  BY <1>2, <1>3, <1>4, Zenon DEF Bijection, Injection, Surjection, IsInjective
<1>6. ExistsBijection(1..n, KeysOf(steps))
  BY <1>5 DEF ExistsBijection
<1> QED BY <1>1, <1>6, FS_CountingElements

\* What a window of one step is opened with fits the program.
LEMMA OpenFits ==
  ASSUME NEW steps, IsProgram(steps), NEW s, NEW index,
         index \subseteq DOMAIN steps, \A i, j \in index : i = j,
         \A i \in index : steps[i] = s,
         index = {} => s = Plain
  PROVE  Fits(OpenStep(index, s, OtherKeys(steps, index)), steps)
<1> DEFINE f == OpenStep(index, s, OtherKeys(steps, index))
<1>1. DOMAIN f = StepFormFields
  BY DEF OpenStep, StepFormFields
<1>2. /\ f.index = index /\ f.others = OtherKeys(steps, index) /\ f.isRoot = IsRoot(s) /\ f.key = s.key
      /\ f.after = {k \in f.others : Finished(k) \in s.created} /\ f.also = s.also \cap f.others
      /\ f.qKind = Question(s).kind
  BY DEF OpenStep
<1> HIDE DEF f
<1>3. f.isRoot \in BOOLEAN /\ (f.isRoot => f.key = Root)
  BY <1>2 DEF IsRoot
<1>4. f.isRoot <=> \E i \in f.index : IsRoot(steps[i])
  <2>1. CASE index = {}
    <3>1. Plain.key = ""
      BY DEF Plain
    <3>2. "" # Root
      BY DEF Root
    <3>3. ~IsRoot(s)
      BY <2>1, <3>1, <3>2 DEF IsRoot
    <3> QED BY <1>2, <2>1, <3>3
  <2>2. CASE index # {}
    BY <1>2, <2>2
  <2> QED BY <2>1, <2>2
<1>5. Question(s).kind \in {"None", "YesNo", "Choice"}
  <2>1. CASE s.question = {}
    BY <2>1 DEF Question
  <2>2. CASE s.question # {}
    <3>1. \A q \in s.question : q.kind \in {"YesNo", "Choice"}
      <4>1. CASE index = {}
        <5>1. Plain.question = {}
          BY DEF Plain
        <5> QED BY <4>1, <5>1
      <4>2. CASE index # {}
        <5>1. IsStep(s)
          BY <4>2 DEF IsProgram
        <5> QED BY <5>1 DEF IsStep
      <4> QED BY <4>1, <4>2
    <3> QED BY <2>2, <3>1 DEF Question
  <2> QED BY <2>1, <2>2
<1> QED BY <1>1, <1>2, <1>3, <1>4, <1>5 DEF Fits, f

\* A window fits as long as what ties it to the program stays.
LEMMA StillFits ==
  ASSUME NEW f, NEW g, NEW steps, Fits(f, steps), DOMAIN g = DOMAIN f,
         \A w \in Ties : g[w] = f[w]
  PROVE  Fits(g, steps)
BY DEF Fits, Ties

LEMMA ChangedStillFits ==
  ASSUME NEW f, NEW steps, Fits(f, steps), NEW w, NEW v, w \notin Ties
  PROVE  Fits([f EXCEPT ![w] = v], steps)
<1> DEFINE g == [f EXCEPT ![w] = v]
<1>1. DOMAIN g = DOMAIN f /\ \A x \in Ties : g[x] = f[x]
  BY DEF Fits, Ties, StepFormFields
<1> HIDE DEF g
<1>2. Fits(g, steps)
  BY <1>1, StillFits
<1> QED BY <1>2 DEF g

LEMMA KeyStillFits ==
  ASSUME NEW f, NEW steps, Fits(f, steps), ~f.isRoot, NEW v
  PROVE  Fits([f EXCEPT !["key"] = v], steps)
BY DEF Fits, StepFormFields

LEMMA KindStillFits ==
  ASSUME NEW f, NEW steps, Fits(f, steps), NEW v \in {"None", "YesNo", "Choice"}
  PROVE  Fits([f EXCEPT !["qKind"] = v], steps)
BY DEF Fits, StepFormFields

LEMMA ListStillFits ==
  ASSUME NEW f, NEW steps, Fits(f, steps), NEW list \in {"after", "also"}, NEW k \in f.others
  PROVE  Fits([f EXCEPT ![list] = SymDiff(@, {k})], steps)
<1> DEFINE g == [f EXCEPT ![list] = SymDiff(@, {k})]
<1>1. /\ DOMAIN g = DOMAIN f /\ g.index = f.index /\ g.isRoot = f.isRoot /\ g.others = f.others
      /\ g.key = f.key /\ g.qKind = f.qKind
      /\ g.after = f.after \/ g.after = SymDiff(f.after, {k})
      /\ g.also = f.also \/ g.also = SymDiff(f.also, {k})
  BY DEF Fits, StepFormFields
<1> HIDE DEF g
<1>2. Fits(g, steps)
  BY <1>1 DEF Fits, SymDiff
<1> QED BY <1>2 DEF g

-----------------------------------------------------------------------------
(* A step as the window gives it back.                                       *)

\* The fields of a step as the window holds them; of the root only some.
Gives(f, s) ==
  /\ DOMAIN s = DOMAIN Plain
  /\ s.key = f.key /\ s.title = f.title /\ s.text = f.text /\ s.rules = f.rules
  /\ s.assign = [kind |-> f.assign, uids |-> IF Picking(f) THEN Ticked(f) ELSE {}]
  /\ f.isRoot => s.created = {} /\ s.also = {} /\ s.start = Never /\ s.question = {}
  /\ ~f.isRoot =>
       /\ s.created = Triggers(f) /\ s.also = f.also /\ s.start = StartRule(f) /\ s.once = f.once
       /\ s.question = IF f.qKind = "None" THEN {} ELSE {AskedBy(f)}
       /\ s.counts = f.counts /\ s.fanOut = f.fanOut
       /\ s.autoStart = (f.start # "Manual" /\ f.autoStart)
       /\ s.limit = IF f.limit THEN f.limitAmount ELSE {}

LEMMA StepValuesAre ==
  ASSUME NEW f, f.isRoot \in BOOLEAN
  PROVE  Gives(f, StepValues(f))
<1> DEFINE always == [Plain EXCEPT !.key = f.key, !.title = f.title, !.text = f.text, !.rules = f.rules,
                        !.assign = [kind |-> f.assign, uids |-> IF Picking(f) THEN Ticked(f) ELSE {}]]
           limit == IF f.limit THEN f.limitAmount ELSE {}
           question == IF f.qKind = "None" THEN {} ELSE {AskedBy(f)}
           auto == f.start # "Manual" /\ f.autoStart
           full == [always EXCEPT !.created = Triggers(f), !.once = f.once, !.also = f.also,
                      !.start = StartRule(f), !.autoStart = auto, !.limit = limit, !.counts = f.counts,
                      !.question = question, !.fanOut = f.fanOut]
           common(r) == /\ r.key = f.key /\ r.title = f.title /\ r.text = f.text /\ r.rules = f.rules
                        /\ r.assign = [kind |-> f.assign, uids |-> IF Picking(f) THEN Ticked(f) ELSE {}]
<1>1. /\ DOMAIN always = DOMAIN Plain /\ common(always) /\ always.created = {} /\ always.also = {}
      /\ always.start = Never /\ always.question = {}
  BY DEF Plain
<1> HIDE DEF always
<1> HIDE DEF auto, limit, question
<1>2. /\ DOMAIN full = DOMAIN Plain /\ common(full) /\ full.created = Triggers(f)
      /\ full.also = f.also /\ full.start = StartRule(f) /\ full.question = question /\ full.once = f.once
      /\ full.counts = f.counts /\ full.fanOut = f.fanOut /\ full.autoStart = auto /\ full.limit = limit
  BY <1>1 DEF Plain
<1> HIDE DEF full
<1>3. StepValues(f) = IF f.isRoot THEN always ELSE full
  BY Zenon DEF StepValues, always, full, limit, question, auto
<1>4. CASE f.isRoot
  BY <1>1, <1>3, <1>4 DEF Gives
<1>5. CASE ~f.isRoot
  BY <1>2, <1>3, <1>5 DEF auto, limit, question, Gives
<1> QED BY <1>4, <1>5

\* The window writes a trigger for each thing that is ticked.
LEMMA TriggersAre ==
  ASSUME NEW f, NEW t \in Triggers(f)
  PROVE  /\ t = <<t[1], t[2]>>
         /\ t[1] = "Finished" \/ t \in {<<"WithRoot", "">>, <<"RootStarted", "">>}
         /\ t[1] = "Finished" => t[2] \in f.after
<1>1. CASE t = <<"WithRoot", "">>
  BY <1>1
<1>2. CASE t = <<"RootStarted", "">>
  BY <1>2
<1>3. CASE \E k \in f.after : t = <<"Finished", k>>
  BY <1>3
<1>4. t \in {<<"WithRoot", "">>} \/ t \in {<<"RootStarted", "">>} \/ t \in {Finished(k) : k \in f.after}
  BY Zenon DEF Triggers
<1> QED BY <1>1, <1>2, <1>3, <1>4, Zenon DEF Finished

\* What the window gives back is a step; it waits for steps the window offered.
LEMMA StepValuesShape ==
  ASSUME NEW f, f.isRoot \in BOOLEAN, f.qKind \in {"None", "YesNo", "Choice"}
  PROVE  /\ IsStep(StepValues(f)) /\ StepValues(f).key = f.key
         /\ WaitsFor(StepValues(f)) \subseteq f.after \cup f.also
<1> DEFINE s == StepValues(f)
<1>0. Gives(f, s)
  BY StepValuesAre
<1> HIDE DEF s
<1>1. s.created = {} \/ s.created = Triggers(f)
  BY <1>0 DEF Gives
<1>2. \A t \in s.created :
         /\ t = <<t[1], t[2]>>
         /\ t[1] \in {"Finished", "Answered"} \/ t \in {<<"WithRoot", "">>, <<"RootStarted", "">>}
  BY <1>1, TriggersAre
<1>3. s.assign.kind = "Pick" \/ s.assign.uids = {}
  BY <1>0 DEF Gives, Picking
<1>4. /\ s.start = [kind |-> s.start.kind, n |-> s.start.n]
      /\ s.start.kind \in {"After", "DaysLater"} \/ s.start.n = 0
  BY <1>0 DEF Gives, StartRule, Never
<1>5. \A q \in s.question : f.qKind # "None" /\ ~f.isRoot /\ q = AskedBy(f)
  BY <1>0 DEF Gives
<1>6. \A q \in s.question : /\ q = [text |-> q.text, kind |-> q.kind, answers |-> q.answers, default |-> q.default]
                            /\ q.kind \in {"YesNo", "Choice"} /\ (q.kind = "YesNo" => q.answers = <<>>)
  BY <1>5 DEF AskedBy
<1>7. IsStep(s)
  <2>1. DOMAIN s = DOMAIN Plain
    BY <1>0 DEF Gives
  <2>2. \A p, q \in s.question : p = q
    BY <1>5
  <2> QED BY <1>2, <1>3, <1>4, <1>6, <2>1, <2>2 DEF IsStep
<1>8. WaitsFor(s) \subseteq f.after \cup f.also
  <2>1. s.also \subseteq f.also
    BY <1>0 DEF Gives
  <2>2. ASSUME NEW t \in s.created, t[1] = "Finished" PROVE t[2] \in f.after
    BY <1>1, <2>2, TriggersAre
  <2> QED BY <2>1, <2>2 DEF WaitsFor
<1> QED BY <1>0, <1>7, <1>8 DEF Gives, s

\* The key of a step that is saved is no other step's.
LEMMA KeyIsFree ==
  ASSUME NEW f, NEW steps, IsProgram(steps), Fits(f, steps), ~InvalidStep(f),
         NEW i \in DOMAIN steps, i \notin f.index
  PROVE  steps[i].key # f.key
<1>1. CASE f.isRoot
  BY <1>1 DEF Fits, IsRoot, IsProgram
<1>2. CASE ~f.isRoot
  <2>1. f.key # Root /\ f.key \notin f.others
    BY <1>2 DEF InvalidStep
  <2> QED BY <2>1 DEF Fits, OtherKeys, IsRoot
<1> QED BY <1>1, <1>2 DEF Fits

\* The root is not on offer to wait for.
LEMMA OffersNoRoot ==
  ASSUME NEW f, NEW steps, Fits(f, steps)
  PROVE  Root \notin f.after \cup f.also
BY DEF Fits, OtherKeys, IsRoot

\* A step put at the end of a program, under a key no other has.
LEMMA AppendHolds ==
  ASSUME NEW steps, IsProgram(steps), NEW s, IsStep(s), NEW f, Fits(f, steps), f.index = {},
         ~InvalidStep(f), s.key = f.key, WaitsFor(s) \subseteq f.after \cup f.also,
         NEW gone, RefersWithin(steps, KeysOf(steps) \cup gone)
  PROVE  LET saved == Append(steps, s)
         IN  /\ IsProgram(saved) /\ Len(steps) + 1 \in DOMAIN saved
             /\ RefersWithin(saved, KeysOf(saved) \cup gone)
<1> DEFINE saved == Append(steps, s)
           n == Len(steps)
<1>1. /\ steps \in Seq(ToSet(steps)) /\ DOMAIN steps = 1..n /\ n \in Nat
  BY SeqOfOwn DEF IsProgram
<1>2. saved \in Seq(ToSet(steps) \cup {s})
  BY <1>1
<1>3. /\ DOMAIN saved = 1..(n + 1) /\ saved[n + 1] = s /\ \A i \in 1..n : saved[i] = steps[i]
  BY <1>1, <1>2
<1> HIDE DEF saved
<1>4. saved \in Seq(ToSet(saved))
  BY <1>2, SeqOfOwn
<1>5. \A i \in 1..n : steps[i].key # s.key
  BY <1>1, KeyIsFree
<1>6. \A i \in DOMAIN saved : i \in 1..n \/ i = n + 1
  BY <1>1, <1>3
<1>7. IsProgram(saved)
  <2>1. \A i \in DOMAIN saved : IsStep(saved[i])
    BY <1>1, <1>3, <1>6 DEF IsProgram
  <2>2. \E i \in DOMAIN saved : IsRoot(saved[i])
    BY <1>1, <1>3 DEF IsProgram
  <2>3. \A i, j \in DOMAIN saved : saved[i].key = saved[j].key => i = j
    BY <1>1, <1>3, <1>5, <1>6 DEF IsProgram
  <2>4. \A i \in DOMAIN saved : Root \notin WaitsFor(saved[i])
    BY <1>1, <1>3, <1>6, OffersNoRoot DEF IsProgram
  <2> QED BY <1>4, <2>1, <2>2, <2>3, <2>4 DEF IsProgram
<1>8. KeysOf(steps) \subseteq KeysOf(saved)
  BY <1>1, <1>3 DEF KeysOf
<1>9. f.others \subseteq KeysOf(saved)
  BY <1>8 DEF Fits, OtherKeys, KeysOf
<1>10. RefersWithin(saved, KeysOf(saved) \cup gone)
  <2> SUFFICES ASSUME NEW i \in DOMAIN saved
               PROVE  WaitsFor(saved[i]) \subseteq KeysOf(saved) \cup gone
    BY DEF RefersWithin
  <2>1. CASE i \in 1..n
    BY <1>1, <1>3, <1>8, <2>1 DEF RefersWithin
  <2>2. CASE i = n + 1
    BY <1>3, <1>9, <2>2 DEF Fits
  <2> QED BY <1>6, <2>1, <2>2
<1> QED BY <1>1, <1>3, <1>7, <1>10 DEF saved

\* A step put in the place of another, under its key or one no other has.
LEMMA ReplaceHolds ==
  ASSUME NEW steps, IsProgram(steps), NEW s, IsStep(s), NEW f, Fits(f, steps), f.index # {},
         ~InvalidStep(f), s.key = f.key, WaitsFor(s) \subseteq f.after \cup f.also,
         NEW gone, RefersWithin(steps, KeysOf(steps) \cup gone),
         NEW saved \in [DOMAIN steps -> ToSet(steps) \cup {s}],
         \A i \in f.index : saved[i] = s, \A i \in DOMAIN steps \ f.index : saved[i] = steps[i],
         NEW old, \A i \in f.index : steps[i].key \in old \cup {f.key}
  PROVE  /\ IsProgram(saved) /\ DOMAIN saved = DOMAIN steps
         /\ RefersWithin(saved, KeysOf(saved) \cup (gone \cup old))
<1> DEFINE n == Len(steps)
<1>1. /\ steps \in Seq(ToSet(steps)) /\ DOMAIN steps = 1..n /\ n \in Nat
  BY SeqOfOwn DEF IsProgram
<1>2. PICK x \in DOMAIN steps : f.index = {x}
  BY DEF Fits
<1>3. /\ DOMAIN saved = DOMAIN steps /\ saved[x] = s
      /\ \A i \in DOMAIN steps : i # x => saved[i] = steps[i]
  BY <1>2
<1>4. saved \in [1..n -> ToSet(steps) \cup {s}]
  BY <1>1 DEF ToSet
<1>5. saved \in Seq(ToSet(steps) \cup {s})
  BY <1>1, <1>4
<1>6. saved \in Seq(ToSet(saved))
  BY <1>5, SeqOfOwn
<1>7. \A i \in DOMAIN steps : i # x => steps[i].key # s.key
  BY <1>2, KeyIsFree
<1>8. \E i \in DOMAIN saved : IsRoot(saved[i])
  <2>1. PICK r \in DOMAIN steps : IsRoot(steps[r])
    BY DEF IsProgram
  <2>2. CASE r = x
    BY <1>2, <1>3, <2>1, <2>2 DEF Fits, IsRoot
  <2>3. CASE r # x
    BY <1>3, <2>1, <2>3
  <2> QED BY <2>2, <2>3
<1>9. IsProgram(saved)
  <2>1. \A i \in DOMAIN saved : IsStep(saved[i])
    BY <1>3 DEF IsProgram
  <2>2. \A i, j \in DOMAIN saved : saved[i].key = saved[j].key => i = j
    BY <1>3, <1>7 DEF IsProgram
  <2>3. \A i \in DOMAIN saved : Root \notin WaitsFor(saved[i])
    BY <1>3, OffersNoRoot DEF IsProgram
  <2> QED BY <1>6, <1>8, <2>1, <2>2, <2>3 DEF IsProgram
<1>10. KeysOf(steps) \subseteq KeysOf(saved) \cup old
  <2> SUFFICES ASSUME NEW i \in DOMAIN steps PROVE steps[i].key \in KeysOf(saved) \cup old
    BY DEF KeysOf
  <2>1. CASE i = x
    BY <1>2, <1>3, <2>1 DEF KeysOf
  <2>2. CASE i # x
    BY <1>3, <2>2 DEF KeysOf
  <2> QED BY <2>1, <2>2
<1>11. f.others \subseteq KeysOf(saved)
  BY <1>2, <1>3 DEF Fits, OtherKeys, KeysOf
<1>12. RefersWithin(saved, KeysOf(saved) \cup (gone \cup old))
  <2> SUFFICES ASSUME NEW i \in DOMAIN saved
               PROVE  WaitsFor(saved[i]) \subseteq KeysOf(saved) \cup (gone \cup old)
    BY DEF RefersWithin
  <2>1. CASE i = x
    BY <1>3, <1>11, <2>1 DEF Fits
  <2>2. CASE i # x
    BY <1>3, <1>10, <2>2 DEF RefersWithin
  <2> QED BY <2>1, <2>2
<1> QED BY <1>3, <1>9, <1>12

-----------------------------------------------------------------------------
(* A step taken out, and two that change places.                             *)

\* A step that forgets another is the same but for not waiting for it.
LEMMA ForgetShape ==
  ASSUME NEW s, IsStep(s), NEW gone
  PROVE  /\ IsStep(Forget(s, gone)) /\ Forget(s, gone).key = s.key
         /\ WaitsFor(Forget(s, gone)) \subseteq WaitsFor(s) \ {gone}
<1>1. /\ DOMAIN Forget(s, gone) = DOMAIN Plain /\ Forget(s, gone).key = s.key
      /\ Forget(s, gone).created = s.created \ {Finished(gone)} /\ Forget(s, gone).also = s.also \ {gone}
      /\ Forget(s, gone).assign = s.assign /\ Forget(s, gone).start = s.start
      /\ Forget(s, gone).question = s.question
  BY DEF Forget, IsStep, Plain
<1>2. IsStep(Forget(s, gone))
  BY <1>1 DEF IsStep
<1>3. \A t \in s.created : t[1] = "Finished" /\ t[2] = gone => t = Finished(gone)
  BY DEF IsStep, Finished
<1> QED BY <1>1, <1>2, <1>3 DEF WaitsFor

\* A sequence without one of its elements.
LEMMA RemoveAtShape ==
  ASSUME NEW S, NEW s \in Seq(S), NEW i \in DOMAIN s
  PROVE  LET left == RemoveAt(s, i)
         IN  /\ left \in Seq(S) /\ Len(left) = Len(s) - 1
             /\ \A j \in 1..(Len(s) - 1) : left[j] = s[IF j < i THEN j ELSE j + 1]
<1>1. Len(s) \in Nat /\ DOMAIN s = 1..Len(s) /\ i \in 1..Len(s)
  OBVIOUS
<1>2. SubSeq(s, 1, i - 1) \in Seq(S) /\ SubSeq(s, i + 1, Len(s)) \in Seq(S)
  BY <1>1
<1>3. Len(SubSeq(s, 1, i - 1)) = i - 1 /\ Len(SubSeq(s, i + 1, Len(s))) = Len(s) - i
  BY <1>1
<1> DEFINE a == SubSeq(s, 1, i - 1)
           b == SubSeq(s, i + 1, Len(s))
           left == a \o b
<1>4. \A j \in 1..(i - 1) : a[j] = s[j]
  BY <1>1
<1>5. \A j \in 1..(Len(s) - i) : b[j] = s[i + j]
  BY <1>1
<1> HIDE DEF a, b
<1>6. left \in Seq(S) /\ Len(left) = Len(s) - 1
  <2>1. a \in Seq(S) /\ b \in Seq(S) /\ Len(a) = i - 1 /\ Len(b) = Len(s) - i
    BY <1>2, <1>3 DEF a, b
  <2>2. left \in Seq(S) /\ Len(left) = Len(a) + Len(b)
    BY <2>1, ConcatProperties
  <2> QED BY <1>1, <2>1, <2>2
<1>7. \A j \in 1..(Len(s) - 1) : left[j] = s[IF j < i THEN j ELSE j + 1]
  <2> SUFFICES ASSUME NEW j \in 1..(Len(s) - 1)
               PROVE  left[j] = s[IF j < i THEN j ELSE j + 1]
    OBVIOUS
  <2>0. a \in Seq(S) /\ b \in Seq(S) /\ Len(a) = i - 1 /\ Len(b) = Len(s) - i
    BY <1>2, <1>3 DEF a, b
  <2>1. CASE j < i
    BY <1>1, <1>4, <2>0, <2>1
  <2>2. CASE j >= i
    <3>1. left[j] = b[j - (i - 1)]
      BY <1>1, <2>0, <2>2
    <3>2. j - (i - 1) \in 1..(Len(s) - i) /\ i + (j - (i - 1)) = j + 1
      BY <1>1, <2>2
    <3>3. b[j - (i - 1)] = s[j + 1]
      BY <1>5, <3>2
    <3>4. (IF j < i THEN j ELSE j + 1) = j + 1
      BY <1>1, <2>2
    <3> HIDE DEF left
    <3> QED BY <3>1, <3>3, <3>4
  <2>3. j < i \/ j >= i
    BY <1>1
  <2> HIDE DEF left
  <2> QED BY <2>1, <2>2, <2>3
<1> QED BY <1>6, <1>7 DEF RemoveAt, a, b

\* What is left of a program is one.
LEMMA RemoveHolds ==
  ASSUME NEW steps, IsProgram(steps), NEW at \in DOMAIN steps, ~IsRoot(steps[at]),
         NEW gone, RefersWithin(steps, KeysOf(steps) \cup gone)
  PROVE  LET left == RemoveAt(steps, at)
             rest == [i \in DOMAIN left |-> Forget(left[i], steps[at].key)]
         IN  /\ IsProgram(rest) /\ RefersWithin(rest, KeysOf(rest) \cup gone)
             /\ (IF at > Len(left) THEN Len(left) ELSE at) \in DOMAIN rest
<1> DEFINE left == RemoveAt(steps, at)
           key == steps[at].key
           rest == [i \in DOMAIN left |-> Forget(left[i], key)]
           n == Len(steps)
           from(j) == IF j < at THEN j ELSE j + 1
<1>1. /\ steps \in Seq(ToSet(steps)) /\ DOMAIN steps = 1..n /\ n \in Nat
  BY SeqOfOwn DEF IsProgram
<1>2. /\ left \in Seq(ToSet(steps)) /\ Len(left) = n - 1
      /\ \A j \in 1..(n - 1) : left[j] = steps[from(j)]
  BY <1>1, RemoveAtShape
<1>3. DOMAIN left = 1..(n - 1)
  BY <1>2
<1> HIDE DEF left
<1>4. DOMAIN rest = 1..(n - 1) /\ \A j \in 1..(n - 1) : rest[j] = Forget(steps[from(j)], key)
  BY <1>2, <1>3
<1>5. \A j \in 1..(n - 1) : from(j) \in 1..n /\ from(j) # at
  BY <1>1
<1>6. \A i \in 1..n : i # at => \E j \in 1..(n - 1) : from(j) = i
  <2> SUFFICES ASSUME NEW i \in 1..n, i # at PROVE \E j \in 1..(n - 1) : from(j) = i
    OBVIOUS
  <2>1. CASE i < at
    BY <1>1, <2>1
  <2>2. CASE i > at
    <3>1. i - 1 \in 1..(n - 1) /\ from(i - 1) = i
      BY <1>1, <2>2
    <3> QED BY <3>1
  <2> QED BY <1>1, <2>1, <2>2
<1>7. \A i, j \in 1..(n - 1) : from(i) = from(j) => i = j
  BY <1>1
<1>8. rest \in [1..(n - 1) -> ToSet(rest)]
  BY <1>4 DEF ToSet
<1>9. n - 1 \in Nat
  BY <1>1
<1> HIDE DEF rest, from
<1>10. rest \in Seq(ToSet(rest))
  BY <1>8, <1>9
<1>11. \A j \in DOMAIN rest : /\ IsStep(rest[j]) /\ rest[j].key = steps[from(j)].key
                              /\ WaitsFor(rest[j]) \subseteq WaitsFor(steps[from(j)]) \ {key}
  BY <1>1, <1>4, <1>5, ForgetShape DEF IsProgram
<1>12. \E j \in DOMAIN rest : IsRoot(rest[j])
  <2>1. PICK r \in 1..n : IsRoot(steps[r])
    BY <1>1 DEF IsProgram
  <2>2. PICK j \in 1..(n - 1) : from(j) = r
    BY <1>6, <2>1
  <2> QED BY <1>4, <1>11, <2>1, <2>2 DEF IsRoot
<1>13. \A i, j \in DOMAIN rest : rest[i].key = rest[j].key => i = j
  BY <1>1, <1>4, <1>5, <1>7, <1>11 DEF IsProgram
<1>14. IsProgram(rest)
  <2>1. \A j \in DOMAIN rest : Root \notin WaitsFor(rest[j])
    BY <1>1, <1>4, <1>5, <1>11 DEF IsProgram
  <2> QED BY <1>10, <1>11, <1>12, <1>13, <2>1 DEF IsProgram
<1>15. KeysOf(steps) \subseteq KeysOf(rest) \cup {key}
  <2> SUFFICES ASSUME NEW i \in 1..n PROVE steps[i].key \in KeysOf(rest) \cup {key}
    BY <1>1 DEF KeysOf
  <2>1. CASE i # at
    BY <1>4, <1>6, <1>11, <2>1 DEF KeysOf
  <2> QED BY <2>1
<1>16. RefersWithin(rest, KeysOf(rest) \cup gone)
  <2> SUFFICES ASSUME NEW j \in DOMAIN rest
               PROVE  WaitsFor(rest[j]) \subseteq KeysOf(rest) \cup gone
    BY DEF RefersWithin
  <2>1. WaitsFor(steps[from(j)]) \subseteq KeysOf(steps) \cup gone
    BY <1>1, <1>4, <1>5 DEF RefersWithin
  <2> QED BY <1>11, <1>15, <2>1
<1>17. (IF at > Len(left) THEN Len(left) ELSE at) \in DOMAIN rest
  <2>1. n - 1 >= 1
    BY <1>4, <1>9, <1>12
  <2> QED BY <1>1, <1>2, <1>4, <2>1
<1> QED BY <1>14, <1>16, <1>17 DEF rest, left

\* Two steps that change places.
LEMMA SwapHolds ==
  ASSUME NEW steps, IsProgram(steps), NEW at \in DOMAIN steps, NEW to \in DOMAIN steps,
         NEW keys, RefersWithin(steps, KeysOf(steps) \cup keys)
  PROVE  LET moved == [[steps EXCEPT ![at] = steps[to]] EXCEPT ![to] = steps[at]]
         IN  /\ IsProgram(moved) /\ DOMAIN moved = DOMAIN steps
             /\ RefersWithin(moved, KeysOf(moved) \cup keys)
<1> DEFINE moved == [[steps EXCEPT ![at] = steps[to]] EXCEPT ![to] = steps[at]]
           n == Len(steps)
           from(i) == IF i = to THEN at ELSE IF i = at THEN to ELSE i
<1>1. /\ steps \in Seq(ToSet(steps)) /\ DOMAIN steps = 1..n /\ n \in Nat
  BY SeqOfOwn DEF IsProgram
<1>2. moved \in [1..n -> ToSet(steps)] /\ DOMAIN moved = DOMAIN steps
  BY <1>1 DEF ToSet
<1>3. \A i \in DOMAIN steps : moved[i] = steps[from(i)] /\ from(i) \in DOMAIN steps /\ from(from(i)) = i
  BY <1>1
<1> HIDE DEF moved, from
<1>4. moved \in Seq(ToSet(moved))
  BY <1>1, <1>2, SeqOfOwn
<1>5. IsProgram(moved)
  <2>1. \A i \in DOMAIN moved : IsStep(moved[i])
    BY <1>2, <1>3 DEF IsProgram
  <2>2. \E i \in DOMAIN moved : IsRoot(moved[i])
    BY <1>2, <1>3 DEF IsProgram
  <2>3. \A i, j \in DOMAIN moved : moved[i].key = moved[j].key => i = j
    <3> SUFFICES ASSUME NEW i \in DOMAIN moved, NEW j \in DOMAIN moved, moved[i].key = moved[j].key
                 PROVE  i = j
      OBVIOUS
    <3>1. from(i) = from(j)
      BY <1>2, <1>3 DEF IsProgram
    <3> QED BY <1>2, <1>3, <3>1
  <2>4. \A i \in DOMAIN moved : Root \notin WaitsFor(moved[i])
    BY <1>2, <1>3 DEF IsProgram
  <2> QED BY <1>4, <2>1, <2>2, <2>3, <2>4 DEF IsProgram
<1>6. KeysOf(moved) = KeysOf(steps)
  BY <1>2, <1>3 DEF KeysOf
<1>7. RefersWithin(moved, KeysOf(moved) \cup keys)
  BY <1>2, <1>3, <1>6 DEF RefersWithin
<1> QED BY <1>2, <1>5, <1>7 DEF moved

-----------------------------------------------------------------------------
(* The steps of the editor.                                                  *)

\* The program in the form holds whatever of the form changes besides it.
LEMMA FormStays ==
  ASSUME ProgramHolds, NEW w, w \notin {"steps", "at"}, NEW v, editor' = [editor EXCEPT ![w] = v],
         renamed' = renamed
  PROVE  ProgramHolds' /\ editor'.steps = editor.steps
<1>1. DOMAIN editor' = DOMAIN editor /\ editor'.steps = editor.steps /\ editor'.at = editor.at
  BY DEF ProgramHolds
<1> QED BY <1>1 DEF ProgramHolds, Keys

\* The form after a step was put into it.
LEMMA SetStepHolds ==
  ASSUME ProgramHolds, Fits(step, editor.steps), ~InvalidStep(step),
         editor' = SetStep(editor, step.index, StepValues(step)),
         renamed' = renamed \cup ({editor.steps[i].key : i \in step.index} \ {step.key})
  PROVE  ProgramHolds'
<1> DEFINE s == StepValues(step)
           steps == editor.steps
           old == {steps[i].key : i \in step.index} \ {step.key}
<1>1. IsStep(s) /\ s.key = step.key /\ WaitsFor(s) \subseteq step.after \cup step.also
  BY StepValuesShape DEF Fits
<1>2. IsProgram(steps) /\ RefersWithin(steps, KeysOf(steps) \cup renamed) /\ Fits(step, steps)
  BY DEF ProgramHolds, Keys
<1>3. CASE step.index = {}
  <2>1. /\ editor'.steps = Append(steps, s) /\ editor'.at = Len(steps) + 1
        /\ DOMAIN editor' = DOMAIN editor
    BY <1>3 DEF SetStep, ProgramHolds
  <2> DEFINE saved == Append(steps, s)
  <2>2. /\ IsProgram(saved) /\ Len(steps) + 1 \in DOMAIN saved
        /\ RefersWithin(saved, KeysOf(saved) \cup renamed)
    <3> HIDE DEF s, steps
    <3> QED BY <1>1, <1>2, <1>3, AppendHolds
  <2>3. RefersWithin(editor'.steps, KeysOf(editor'.steps) \cup renamed')
    BY <2>1, <2>2 DEF RefersWithin
  <2> QED BY <2>1, <2>2, <2>3 DEF ProgramHolds, Keys
<1>4. CASE step.index # {}
  <2>1. /\ editor'.steps = [i \in DOMAIN steps |-> IF i \in step.index THEN s ELSE steps[i]]
        /\ editor'.at = editor.at /\ DOMAIN editor' = DOMAIN editor
    BY <1>4 DEF SetStep, ProgramHolds
  <2> DEFINE saved == [i \in DOMAIN steps |-> IF i \in step.index THEN s ELSE steps[i]]
  <2>2. /\ IsProgram(saved) /\ DOMAIN saved = DOMAIN steps
        /\ RefersWithin(saved, KeysOf(saved) \cup (renamed \cup old))
    <3>1. /\ saved \in [DOMAIN steps -> ToSet(steps) \cup {s}]
          /\ \A i \in step.index : saved[i] = s
          /\ \A i \in DOMAIN steps \ step.index : saved[i] = steps[i]
          /\ \A i \in step.index : steps[i].key \in old \cup {step.key}
      BY <1>2 DEF Fits, ToSet
    <3> HIDE DEF s, steps, saved, old
    <3> QED BY <1>1, <1>2, <1>4, <3>1, ReplaceHolds
  <2> QED BY <2>1, <2>2 DEF ProgramHolds, Keys
<1> QED BY <1>3, <1>4

LEMMA RemoveStepHolds ==
  ASSUME ProgramHolds, editor' = RemoveSelected(editor), renamed' = renamed
  PROVE  ProgramHolds'
<1> DEFINE steps == editor.steps
           left == RemoveAt(steps, editor.at)
           rest == [i \in DOMAIN left |-> Forget(left[i], steps[editor.at].key)]
<1>1. CASE IsRoot(steps[editor.at])
  <2>1. /\ DOMAIN editor' = DOMAIN editor /\ editor'.steps = steps /\ editor'.at = editor.at
    BY <1>1 DEF RemoveSelected, ProgramHolds
  <2> QED BY <2>1 DEF ProgramHolds, Keys
<1>2. CASE ~IsRoot(steps[editor.at])
  <2>1. /\ DOMAIN editor' = DOMAIN editor /\ editor'.steps = rest
        /\ editor'.at = IF editor.at > Len(left) THEN Len(left) ELSE editor.at
    BY <1>2 DEF RemoveSelected, ProgramHolds
  <2>2. /\ IsProgram(rest) /\ RefersWithin(rest, KeysOf(rest) \cup renamed)
        /\ (IF editor.at > Len(left) THEN Len(left) ELSE editor.at) \in DOMAIN rest
    BY <1>2, RemoveHolds DEF ProgramHolds, Keys
  <2> HIDE DEF left, rest
  <2> QED BY <2>1, <2>2 DEF ProgramHolds, Keys
<1> QED BY <1>1, <1>2

LEMMA ShiftHolds ==
  ASSUME ProgramHolds, NEW to \in DOMAIN editor.steps, editor' = Shift(editor, to), renamed' = renamed
  PROVE  ProgramHolds'
<1> DEFINE steps == editor.steps
           at == editor.at
           moved == [[steps EXCEPT ![at] = steps[to]] EXCEPT ![to] = steps[at]]
<1>1. /\ DOMAIN editor' = DOMAIN editor /\ editor'.steps = moved /\ editor'.at = to
  BY DEF Shift, ProgramHolds
<1>2. IsProgram(moved) /\ DOMAIN moved = DOMAIN steps /\ RefersWithin(moved, KeysOf(moved) \cup renamed)
  BY SwapHolds DEF ProgramHolds, Keys
<1> QED BY <1>1, <1>2 DEF ProgramHolds, Keys

\* The fields one may type into are none of those a list or the program sets; and
\* the key only of a step that is not the root.
LEMMA ShownTies ==
  ASSUME NEW f, NEW w \in Shown(f)
  PROVE  w \notin Ties \ {"key", "qKind"} /\ (w = "key" => ~f.isRoot)
BY DEF Shown, Ties

LEMMA EditorStarts == EditorInit => EditorInv
<1> SUFFICES ASSUME EditorInit PROVE EditorInv
  OBVIOUS
<1>1. /\ DOMAIN editor = {"steps", "at", "name", "minSamples", "error", "saving"}
      /\ editor.steps = Given /\ editor.at = 1 /\ renamed = {} /\ win \in {"program", "start"}
  BY DEF EditorInit
<1>2. 1 \in DOMAIN Given
  <2>1. DOMAIN Given = 1..Len(Given) /\ Len(Given) \in Nat /\ DOMAIN Given # {}
    BY GivenAssumption, SeqOfOwn DEF IsProgram
  <2> QED BY <2>1
<1>3. RefersWithin(Given, KeysOf(Given) \cup {})
  BY GivenAssumption
<1> QED BY <1>1, <1>2, <1>3, GivenAssumption DEF EditorInv, ProgramHolds, Keys

\* At the form of the program.
LEMMA AtTheProgram ==
  ASSUME EditorInv, TypeProgram \/ Select \/ RemoveStep \/ MoveStep \/ SaveProgram \/ CancelProgram
  PROVE  EditorInv'
<1>0. ProgramHolds /\ win = "program" /\ (win' \in {"program", "none"}) /\ renamed' = renamed
  BY DEF EditorInv, AtProgram, TypeProgram, Select, RemoveStep, MoveStep, SaveProgram, CancelProgram
<1>1. CASE TypeProgram
  BY <1>0, <1>1, FormStays DEF TypeProgram, EditorInv
<1>2. CASE Select
  <2>1. PICK i \in DOMAIN editor.steps : editor' = [editor EXCEPT !.at = i]
    BY <1>2 DEF Select
  <2>2. DOMAIN editor' = DOMAIN editor /\ editor'.steps = editor.steps /\ editor'.at = i
    BY <1>0, <2>1 DEF ProgramHolds
  <2> QED BY <1>0, <2>2 DEF EditorInv, ProgramHolds, Keys
<1>3. CASE RemoveStep
  BY <1>0, <1>3, RemoveStepHolds DEF RemoveStep, EditorInv
<1>4. CASE MoveStep
  BY <1>0, <1>4, ShiftHolds DEF MoveStep, EditorInv
<1>5. CASE SaveProgram
  <2>1. CASE editor' = [editor EXCEPT !.error = TRUE]
    BY <1>0, <2>1, FormStays DEF EditorInv
  <2>2. CASE editor' = [editor EXCEPT !.error = FALSE, !.saving = TRUE]
    <3>1. DOMAIN editor' = DOMAIN editor /\ editor'.steps = editor.steps /\ editor'.at = editor.at
      BY <1>0, <2>2 DEF ProgramHolds
    <3> QED BY <1>0, <3>1 DEF EditorInv, ProgramHolds, Keys
  <2> QED BY <1>5, <2>1, <2>2 DEF SaveProgram
<1>6. CASE CancelProgram
  BY <1>0, <1>6 DEF CancelProgram, EditorInv, ProgramHolds, Keys
<1> QED BY <1>1, <1>2, <1>3, <1>4, <1>5, <1>6

\* A window is opened, on the step that is selected or for a new one.
LEMMA OpeningFits ==
  ASSUME EditorInv, EditStep
  PROVE  EditorInv'
<1>0. ProgramHolds /\ editor' = editor /\ renamed' = renamed
  BY DEF EditorInv, EditStep
<1>1. IsProgram(editor.steps) /\ editor.at \in DOMAIN editor.steps
  BY <1>0 DEF ProgramHolds
<1>2. CASE step' = OpenStep({editor.at}, editor.steps[editor.at], OtherKeys(editor.steps, {editor.at}))
  <2>1. Fits(step', editor.steps)
    BY <1>1, <1>2, OpenFits
  <2> QED BY <1>0, <2>1 DEF EditorInv, ProgramHolds, Keys
<1>3. CASE step' = OpenStep({}, Plain, OtherKeys(editor.steps, {}))
  <2>1. Fits(step', editor.steps)
    BY <1>1, <1>3, OpenFits
  <2> QED BY <1>0, <2>1 DEF EditorInv, ProgramHolds, Keys
<1> QED BY <1>2, <1>3 DEF EditStep

\* In the window of a step and the one of its rules, the program stays.
LEMMA InTheStep ==
  ASSUME EditorInv, TypeStep \/ TickStep \/ EditPrinting \/ TypeRule \/ ChangeRules \/ RulesDone \/ StepMembers
  PROVE  EditorInv'
<1>0. editor' = editor /\ renamed' = renamed /\ ProgramHolds
  BY DEF EditorInv, TypeStep, TickStep, EditPrinting, TypeRule, ChangeRules, RulesDone, StepMembers
<1>1. ProgramHolds'
  BY <1>0 DEF ProgramHolds, Keys
<1>2. win \in {"step", "rules"} => Fits(step, editor.steps)
  BY DEF EditorInv
<1> SUFFICES (win \in {"step", "rules"} => Fits(step, editor.steps))'
  BY <1>1 DEF EditorInv
<1>3. CASE TypeStep
  <2>1. PICK w \in Shown(step) : \E v \in StepInputs(step, w) : step' = [step EXCEPT ![w] = v]
    BY <1>3 DEF TypeStep, Change
  <2>2. PICK v \in StepInputs(step, w) : step' = [step EXCEPT ![w] = v]
    BY <2>1
  <2>3. CASE w = "key"
    BY <1>0, <1>2, <1>3, <2>2, <2>3, ShownTies, KeyStillFits DEF TypeStep
  <2>4. CASE w = "qKind"
    BY <1>0, <1>2, <1>3, <2>2, <2>4, KindStillFits DEF TypeStep, StepInputs
  <2>5. CASE w \notin {"key", "qKind"}
    BY <1>0, <1>2, <1>3, <2>2, <2>5, ShownTies, ChangedStillFits DEF TypeStep
  <2> QED BY <2>3, <2>4, <2>5
<1>4. CASE TickStep
  <2>1. CASE \E i \in DOMAIN step.members : step' = [step EXCEPT !.members[i].on = ~@]
    <3>1. PICK i : step' = [step EXCEPT !.members[i].on = ~@]
      BY <2>1
    <3>2. DOMAIN step' = DOMAIN step /\ \A w \in Ties : step'[w] = step[w]
      BY <1>2, <1>4, <3>1 DEF TickStep, Fits, Ties, StepFormFields
    <3> QED BY <1>0, <1>2, <1>4, <3>2, StillFits DEF TickStep
  <2>2. CASE \E k \in step.others, list \in {"after", "also"} :
               step' = [step EXCEPT ![list] = SymDiff(@, {k})]
    <3>1. PICK k \in step.others, list \in {"after", "also"} :
             step' = [step EXCEPT ![list] = SymDiff(@, {k})]
      BY <2>2
    <3>2. Fits([step EXCEPT ![list] = SymDiff(@, {k})], editor.steps)
      BY <1>2, <1>4, ListStillFits DEF TickStep
    <3> QED BY <1>0, <3>1, <3>2
  <2> QED BY <1>4, <2>1, <2>2 DEF TickStep, Change
<1>5. CASE EditPrinting \/ TypeRule \/ ChangeRules
  <2>1. step' = step /\ win \in {"step", "rules"}
    BY <1>5 DEF EditPrinting, TypeRule, ChangeRules
  <2> QED BY <1>0, <1>2, <2>1
<1>6. CASE RulesDone
  BY <1>0, <1>2, <1>6, ChangedStillFits DEF RulesDone, Ties
<1>7. CASE StepMembers
  <2>1. CASE win = "step"
    <3>1. PICK members : step' = [step EXCEPT !["members"] = members]
      BY <1>7, <2>1 DEF StepMembers, SetMembers
    <3> QED BY <1>0, <1>2, <2>1, <3>1, ChangedStillFits DEF Ties
  <2>2. CASE win # "step"
    BY <1>0, <1>2, <1>7, <2>2 DEF StepMembers
  <2> QED BY <2>1, <2>2
<1> QED BY <1>3, <1>4, <1>5, <1>6, <1>7

\* The window gives the step back, or nothing.
LEMMA LeavingTheStep ==
  ASSUME EditorInv, SaveStep \/ CancelStep
  PROVE  EditorInv'
<1>0. win = "step" /\ ProgramHolds /\ Fits(step, editor.steps)
  BY DEF EditorInv, SaveStep, CancelStep
<1>1. CASE CancelStep
  BY <1>0, <1>1 DEF CancelStep, EditorInv, ProgramHolds, Keys
<1>2. CASE SaveStep /\ InvalidStep(step)
  <2>1. step' = [step EXCEPT !["error"] = TRUE] /\ editor' = editor /\ renamed' = renamed
    BY <1>2 DEF SaveStep
  <2>2. Fits(step', editor.steps)
    BY <1>0, <2>1, ChangedStillFits DEF Ties
  <2> QED BY <1>0, <2>1, <2>2 DEF EditorInv, ProgramHolds, Keys
<1>3. CASE SaveStep /\ ~InvalidStep(step)
  <2>1. ProgramHolds' /\ win' = "program"
    BY <1>0, <1>3, SetStepHolds DEF SaveStep
  <2> QED BY <2>1 DEF EditorInv
<1> QED BY <1>1, <1>2, <1>3

\* The other window, and the answers, leave the steps alone.
LEMMA Elsewhere ==
  ASSUME EditorInv, TypeStart \/ SetStart \/ StartProgram \/ CancelStart \/ ProgramOp \/ Started
  PROVE  EditorInv'
<1>0. renamed' = renamed /\ step' = step /\ ProgramHolds
  BY DEF EditorInv, TypeStart, SetStart, StartProgram, CancelStart, ProgramOp, Started
<1>1. win' = win \/ win' = "none"
  BY DEF TypeStart, SetStart, StartProgram, CancelStart, ProgramOp, Started
<1>2. ProgramHolds' /\ editor'.steps = editor.steps
  <2>1. CASE editor' = editor
    BY <1>0, <2>1 DEF ProgramHolds, Keys
  <2>2. CASE editor' = [editor EXCEPT !.saving = FALSE, !.error = TRUE]
    <3>1. DOMAIN editor' = DOMAIN editor /\ editor'.steps = editor.steps /\ editor'.at = editor.at
      BY <1>0, <2>2 DEF ProgramHolds
    <3> QED BY <1>0, <3>1 DEF ProgramHolds, Keys
  <2> QED BY <2>1, <2>2 DEF TypeStart, SetStart, StartProgram, CancelStart, ProgramOp, Started
<1> QED BY <1>0, <1>1, <1>2 DEF EditorInv

LEMMA EditorKeeps == EditorSpec => []EditorInv
<1>1. EditorInv /\ [EditorNext]_editorVars => EditorInv'
  <2> SUFFICES ASSUME EditorInv, [EditorNext]_editorVars PROVE EditorInv'
    OBVIOUS
  <2>1. CASE EditorNext
    BY <2>1, AtTheProgram, OpeningFits, InTheStep, LeavingTheStep, Elsewhere DEF EditorNext
  <2>2. CASE UNCHANGED editorVars
    BY <2>2 DEF EditorInv, ProgramHolds, Keys, editorVars
  <2> QED BY <2>1, <2>2
<1> QED BY <1>1, EditorStarts, PTL DEF EditorSpec

\* What a step waits for names one step of the program, whatever was added, moved,
\* removed and edited in between (set_step, remove_selected, shift; StepForm::values):
\* but for the keys that steps were given up for others.
THEOREM ReferencesAlwaysHold == EditorSpec => []ReferencesHold
<1>1. EditorInv => ReferencesHold
  BY KeysCount DEF EditorInv, ProgramHolds, ReferencesHold, Keys
<1> QED BY <1>1, EditorKeeps, PTL

-----------------------------------------------------------------------------
(* What nobody touched in the window of a step.                              *)

\* The members of the board, ticked as the step picks them.
MembersOf(uids) == [i \in DOMAIN Membership |-> [uid |-> Membership[i], on |-> Membership[i] \in uids]]

\* A field nobody touched holds what the window was opened with, and the members are
\* ticked as they were once they have come.
Tracks(f, s, t) ==
  /\ f.preselect = s.assign.uids
  /\ \A w \in StepFormFields \ {"members", "error"} :
       Writes(w) \notin t => f[w] = OpenStep(f.index, s, f.others)[w]
  /\ "assign" \notin t => f.members = <<>> \/ f.members = MembersOf(s.assign.uids)

TrackInv ==
  /\ win \in {"step", "rules"} => \A i \in step.index : Tracks(step, editor.steps[i], stepTouched)
  /\ win = "rules" => /\ DOMAIN rules = DOMAIN NoRules
                      /\ \A i \in step.index : "rules" \notin stepTouched => rules.list = editor.steps[i].rules

\* What the window shows of a step when it is opened.
Opens(s, others, o) ==
  /\ o.key = s.key /\ o.title = s.title /\ o.text = s.text /\ o.assign = s.assign.kind
  /\ o.withRoot = (<<"WithRoot", "">> \in s.created)
  /\ o.rootStarted = (<<"RootStarted", "">> \in s.created)
  /\ o.once = s.once /\ o.after = {k \in others : Finished(k) \in s.created} /\ o.also = s.also \cap others
  /\ o.start = s.start.kind /\ o.startAmount = {IF s.start.kind = "After" THEN s.start.n ELSE 0}
  /\ o.startDays = {IF s.start.kind = "DaysLater" THEN s.start.n ELSE 1} /\ o.autoStart = s.autoStart
  /\ o.limit = (s.limit # {}) /\ (s.limit # {} => o.limitAmount = s.limit) /\ o.counts = s.counts
  /\ o.qKind = Question(s).kind /\ o.qText = Question(s).text /\ o.qAnswers = Question(s).answers
  /\ o.qDefault = Question(s).default /\ o.fanOut = s.fanOut /\ o.rules = s.rules

LEMMA OpenStepOpens ==
  ASSUME NEW index, NEW s, NEW others
  PROVE  Opens(s, others, OpenStep(index, s, others))
BY DEF Opens, OpenStep

\* Which field of the step a field of the window writes.
LEMMA WritesAre ==
  /\ \A w \in {"withRoot", "rootStarted", "after"} : Writes(w) = "created"
  /\ \A w \in {"start", "startAmount", "startDays"} : Writes(w) = "start"
  /\ \A w \in {"limit", "limitAmount"} : Writes(w) = "limit"
  /\ \A w \in {"qKind", "qText", "qAnswers", "qDefault"} : Writes(w) = "question"
  /\ \A w \in {"key", "title", "text", "assign", "once", "also", "autoStart", "counts", "fanOut", "rules"} :
       Writes(w) = w
BY DEF Writes

\* On offer to a step are the keys of all others but the root.
LEMMA OthersAre ==
  ASSUME NEW steps, IsProgram(steps), NEW f, Fits(f, steps), NEW i \in f.index
  PROVE  f.others = KeysOf(steps) \ {steps[i].key, Root}
<1>1. f.index = {i} /\ i \in DOMAIN steps /\ f.others = OtherKeys(steps, {i})
  BY DEF Fits
<1>2. \A j \in DOMAIN steps : j \notin {i} <=> steps[j].key # steps[i].key
  BY <1>1 DEF IsProgram
<1>3. \A k : k \in f.others => k \in KeysOf(steps) \ {steps[i].key, Root}
  BY <1>1, <1>2 DEF OtherKeys, KeysOf, IsRoot
<1>4. \A k : k \in KeysOf(steps) \ {steps[i].key, Root} => k \in f.others
  BY <1>1, <1>2 DEF OtherKeys, KeysOf, IsRoot
<1> QED BY <1>3, <1>4

\* Which triggers of a step its window gives back.
Stays(t, s, keys) ==
  t \in s.created /\ t[1] # "Answered" /\ (t[1] = "Finished" => t[2] \in keys \ {s.key})

\* A step that has stayed comes out of the window as it went in, trigger by trigger.
LEMMA TriggersSurvive ==
  ASSUME NEW s, IsStep(s), Root \notin WaitsFor(s), NEW keys, NEW others, others = keys \ {s.key, Root},
         NEW f, f.withRoot = (<<"WithRoot", "">> \in s.created),
         f.rootStarted = (<<"RootStarted", "">> \in s.created),
         f.after = {k \in others : Finished(k) \in s.created}
  PROVE  \A t : t \in Triggers(f) <=> Stays(t, s, keys)
<1>1. ASSUME NEW t \in Triggers(f) PROVE Stays(t, s, keys)
  <2>1. \/ t \in (IF f.withRoot THEN {<<"WithRoot", "">>} ELSE {})
        \/ t \in (IF f.rootStarted THEN {<<"RootStarted", "">>} ELSE {})
        \/ t \in {Finished(k) : k \in f.after}
    BY <1>1, Zenon DEF Triggers
  <2>2. CASE t \in (IF f.withRoot THEN {<<"WithRoot", "">>} ELSE {})
    <3>1. t = <<"WithRoot", "">> /\ t \in s.created
      BY <2>2
    <3> QED BY <3>1 DEF Stays
  <2>3. CASE t \in (IF f.rootStarted THEN {<<"RootStarted", "">>} ELSE {})
    <3>1. t = <<"RootStarted", "">> /\ t \in s.created
      BY <2>3
    <3> QED BY <3>1 DEF Stays
  <2>4. CASE t \in {Finished(k) : k \in f.after}
    <3>1. PICK k \in f.after : t = <<"Finished", k>>
      BY <2>4 DEF Finished
    <3>2. t \in s.created /\ k \in keys \ {s.key}
      BY <3>1 DEF Finished
    <3> QED BY <3>1, <3>2 DEF Stays
  <2> QED BY <2>1, <2>2, <2>3, <2>4
<1>2. ASSUME NEW t, Stays(t, s, keys) PROVE t \in Triggers(f)
  <2>1. t \in s.created /\ t[1] # "Answered" /\ t = <<t[1], t[2]>>
        /\ (t[1] = "Finished" \/ t \in {<<"WithRoot", "">>, <<"RootStarted", "">>})
    BY <1>2 DEF IsStep, Stays
  <2>2. CASE t[1] = "Finished"
    <3>1. t = Finished(t[2]) /\ t[2] \in keys \ {s.key}
      BY <1>2, <2>1, <2>2 DEF Finished, Stays
    <3>2. t[2] \in WaitsFor(s)
      BY <2>1, <2>2 DEF WaitsFor
    <3>3. t[2] \in f.after
      BY <2>1, <3>1, <3>2
    <3> QED BY <3>1, <3>3, Zenon DEF Triggers
  <2>3. CASE t = <<"WithRoot", "">>
    BY <2>1, <2>3, Zenon DEF Triggers
  <2>4. CASE t = <<"RootStarted", "">>
    BY <2>1, <2>4, Zenon DEF Triggers
  <2> QED BY <2>1, <2>2, <2>3, <2>4
<1> QED BY <1>1, <1>2

\* Who was picked is ticked, of those that are members.
LEMMA TickedAre ==
  ASSUME NEW f, NEW uids, f.members = MembersOf(uids)
  PROVE  Ticked(f) = uids \cap ToSet(Membership)
<1>1. DOMAIN f.members = DOMAIN Membership
  BY DEF MembersOf
<1>2. \A i \in DOMAIN Membership : f.members[i].uid = Membership[i] /\ f.members[i].on = (Membership[i] \in uids)
  BY DEF MembersOf
<1>3. ASSUME NEW u \in uids \cap ToSet(Membership) PROVE u \in Ticked(f)
  <2>1. PICK i \in DOMAIN Membership : u = Membership[i]
    BY DEF ToSet
  <2> QED BY <1>1, <1>2, <2>1 DEF Ticked
<1>4. ASSUME NEW u \in Ticked(f) PROVE u \in uids \cap ToSet(Membership)
  <2>1. PICK i \in DOMAIN Membership : u = Membership[i] /\ f.members[i].on
    BY <1>1, <1>2 DEF Ticked
  <2> QED BY <1>2, <2>1 DEF ToSet
<1> QED BY <1>3, <1>4

\* The start, if it and its amounts stayed.
LEMMA StartSurvives ==
  ASSUME NEW s, IsStep(s), NEW f, f.start = s.start.kind,
         f.startAmount = {IF s.start.kind = "After" THEN s.start.n ELSE 0},
         f.startDays = {IF s.start.kind = "DaysLater" THEN s.start.n ELSE 1}
  PROVE  StartRule(f) = s.start
<1>1. s.start = [kind |-> s.start.kind, n |-> s.start.n] /\ (s.start.kind \in {"After", "DaysLater"} \/ s.start.n = 0)
  BY DEF IsStep
<1>2. CASE s.start.kind = "After"
  <2>1. Number(f.startAmount) = s.start.n
    BY <1>2 DEF Number
  <2> QED BY <1>1, <1>2, <2>1 DEF StartRule
<1>3. CASE s.start.kind = "DaysLater"
  <2>1. Number(f.startDays) = s.start.n
    BY <1>3 DEF Number
  <2> QED BY <1>1, <1>3, <2>1 DEF StartRule
<1>4. CASE s.start.kind \notin {"After", "DaysLater"}
  BY <1>1, <1>4 DEF StartRule
<1> QED BY <1>2, <1>3, <1>4

\* The question, if none of its fields was touched.
LEMMA QuestionSurvives ==
  ASSUME NEW s, IsStep(s), NEW f, f.qKind = Question(s).kind, f.qText = Question(s).text,
         f.qAnswers = Question(s).answers, f.qDefault = Question(s).default
  PROVE  (IF f.qKind = "None" THEN {} ELSE {AskedBy(f)}) = s.question
<1>1. CASE s.question = {}
  BY <1>1 DEF Question
<1>2. CASE s.question # {}
  <2>1. PICK q \in s.question : s.question = {q}
    BY <1>2 DEF IsStep
  <2>2. Question(s) = q
    BY <2>1 DEF Question
  <2>3. /\ q = [text |-> q.text, kind |-> q.kind, answers |-> q.answers, default |-> q.default]
        /\ q.kind \in {"YesNo", "Choice"} /\ (q.kind = "YesNo" => q.answers = <<>>)
    BY DEF IsStep
  <2>4. f.qKind = q.kind /\ f.qText = q.text /\ f.qAnswers = q.answers /\ f.qDefault = q.default
    BY <2>2
  <2>5. AskedBy(f) = [text |-> q.text, kind |-> q.kind, default |-> q.default, answers |-> q.answers]
    BY <2>3, <2>4 DEF AskedBy
  <2>6. [text |-> q.text, kind |-> q.kind, default |-> q.default, answers |-> q.answers]
        = [text |-> q.text, kind |-> q.kind, answers |-> q.answers, default |-> q.default]
    OBVIOUS
  <2>7. AskedBy(f) = q
    BY <2>3, <2>5, <2>6
  <2> QED BY <2>1, <2>3, <2>4, <2>7
<1> QED BY <1>1, <1>2

\* A step that stayed is given back as it was, field by field.
LEMMA SavedSurvives ==
  ASSUME ProgramHolds, Fits(step, editor.steps), ~InvalidStep(step), NEW i \in step.index,
         Tracks(step, editor.steps[i], stepTouched),
         NEW field \in Useful(editor.steps[i]) \ Changed
  PROVE  Survives(field, editor.steps[i], StepValues(step)[field])
<1> DEFINE s == editor.steps[i]
           o == OpenStep(step.index, s, step.others)
           v == StepValues(step)
<1>1. /\ i \in DOMAIN editor.steps /\ step.index = {i} /\ IsProgram(editor.steps)
      /\ IsStep(s) /\ Root \notin WaitsFor(s)
  BY DEF ProgramHolds, Fits, IsProgram
<1>2. step.isRoot \in BOOLEAN /\ (step.isRoot <=> IsRoot(s))
  BY <1>1 DEF Fits
<1>3. Gives(step, v)
  BY <1>2, StepValuesAre
<1>4. Opens(s, step.others, o)
  BY OpenStepOpens
<1>5. \A w \in StepFormFields \ {"members", "error"} : Writes(w) \notin stepTouched => step[w] = o[w]
  BY DEF Tracks
<1>6. field \notin stepTouched /\ (field = "autoStart" => "start" \notin stepTouched)
  BY DEF Changed
<1>7. step.others = Keys \ {s.key, Root}
  BY <1>1, OthersAre DEF Keys
<1>8. "assign" \notin stepTouched => step.members = <<>> \/ step.members = MembersOf(s.assign.uids)
  BY DEF Tracks
<1> HIDE DEF o, v
<1> SUFFICES Survives(field, s, v[field])
  BY DEF v
<1>9. CASE field \in {"key", "title", "text", "rules"}
  <2>0. Writes(field) \notin stepTouched
    BY <1>6, <1>9, WritesAre
  <2>1. step[field] = o[field]
    BY <1>5, <1>9, <2>0 DEF StepFormFields
  <2>2. o[field] = s[field]
    BY <1>4, <1>9 DEF Opens
  <2> QED BY <1>3, <1>9, <2>1, <2>2 DEF Survives, Gives
<1>10. CASE field = "assign"
  <2>1. step.assign = s.assign.kind
    BY <1>4, <1>5, <1>6, <1>10, WritesAre DEF StepFormFields, Opens
  <2>2. v.assign.kind = s.assign.kind
        /\ v.assign.uids = IF Picking(step) THEN Ticked(step) ELSE {}
    BY <1>3, <2>1 DEF Gives
  <2>3. CASE Picking(step)
    <3>1. Ticked(step) # {}
      BY <2>3 DEF InvalidStep
    <3>2. step.members # <<>>
      BY <3>1 DEF Ticked
    <3>3. Ticked(step) = s.assign.uids \cap ToSet(Membership)
      BY <1>6, <1>8, <1>10, <3>2, TickedAre
    <3> QED BY <1>10, <2>2, <2>3, <3>3 DEF Survives
  <2>4. CASE ~Picking(step)
    <3>1. s.assign.uids = {}
      BY <1>1, <2>1, <2>4 DEF IsStep, Picking
    <3> QED BY <1>10, <2>2, <2>4, <3>1 DEF Survives
  <2> QED BY <2>3, <2>4
<1>11. ASSUME field \notin {"key", "title", "text", "rules", "assign"} PROVE ~IsRoot(s)
  BY <1>11 DEF Useful
<1>12. CASE field = "created"
  <2>0. step.withRoot = o.withRoot /\ step.rootStarted = o.rootStarted /\ step.after = o.after
    BY <1>5, <1>6, <1>12, WritesAre DEF StepFormFields
  <2>1. /\ step.withRoot = (<<"WithRoot", "">> \in s.created)
        /\ step.rootStarted = (<<"RootStarted", "">> \in s.created)
        /\ step.after = {k \in step.others : Finished(k) \in s.created}
    BY <1>4, <2>0 DEF Opens
  <2>2. Triggers(step) = {t \in s.created : t[1] # "Answered" /\ (t[1] = "Finished" => t[2] \in Keys \ {s.key})}
    <3>1. \A t : t \in Triggers(step) <=> Stays(t, s, Keys)
      <4> HIDE DEF s
      <4> QED BY <1>1, <1>7, <2>1, TriggersSurvive
    <3> QED BY <3>1 DEF Stays
  <2>3. v.created = Triggers(step)
    BY <1>2, <1>3, <1>11, <1>12 DEF Gives
  <2> QED BY <1>12, <2>2, <2>3 DEF Survives
<1>13. CASE field = "also"
  <2>0. step.also = o.also
    BY <1>5, <1>6, <1>13, WritesAre DEF StepFormFields
  <2>1. step.also = s.also \cap step.others
    BY <1>4, <2>0 DEF Opens
  <2>2. Root \notin s.also
    BY <1>1 DEF WaitsFor
  <2>3. v.also = s.also \cap (Keys \ {s.key})
    BY <1>2, <1>3, <1>7, <1>11, <1>13, <2>1, <2>2 DEF Gives
  <2> QED BY <1>13, <2>3 DEF Survives
<1>14. CASE field = "autoStart"
  <2>1. step.autoStart = s.autoStart /\ step.start = s.start.kind
    BY <1>4, <1>5, <1>6, <1>14, WritesAre DEF StepFormFields, Opens
  <2> QED BY <1>2, <1>3, <1>11, <1>14, <2>1 DEF Survives, Gives
<1>15. CASE field = "start"
  <2>0. step.start = o.start /\ step.startAmount = o.startAmount /\ step.startDays = o.startDays
    BY <1>5, <1>6, <1>15, WritesAre DEF StepFormFields
  <2>1. /\ step.start = s.start.kind
        /\ step.startAmount = {IF s.start.kind = "After" THEN s.start.n ELSE 0}
        /\ step.startDays = {IF s.start.kind = "DaysLater" THEN s.start.n ELSE 1}
    BY <1>4, <2>0 DEF Opens
  <2>2. v.start = s.start
    BY <1>1, <1>2, <1>3, <1>11, <1>15, <2>1, StartSurvives DEF Gives
  <2> QED BY <1>15, <2>2 DEF Survives
<1>16. CASE field = "limit"
  <2>1. step.limit = (s.limit # {}) /\ (s.limit # {} => step.limitAmount = s.limit)
    BY <1>4, <1>5, <1>6, <1>16, WritesAre DEF StepFormFields, Opens
  <2>2. v.limit = s.limit
    BY <1>2, <1>3, <1>11, <1>16, <2>1 DEF Gives
  <2> QED BY <1>16, <2>2 DEF Survives
<1>17. CASE field = "question"
  <2>1. /\ step.qKind = Question(s).kind /\ step.qText = Question(s).text
        /\ step.qAnswers = Question(s).answers /\ step.qDefault = Question(s).default
    <3>1. /\ step.qKind = o.qKind /\ step.qText = o.qText
          /\ step.qAnswers = o.qAnswers /\ step.qDefault = o.qDefault
      BY <1>5, <1>6, <1>17, WritesAre DEF StepFormFields
    <3> QED BY <1>4, <3>1 DEF Opens
  <2>2. v.question = s.question
    BY <1>1, <1>2, <1>3, <1>11, <1>17, <2>1, QuestionSurvives DEF Gives
  <2> QED BY <1>17, <2>2 DEF Survives
<1>18. CASE field \in {"once", "counts", "fanOut"}
  <2>0. Writes(field) \notin stepTouched
    BY <1>6, <1>18, WritesAre
  <2>1. step[field] = o[field]
    BY <1>5, <1>18, <2>0 DEF StepFormFields
  <2>2. o[field] = s[field]
    BY <1>4, <1>18 DEF Opens
  <2> QED BY <1>2, <1>3, <1>11, <1>18, <2>1, <2>2 DEF Survives, Gives
<1>19. field \in {"key", "title", "text", "assign", "created", "once", "also", "start", "autoStart",
                  "limit", "counts", "question", "rules", "fanOut"}
  BY DEF Useful, Plain
<1> QED BY <1>9, <1>10, <1>12, <1>13, <1>14, <1>15, <1>16, <1>17, <1>18, <1>19

LEMMA OpenTracks ==
  ASSUME NEW index, NEW s, NEW others
  PROVE  Tracks(OpenStep(index, s, others), s, {})
<1> DEFINE o == OpenStep(index, s, others)
<1>1. o.index = index /\ o.others = others /\ o.preselect = s.assign.uids /\ o.members = <<>>
  BY DEF OpenStep
<1> HIDE DEF o
<1>2. OpenStep(o.index, s, o.others) = o
  BY <1>1 DEF o
<1>3. Tracks(o, s, {})
  BY <1>1, <1>2 DEF Tracks
<1> QED BY <1>3 DEF o

\* The fields that are not typed into.
Fixed == {"index", "others", "preselect", "members"}

\* What was touched may be anything, what was not stays.
LEMMA StillTracks ==
  ASSUME NEW f, NEW s, NEW t, Tracks(f, s, t), NEW g, NEW u, t \subseteq u,
         g.index = f.index, g.others = f.others, g.preselect = f.preselect,
         \A w \in StepFormFields \ {"members", "error"} : Writes(w) \in u \/ g[w] = f[w],
         "assign" \in u \/ g.members = f.members \/ g.members = MembersOf(s.assign.uids)
  PROVE  Tracks(g, s, u)
BY DEF Tracks

LEMMA ChangeTracks ==
  ASSUME NEW f, DOMAIN f = StepFormFields, NEW s, NEW t, Tracks(f, s, t), NEW w, w \notin Fixed, NEW v
  PROVE  Tracks([f EXCEPT ![w] = v], s, t \cup {Writes(w)})
<1> DEFINE g == [f EXCEPT ![w] = v]
<1>1. g.index = f.index /\ g.others = f.others /\ g.preselect = f.preselect /\ g.members = f.members
  BY DEF StepFormFields, Fixed
<1>2. \A x \in StepFormFields : x = w \/ g[x] = f[x]
  OBVIOUS
<1> HIDE DEF g
<1>3. Tracks(g, s, t \cup {Writes(w)})
  BY <1>1, <1>2, StillTracks
<1> QED BY <1>3 DEF g

\* That a save was refused is not a field of the step.
LEMMA ErrorTracks ==
  ASSUME NEW f, DOMAIN f = StepFormFields, NEW s, NEW t, Tracks(f, s, t), NEW v
  PROVE  Tracks([f EXCEPT !["error"] = v], s, t)
<1> DEFINE g == [f EXCEPT !["error"] = v]
<1>1. /\ g.index = f.index /\ g.others = f.others /\ g.preselect = f.preselect /\ g.members = f.members
      /\ \A x \in StepFormFields \ {"members", "error"} : g[x] = f[x]
  BY DEF StepFormFields
<1> HIDE DEF g
<1>2. Tracks(g, s, t)
  BY <1>1, StillTracks
<1> QED BY <1>2 DEF g

\* The members are told, or one of them is ticked.
LEMMA MembersTrack ==
  ASSUME NEW f, DOMAIN f = StepFormFields, NEW s, NEW t, Tracks(f, s, t), NEW v, NEW u, t \subseteq u,
         "assign" \in u \/ v = MembersOf(s.assign.uids)
  PROVE  Tracks([f EXCEPT !["members"] = v], s, u)
<1> DEFINE g == [f EXCEPT !["members"] = v]
<1>1. /\ g.index = f.index /\ g.others = f.others /\ g.preselect = f.preselect /\ g.members = v
      /\ \A x \in StepFormFields \ {"members", "error"} : g[x] = f[x]
  BY DEF StepFormFields
<1> HIDE DEF g
<1>2. Tracks(g, s, u)
  BY <1>1, StillTracks
<1> QED BY <1>2 DEF g

LEMMA RulesTracked ==
  ASSUME NEW f, NEW s, NEW t, Tracks(f, s, t), "rules" \notin t
  PROVE  f.rules = s.rules
<1>1. Writes("rules") = "rules"
  BY WritesAre
<1>2. f["rules"] = OpenStep(f.index, s, f.others)["rules"]
  BY <1>1 DEF Tracks, StepFormFields
<1>3. Opens(s, f.others, OpenStep(f.index, s, f.others))
  BY OpenStepOpens
<1> QED BY <1>2, <1>3 DEF Opens

\* The rules come back from their window.
LEMMA RulesTrack ==
  ASSUME NEW f, DOMAIN f = StepFormFields, NEW s, NEW t, Tracks(f, s, t), NEW v,
         "rules" \in t \/ v = s.rules
  PROVE  Tracks([f EXCEPT !["rules"] = v], s, t)
<1> DEFINE g == [f EXCEPT !["rules"] = v]
<1>1. /\ g.index = f.index /\ g.others = f.others /\ g.preselect = f.preselect /\ g.members = f.members
      /\ g.rules = v /\ \A x \in StepFormFields \ {"rules"} : g[x] = f[x]
  BY DEF StepFormFields
<1>2. "rules" \notin t => f.rules = s.rules
  BY RulesTracked
<1>3. Writes("rules") = "rules"
  BY WritesAre
<1> HIDE DEF g
<1>4. \A x \in StepFormFields \ {"members", "error"} : Writes(x) \in t \/ g[x] = f[x]
  BY <1>1, <1>2, <1>3
<1>5. Tracks(g, s, t)
  BY <1>1, <1>4, StillTracks
<1> QED BY <1>5 DEF g

LEMMA ShownAreTyped ==
  ASSUME NEW f, NEW w \in Shown(f)
  PROVE  w \notin Fixed
BY DEF Shown, Fixed

LEMMA TrackKept ==
  ASSUME EditorInv, TrackInv, EditorNext
  PROVE  TrackInv'
<1>1. win \in {"step", "rules"} => /\ Fits(step, editor.steps) /\ DOMAIN step = StepFormFields
                                   /\ \A i \in step.index : Tracks(step, editor.steps[i], stepTouched)
  BY DEF EditorInv, TrackInv, Fits
<1>2. CASE win' \notin {"step", "rules"}
  BY <1>2 DEF TrackInv
<1>3. CASE EditStep
  <2>1. win' = "step" /\ stepTouched' = {} /\ editor' = editor
    BY <1>3 DEF EditStep
  <2>2. CASE step' = OpenStep({editor.at}, editor.steps[editor.at], OtherKeys(editor.steps, {editor.at}))
    <3>1. step'.index = {editor.at}
      BY <2>2 DEF OpenStep
    <3>2. Tracks(step', editor.steps[editor.at], {})
      BY <2>2, OpenTracks
    <3> QED BY <2>1, <3>1, <3>2 DEF TrackInv
  <2>3. CASE step' = OpenStep({}, Plain, OtherKeys(editor.steps, {}))
    <3>1. step'.index = {}
      BY <2>3 DEF OpenStep
    <3> QED BY <2>1, <3>1 DEF TrackInv
  <2> QED BY <1>3, <2>2, <2>3 DEF EditStep
<1>4. ASSUME win = "step", win' = "step", editor' = editor, step'.index = step.index,
             \A i \in step.index : Tracks(step', editor.steps[i], stepTouched')
      PROVE  TrackInv'
  BY <1>4 DEF TrackInv
<1>5. CASE TypeStep
  <2>1. PICK w \in Shown(step) : \E v \in StepInputs(step, w) : Change([step EXCEPT ![w] = v], w)
    BY <1>5 DEF TypeStep
  <2>2. PICK v : step' = [step EXCEPT ![w] = v]
    BY <2>1 DEF Change
  <2>3. /\ win = "step" /\ win' = "step" /\ editor' = editor /\ w \notin Fixed
        /\ stepTouched' = stepTouched \cup {Writes(w)}
    BY <1>5, <2>1, ShownAreTyped DEF TypeStep, Change
  <2>4. step'.index = step.index
    BY <1>1, <2>2, <2>3 DEF Fixed, StepFormFields
  <2>5. \A i \in step.index : Tracks(step', editor.steps[i], stepTouched')
    BY <1>1, <2>2, <2>3, ChangeTracks
  <2> QED BY <1>4, <2>3, <2>4, <2>5
<1>6. CASE TickStep
  <2>1. win = "step" /\ win' = "step" /\ editor' = editor
    BY <1>6 DEF TickStep
  <2>2. CASE \E i \in DOMAIN step.members : Change([step EXCEPT !.members[i].on = ~@], "assign")
    <3>1. PICK i : step' = [step EXCEPT !.members[i].on = ~@]
      BY <2>2 DEF Change
    <3>2. stepTouched' = stepTouched \cup {"assign"}
      BY <2>2, WritesAre DEF Change
    <3>3. PICK v : step' = [step EXCEPT !["members"] = v]
      BY <3>1
    <3>4. step'.index = step.index
      BY <1>1, <2>1, <3>3 DEF StepFormFields
    <3>5. \A j \in step.index : Tracks(step', editor.steps[j], stepTouched')
      BY <1>1, <2>1, <3>2, <3>3, MembersTrack
    <3> QED BY <1>4, <2>1, <3>4, <3>5
  <2>3. CASE \E k \in step.others, list \in {"after", "also"} :
               Change([step EXCEPT ![list] = SymDiff(@, {k})], list)
    <3>1. PICK k \in step.others, list \in {"after", "also"} :
             Change([step EXCEPT ![list] = SymDiff(@, {k})], list)
      BY <2>3
    <3>2. PICK v : step' = [step EXCEPT ![list] = v]
      BY <3>1 DEF Change
    <3>3. stepTouched' = stepTouched \cup {Writes(list)}
      BY <3>1 DEF Change
    <3>4. step'.index = step.index
      BY <1>1, <2>1, <3>2 DEF StepFormFields
    <3>5. \A i \in step.index : Tracks(step', editor.steps[i], stepTouched')
      BY <1>1, <2>1, <3>2, <3>3, ChangeTracks DEF Fixed
    <3> QED BY <1>4, <2>1, <3>4, <3>5
  <2> QED BY <1>6, <2>2, <2>3 DEF TickStep
<1>7. CASE SaveStep /\ win' = "step"
  <2>1. step' = [step EXCEPT !["error"] = TRUE] /\ editor' = editor /\ stepTouched' = stepTouched /\ win = "step"
    BY <1>7 DEF SaveStep
  <2>2. step'.index = step.index
    BY <1>1, <2>1 DEF StepFormFields
  <2>3. \A i \in step.index : Tracks(step', editor.steps[i], stepTouched')
    BY <1>1, <2>1, ErrorTracks
  <2> QED BY <1>4, <1>7, <2>1, <2>2, <2>3
<1>8. CASE EditPrinting
  <2>1. /\ win = "step" /\ step' = step /\ editor' = editor /\ stepTouched' = stepTouched
        /\ DOMAIN rules' = DOMAIN NoRules /\ rules'.list = step.rules
    BY <1>8 DEF EditPrinting, NoRules
  <2>2. \A i \in step.index : "rules" \notin stepTouched => step.rules = editor.steps[i].rules
    BY <1>1, <2>1, RulesTracked
  <2> QED BY <1>1, <2>1, <2>2 DEF TrackInv
<1>9. CASE TypeRule
  <2>1. /\ win = "rules" /\ step' = step /\ editor' = editor /\ stepTouched' = stepTouched
        /\ win' = win /\ DOMAIN rules = DOMAIN NoRules
    BY <1>9 DEF TypeRule, TrackInv
  <2>2. DOMAIN rules' = DOMAIN rules /\ rules'.list = rules.list
    BY <1>9, <2>1 DEF TypeRule, NoRules
  <2> QED BY <1>1, <2>1, <2>2 DEF TrackInv
<1>10. CASE ChangeRules
  <2>1. /\ win = "rules" /\ step' = step /\ editor' = editor /\ stepTouched' = stepTouched \cup {"rules"}
        /\ win' = win /\ DOMAIN rules = DOMAIN NoRules
    BY <1>10 DEF ChangeRules, TrackInv
  <2>2. DOMAIN rules' = DOMAIN rules
    BY <1>10, <2>1 DEF ChangeRules, AddRule
  <2>3. \A i \in step.index : Tracks(step, editor.steps[i], stepTouched \cup {"rules"})
    BY <1>1, <2>1, StillTracks
  <2> QED BY <2>1, <2>2, <2>3 DEF TrackInv
<1>11. CASE RulesDone
  <2>1. /\ win = "rules" /\ win' = "step" /\ editor' = editor /\ stepTouched' = stepTouched
        /\ step' = [step EXCEPT !["rules"] = rules.list]
    BY <1>11 DEF RulesDone
  <2>2. step'.index = step.index
    BY <1>1, <2>1 DEF StepFormFields
  <2>3. \A i \in step.index : "rules" \notin stepTouched => rules.list = editor.steps[i].rules
    BY <2>1 DEF TrackInv
  <2>4. \A i \in step.index : Tracks(step', editor.steps[i], stepTouched')
    BY <1>1, <2>1, <2>3, RulesTrack
  <2> QED BY <2>1, <2>2, <2>4 DEF TrackInv
<1>12. CASE StepMembers
  <2>1. editor' = editor /\ win' = win /\ rules' = rules /\ stepTouched' = stepTouched
    BY <1>12 DEF StepMembers
  <2>2. CASE win = "step"
    <3>1. step' = [step EXCEPT !["members"] = MembersOf(step.preselect)]
      BY <1>12, <2>2 DEF StepMembers, SetMembers, MembersOf
    <3>2. step'.index = step.index
      BY <1>1, <2>2, <3>1 DEF StepFormFields
    <3>3. \A i \in step.index : step.preselect = editor.steps[i].assign.uids
      BY <1>1, <2>2 DEF Tracks
    <3>4. \A i \in step.index : Tracks(step', editor.steps[i], stepTouched')
      BY <1>1, <2>1, <2>2, <3>1, <3>3, MembersTrack
    <3> QED BY <1>4, <2>1, <2>2, <3>2, <3>4
  <2>3. CASE win # "step"
    <3>1. step' = step
      BY <1>12, <2>3 DEF StepMembers
    <3> QED BY <2>1, <3>1 DEF TrackInv
  <2> QED BY <2>2, <2>3
<1>13. CASE TypeProgram \/ Select \/ RemoveStep \/ MoveStep \/ SaveProgram \/ CancelProgram \/ CancelStep
            \/ TypeStart \/ SetStart \/ StartProgram \/ CancelStart
  BY <1>2, <1>13 DEF TypeProgram, Select, RemoveStep, MoveStep, SaveProgram, CancelProgram, CancelStep,
       TypeStart, SetStart, StartProgram, CancelStart, AtProgram, AtStart
<1>14. CASE ProgramOp \/ Started
  <2>1. CASE win' = win
    <3>1. step' = step /\ rules' = rules /\ stepTouched' = stepTouched /\ editor'.steps = editor.steps
      BY <1>14 DEF ProgramOp, Started, EditorInv, ProgramHolds
    <3> QED BY <2>1, <3>1 DEF TrackInv
  <2>2. CASE win' = "none"
    BY <1>2, <2>2
  <2> QED BY <1>14, <2>1, <2>2 DEF ProgramOp, Started
<1>15. SaveStep => win' \in {"step", "program"}
  BY DEF SaveStep
<1> QED BY <1>2, <1>3, <1>5, <1>6, <1>7, <1>8, <1>9, <1>10, <1>11, <1>12, <1>13, <1>14, <1>15 DEF EditorNext

\* A step that goes through its window keeps every field nobody touched there
\* (StepForm::new, handle, values; PrintRulesForm; set_members), whatever the program is,
\* whoever is a member and whenever the answers come.
THEOREM UntouchedStepAlwaysSurvives == EditorSpec => UntouchedStepSurvives
<1>1. EditorInit => TrackInv
  BY DEF EditorInit, TrackInv
<1>2. EditorInv /\ TrackInv /\ [EditorNext]_editorVars => TrackInv'
  <2> SUFFICES ASSUME EditorInv, TrackInv, [EditorNext]_editorVars PROVE TrackInv'
    OBVIOUS
  <2>1. CASE UNCHANGED editorVars
    BY <2>1 DEF TrackInv, editorVars
  <2> QED BY <2>1, TrackKept
<1>3. ASSUME EditorInv, TrackInv, EditorNext, win = "step", win' = "program",
             NEW i \in step.index, NEW field \in Useful(editor.steps[i]) \ Changed
      PROVE  \/ Survives(field, editor.steps[i], editor'.steps[i][field])
             \/ editor'.steps[i] = editor.steps[i]
  <2>1. SaveStep \/ editor' = editor
    BY <1>3 DEF EditorNext, TypeProgram, Select, RemoveStep, MoveStep, EditStep, SaveProgram, CancelProgram,
         TypeStep, TickStep, CancelStep, EditPrinting, TypeRule, ChangeRules, RulesDone, TypeStart, SetStart,
         StartProgram, CancelStart, StepMembers, ProgramOp, Started, AtProgram, AtStart
  <2>2. CASE SaveStep /\ editor' # editor
    <3>1. ~InvalidStep(step) /\ editor' = SetStep(editor, step.index, StepValues(step))
      BY <2>2 DEF SaveStep
    <3>2. ProgramHolds /\ Fits(step, editor.steps) /\ Tracks(step, editor.steps[i], stepTouched)
      BY <1>3 DEF EditorInv, TrackInv
    <3>3. editor'.steps[i] = StepValues(step)
      BY <1>3, <3>1, <3>2 DEF SetStep, ProgramHolds, Fits
    <3> QED BY <1>3, <3>1, <3>2, <3>3, SavedSurvives
  <2> QED BY <2>1, <2>2
<1>4. EditorInv /\ TrackInv /\ [EditorNext]_editorVars
      => [win = "step" /\ win' = "program" =>
            \A i \in step.index : \A field \in Useful(editor.steps[i]) \ Changed :
              Survives(field, editor.steps[i], editor'.steps[i][field])
              \/ editor'.steps[i] = editor.steps[i]]_editorVars
  BY <1>3
<1> QED BY <1>1, <1>2, <1>4, EditorKeeps, PTL DEF EditorSpec, UntouchedStepSurvives

-----------------------------------------------------------------------------
Queues == DOMAIN Media \cup {NoQueue, BadQueue}
Rolls == {58, 80, 0}
Readings == {{n} : n \in Int}
PrinterForms ==
  [queue : Queues, queueText : Queues, paper : Rolls, mm : Readings, words : [Kinds -> Words],
   kind : Kinds, text : Words, focus : Foci, panel : {"Main", "Advanced", "Slip"},
   byHand : BOOLEAN, error : BOOLEAN]
PrinterMeanings == [queue : Queues, paper : Rolls, mm : Readings, words : [Kinds -> Words]]

\* A printer form f that holds what was meant, m, where j says that a refused save
\* has opened the advanced panel on another queue. The panels have texts of their
\* own: while the slip panel is open its text is that of the kind it shows.
HoldsMeant(f, m, j) ==
  /\ f \in PrinterForms /\ m \in PrinterMeanings /\ j \in BOOLEAN
  /\ f.words = m.words /\ f.paper = m.paper /\ f.mm = m.mm
  /\ j \/ f.queue = m.queue
  /\ f.panel # "Advanced" \/ j \/ f.queueText = f.queue
  /\ f.queue = BadQueue => f.queueText = BadQueue
  /\ j => f.byHand
  /\ f.byHand \/ f.paper # 0 \/ f.mm \subseteq Widths
  /\ f.panel = "Slip" => f.text = f.words[f.kind]

ProfileKnown == profile = {} \/ \E p : IsProfile(p) /\ profile = {p}

PrinterInv == HoldsMeant(printer, meant, jumped) /\ ProfileKnown

LEMMA NewHolds ==
  ASSUME NEW p, p = {} \/ \E x : IsProfile(x) /\ p = {x}
  PROVE  HoldsMeant(NewPrinter(p), MeantBy(NewPrinter(p)), FALSE)
<1> DEFINE d == IF p = {} THEN [queue |-> NoQueue, paper |-> 80, mm |-> {72}, words |-> [k \in Kinds |-> NoWords]]
                ELSE CHOOSE x \in p : TRUE
           f == NewPrinter(p)
           m == MeantBy(f)
<1>1. d \in PrinterMeanings /\ (d.paper # 0 \/ d.mm \subseteq Widths) /\ d.queue # BadQueue
  <2>1. CASE p = {}
    <3> DEFINE words == [k \in Kinds |-> NoWords]
    <3>1. words \in [Kinds -> Words]
      BY SettingsAssumption
    <3>2. {72} \in Readings
      BY DEF Readings
    <3> HIDE DEF words
    <3>3. d = [queue |-> NoQueue, paper |-> 80, mm |-> {72}, words |-> words]
      BY <2>1 DEF words
    <3> HIDE DEF d
    <3>4. NoQueue # BadQueue /\ NoQueue \in Queues /\ 80 \in Rolls
      BY DEF Queues, Rolls, NoQueue, BadQueue
    <3> QED BY <3>1, <3>2, <3>3, <3>4 DEF PrinterMeanings
  <2>2. CASE p # {}
    <3>1. PICK x : IsProfile(x) /\ p = {x}
      BY <2>2
    <3>2. d = x
      BY <3>1
    <3>3. x.mm \in Readings
      <4>1. PICK n \in x.mm : TRUE
        BY <3>1 DEF IsProfile
      <4>2. x.mm = {n} /\ n \in Int
        BY <3>1, <4>1 DEF IsProfile, AtMostOne, Widths, MinCustom, MaxCustom
      <4> QED BY <4>2 DEF Readings
    <3>4. x.queue \in DOMAIN Media /\ x.paper \in Rolls /\ x.words \in [Kinds -> Words] /\ x.mm \subseteq Widths
      BY <3>1 DEF IsProfile, Rolls
    <3>5. x = [queue |-> x.queue, paper |-> x.paper, mm |-> x.mm, words |-> x.words]
      BY <3>1 DEF IsProfile
    <3>6. x \in PrinterMeanings
      BY <3>3, <3>4, <3>5 DEF PrinterMeanings, Queues
    <3> QED BY <3>2, <3>4, <3>6, SettingsAssumption
  <2> QED BY <2>1, <2>2
<1>2. f = [queue |-> d.queue, queueText |-> d.queue, paper |-> d.paper, mm |-> d.mm, words |-> d.words,
           kind |-> "task", text |-> NoWords, focus |-> "Grid", panel |-> "Main",
           byHand |-> FALSE, error |-> FALSE]
  BY DEF NewPrinter
<1> HIDE DEF d, f
<1>3. f \in PrinterForms
  <2>1. "task" \in Kinds /\ "Grid" \in Foci
    BY DEF Kinds, Foci
  <2> QED BY SettingsAssumption, <1>1, <1>2, <2>1 DEF PrinterForms, PrinterMeanings
<1>4. m \in PrinterMeanings
  BY <1>3 DEF PrinterForms, PrinterMeanings, MeantBy
<1> HIDE DEF m
<1>5. m = [queue |-> f.queue, paper |-> f.paper, mm |-> f.mm, words |-> f.words]
  BY DEF m, MeantBy
<1>6. HoldsMeant(f, m, FALSE)
  BY <1>1, <1>2, <1>3, <1>4, <1>5 DEF HoldsMeant
<1> QED BY <1>6 DEF f, m

\* An answer about paper changes what is meant only if the form takes it.
LEMMA MediaHolds ==
  ASSUME NEW f, NEW m, NEW j, NEW q \in DOMAIN Media, HoldsMeant(f, m, j)
  PROVE  LET g == SetMedia(f, q)
         IN  HoldsMeant(g, IF q = m.queue /\ ~f.byHand
                      THEN [m EXCEPT !.paper = g.paper, !.mm = g.mm] ELSE m, j)
<1> DEFINE g == SetMedia(f, q)
           n == IF q = m.queue /\ ~f.byHand THEN [m EXCEPT !.paper = g.paper, !.mm = g.mm] ELSE m
<1>1. CASE q # f.queue \/ f.byHand \/ Media[q] \cap Widths = {}
  <2>1. g = f
    BY <1>1 DEF SetMedia
  <2>2. n = m
    BY <2>1 DEF HoldsMeant, PrinterMeanings
  <2> QED BY <2>1, <2>2
<1>2. CASE q = f.queue /\ ~f.byHand /\ Media[q] \cap Widths # {}
  <2>1. q = m.queue /\ ~j
    BY <1>2 DEF HoldsMeant
  <2>2. PICK w \in Widths : (CHOOSE x \in Media[q] : TRUE) = w /\ g = SetPaper(f, w)
    <3>1. PICK w \in Widths : w \in Media[q]
      BY <1>2
    <3>2. (CHOOSE x \in Media[q] : TRUE) = w
      BY <3>1, SettingsAssumption DEF AtMostOne
    <3> QED BY <1>2, <3>1, <3>2 DEF SetMedia
  <2> DEFINE k == PaperFor(w)
             u == IF PaperFor(w) = 0 THEN {w} ELSE Printable(PaperFor(w))
  <2>3. k \in Rolls /\ u \in Readings /\ (k # 0 \/ u \subseteq Widths)
    <3>1. k \in Rolls
      BY DEF PaperFor, Rolls
    <3>2. CASE k = 0
      BY <3>1, <3>2 DEF Readings, Widths
    <3>3. CASE k # 0
      <4>1. u \in {{48}, {72}}
        BY <3>1, <3>3 DEF Printable, Rolls
      <4> QED BY <3>1, <3>3, <4>1 DEF Readings
    <3> QED BY <3>1, <3>2, <3>3
  <2>4. g = [f EXCEPT !.paper = k, !.mm = u]
    BY <2>2 DEF SetPaper
  <2> HIDE DEF k, u
  <2>5. n = [m EXCEPT !.paper = k, !.mm = u]
    BY <1>2, <2>1, <2>4 DEF HoldsMeant, PrinterForms
  <2> HIDE DEF g, n
  <2>6. g \in PrinterForms /\ n \in PrinterMeanings
    BY <2>3, <2>4, <2>5 DEF HoldsMeant, PrinterForms, PrinterMeanings
  <2>7. HoldsMeant(g, n, j)
    BY <2>1, <2>3, <2>4, <2>5, <2>6 DEF HoldsMeant, PrinterForms, PrinterMeanings
  <2> QED BY <2>7 DEF g, n
<1> QED BY <1>1, <1>2

LEMMA AdvancedHolds ==
  ASSUME NEW f, NEW m, NEW j, HoldsMeant(f, m, j)
  PROVE  HoldsMeant(OpenAdvanced(f), m, j)
BY DEF HoldsMeant, PrinterForms, OpenAdvanced

\* Storing the text of the slip panel changes nothing, since it is what is stored.
LEMMA StoreIsIdle ==
  ASSUME NEW f \in PrinterForms, f.text = f.words[f.kind]
  PROVE  StoreSlipText(f) = f
<1>1. [f.words EXCEPT ![f.kind] = f.text] = f.words
  BY DEF PrinterForms
<1> QED BY <1>1 DEF StoreSlipText, PrinterForms

LEMMA FocusHolds ==
  ASSUME NEW f, NEW m, NEW j, NEW to \in Foci, HoldsMeant(f, m, j), f.panel = "Slip"
  PROVE  /\ HoldsMeant(SetSlipFocus(f, to), m, j)
         /\ SetSlipFocus(f, to).panel = "Slip"
<1>1. f.text = f.words[f.kind] /\ StoreSlipText(f) = f
  BY StoreIsIdle DEF HoldsMeant
<1> DEFINE moved == [f EXCEPT !.focus = to]
<1>2. HoldsMeant(moved, m, j) /\ moved.panel = "Slip" /\ moved.text = moved.words[moved.kind]
  BY <1>1 DEF HoldsMeant, PrinterForms
<1>3. SyncSlipText(moved) = moved
  BY <1>2 DEF SyncSlipText, HoldsMeant, PrinterForms
<1> QED BY <1>1, <1>2, <1>3 DEF SetSlipFocus

LEMMA SwitchHolds ==
  ASSUME NEW f, NEW m, NEW j, HoldsMeant(f, m, j), f.panel = "Slip"
  PROVE  HoldsMeant(SwitchSlipKind(f), m, j)
<1>1. StoreSlipText(f) = f
  BY StoreIsIdle DEF HoldsMeant
<1>2. Other(f.kind) \in Kinds
  BY DEF Other, Kinds
<1> DEFINE o == Other(f.kind)
           g == [f EXCEPT !.kind = o]
<1>3. SwitchSlipKind(f) = [g EXCEPT !.text = g.words[g.kind]]
  BY <1>1 DEF SwitchSlipKind, SyncSlipText, HoldsMeant, PrinterForms
<1> HIDE DEF o
<1> QED BY <1>2, <1>3 DEF HoldsMeant, PrinterForms, o

LEMMA SlipHolds ==
  ASSUME NEW f, NEW m, NEW j, HoldsMeant(f, m, j)
  PROVE  HoldsMeant(OpenSlip(f), m, j)
<1> DEFINE g == SyncSlipText([f EXCEPT !.panel = "Slip"])
           h == SetSlipFocus(g, "Grid")
<1>1. HoldsMeant(g, m, j) /\ g.panel = "Slip"
  BY DEF HoldsMeant, PrinterForms, SyncSlipText
<1> HIDE DEF g
<1> HIDE DEF h
<1>2. HoldsMeant(h, m, j)
  <2>1. HoldsMeant(SetSlipFocus(g, "Grid"), m, j)
    BY <1>1, FocusHolds DEF Foci
  <2> QED BY <2>1 DEF h
<1>3. OpenSlip(f) = [h EXCEPT !.error = FALSE]
  BY DEF OpenSlip, g, h
<1> QED BY <1>2, <1>3 DEF HoldsMeant, PrinterForms

LEMMA CloseHolds ==
  ASSUME NEW f, NEW m, NEW j, HoldsMeant(f, m, j)
  PROVE  HoldsMeant(ClosePanel(f), m, j)
<1>1. CASE f.panel = "Advanced"
  BY <1>1 DEF HoldsMeant, PrinterForms, ClosePanel, SyncTypedQueue
<1>2. CASE f.panel = "Slip"
  <2>1. ClosePanel(f) = [f EXCEPT !.panel = "Main", !.error = FALSE]
    BY <1>2, StoreIsIdle DEF HoldsMeant, ClosePanel
  <2> QED BY <2>1 DEF HoldsMeant, PrinterForms
<1>3. CASE f.panel = "Main"
  BY <1>3 DEF HoldsMeant, PrinterForms, ClosePanel
<1> QED BY <1>1, <1>2, <1>3 DEF HoldsMeant, PrinterForms

-----------------------------------------------------------------------------
\* The steps that leave the panels alone, which all have a window of their own.
LEMMA PrinterIdle ==
  ASSUME PrinterInv, UNCHANGED <<profile, printer, meant, jumped>>
  PROVE  PrinterInv'
BY DEF PrinterInv, ProfileKnown

LEMMA PrinterLeft ==
  ASSUME Left
  PROVE  HoldsMeant(printer, meant, jumped)'
<1>1. HoldsMeant(NewPrinter({}), MeantBy(NewPrinter({})), FALSE)
  BY NewHolds
<1> QED BY <1>1 DEF Left

LEMMA PrinterKept ==
  ASSUME PrinterInv, [SettingsNext]_settingsVars, asking \subseteq DOMAIN Media
  PROVE  PrinterInv'
<1> USE DEF ProfileKnown
<1>0. HoldsMeant(printer, meant, jumped) /\ ProfileKnown
  BY DEF PrinterInv
<1>1. CASE UNCHANGED settingsVars
  BY <1>1, PrinterIdle DEF settingsVars
<1>2. CASE SaveSettings \/ OpenSettings \/ TypeSettings \/ CancelSettings \/ SaveAnswered \/ PrefsChanged
           \/ EditColors \/ TypeColors \/ LeaveColors
  BY <1>2, PrinterIdle DEF SaveSettings, OpenSettings, TypeSettings, CancelSettings, SaveAnswered,
     PrefsChanged, EditColors, TypeColors, LeaveColors
<1>3. CASE OpenPrinter
  <2>1. HoldsMeant(NewPrinter(profile), MeantBy(NewPrinter(profile)), FALSE)
    BY <1>0, NewHolds
  <2> QED BY <1>0, <1>3, <2>1 DEF OpenPrinter, PrinterInv
<1>4. CASE PickQueue
  <2>1. PICK q \in DOMAIN Media \cup {NoQueue} :
          printer' = [printer EXCEPT !.queue = q] /\ meant' = [meant EXCEPT !.queue = q]
    BY <1>4 DEF PickQueue
  <2>2. q # BadQueue /\ q \in Queues
    BY SettingsAssumption DEF Queues, NoQueue, BadQueue
  <2>3. printer.panel = "Main" /\ UNCHANGED <<profile, jumped>>
    BY <1>4 DEF PickQueue
  <2> QED BY <1>0, <2>1, <2>2, <2>3 DEF PrinterInv, HoldsMeant, PrinterForms, PrinterMeanings
<1>5. CASE TypeAdvanced
  <2>0. printer.panel = "Advanced" /\ UNCHANGED <<profile, jumped>>
    BY <1>5 DEF TypeAdvanced
  <2>1. CASE \E q \in DOMAIN Media \cup {NoQueue, BadQueue} :
               /\ printer' = SyncTypedQueue([printer EXCEPT !.queueText = q])
               /\ meant' = [meant EXCEPT !.queue = q]
    <3>1. PICK q \in DOMAIN Media \cup {NoQueue, BadQueue} :
            /\ printer' = SyncTypedQueue([printer EXCEPT !.queueText = q])
            /\ meant' = [meant EXCEPT !.queue = q]
      BY <2>1
    <3>2. q \in Queues
      BY DEF Queues
    <3>3. printer' = [printer EXCEPT !.queueText = q, !.queue = q]
      BY <1>0, <3>1 DEF SyncTypedQueue, HoldsMeant, PrinterForms
    <3> QED BY <1>0, <2>0, <3>1, <3>2, <3>3 DEF PrinterInv, HoldsMeant, PrinterForms, PrinterMeanings
  <2>2. CASE \E k \in {58, 80, 0}, w \in {printer.mm, {60}, Illegible} :
          /\ w # printer.mm => printer.paper = 0 /\ k = 0
          /\ printer' = [SyncTypedQueue(printer) EXCEPT !.paper = k, !.mm = w,
                           !.byHand = @ \/ <<k, w>> # <<printer.paper, printer.mm>>]
          /\ meant' = [meant EXCEPT !.paper = printer'.paper, !.mm = printer'.mm]
    <3>1. PICK k \in {58, 80, 0}, w \in {printer.mm, {60}, Illegible} :
            /\ w # printer.mm => printer.paper = 0 /\ k = 0
            /\ printer' = [SyncTypedQueue(printer) EXCEPT !.paper = k, !.mm = w,
                             !.byHand = @ \/ <<k, w>> # <<printer.paper, printer.mm>>]
            /\ meant' = [meant EXCEPT !.paper = printer'.paper, !.mm = printer'.mm]
      BY <2>2, Zenon
    <3> DEFINE b == printer.byHand \/ <<k, w>> # <<printer.paper, printer.mm>>
    <3>2. w \in Readings /\ k \in Rolls
      BY <1>0 DEF Illegible, Readings, Rolls, HoldsMeant, PrinterForms
    <3>3. printer' = [printer EXCEPT !.queue = printer.queueText, !.paper = k, !.mm = w, !.byHand = b]
      BY <1>0, <3>1 DEF SyncTypedQueue, HoldsMeant, PrinterForms
    <3>4. meant' = [meant EXCEPT !.paper = k, !.mm = w]
      BY <1>0, <3>1, <3>3 DEF HoldsMeant, PrinterForms
    <3>5. b \in BOOLEAN /\ (printer.byHand => b) /\ (b \/ (k = printer.paper /\ w = printer.mm))
      BY <1>0 DEF HoldsMeant, PrinterForms
    <3> HIDE DEF b
    <3> QED BY <1>0, <2>0, <3>2, <3>3, <3>4, <3>5 DEF PrinterInv, HoldsMeant, PrinterForms, PrinterMeanings
  <2> QED BY <1>5, <2>1, <2>2 DEF TypeAdvanced
<1>6. CASE TypeWords
  <2>1. PICK w \in Words : /\ printer' = StoreSlipText([printer EXCEPT !.text = w])
                           /\ meant' = [meant EXCEPT !.words[printer.kind] = w]
    BY <1>6 DEF TypeWords
  <2> DEFINE words == [printer.words EXCEPT ![printer.kind] = w]
  <2>2. printer' = [printer EXCEPT !.text = w, !.words = words] /\ meant' = [meant EXCEPT !.words = words]
    BY <1>0, <2>1 DEF StoreSlipText, HoldsMeant, PrinterForms, PrinterMeanings
  <2>3. words \in [Kinds -> Words] /\ words[printer.kind] = w
    BY <1>0 DEF HoldsMeant, PrinterForms
  <2>4. UNCHANGED <<profile, jumped>>
    BY <1>6 DEF TypeWords
  <2> HIDE DEF words
  <2> QED BY <1>0, <2>2, <2>3, <2>4 DEF PrinterInv, HoldsMeant, PrinterForms, PrinterMeanings
<1>7. CASE Move
  <2>0. UNCHANGED <<profile, meant, jumped>>
    BY <1>7 DEF Move
  <2>1. CASE printer' \in {OpenAdvanced(printer), OpenSlip(printer)}
    BY <1>0, <2>0, <2>1, AdvancedHolds, SlipHolds DEF PrinterInv
  <2>2. CASE printer' = ClosePanel(printer)
    BY <1>0, <2>0, <2>2, CloseHolds DEF PrinterInv
  <2>3. CASE printer.panel = "Slip" /\ \E to \in Foci : printer' = SetSlipFocus(printer, to)
    BY <1>0, <2>0, <2>3, FocusHolds DEF PrinterInv
  <2>4. ASSUME printer.panel = "Slip"
        PROVE  HoldsMeant(SwitchSlipKind(SetSlipFocus(printer, "Kind")), meant, jumped)
    <3> DEFINE f == SetSlipFocus(printer, "Kind")
    <3>1. HoldsMeant(f, meant, jumped) /\ f.panel = "Slip"
      BY <1>0, <2>4, FocusHolds DEF Foci
    <3> HIDE DEF f
    <3>2. HoldsMeant(SwitchSlipKind(f), meant, jumped)
      BY <3>1, SwitchHolds
    <3> QED BY <3>2 DEF f
  <2>5. ASSUME printer.panel = "Slip"
        PROVE  HoldsMeant(ClosePanel(SetSlipFocus(printer, "Back")), meant, jumped)
    <3> DEFINE f == SetSlipFocus(printer, "Back")
    <3>1. HoldsMeant(f, meant, jumped)
      BY <1>0, <2>5, FocusHolds DEF Foci
    <3> HIDE DEF f
    <3>2. HoldsMeant(ClosePanel(f), meant, jumped)
      BY <3>1, CloseHolds
    <3> QED BY <3>2 DEF f
  <2>6. CASE printer.panel = "Slip" /\ printer' = SwitchSlipKind(SetSlipFocus(printer, "Kind"))
    BY <1>0, <2>0, <2>4, <2>6 DEF PrinterInv
  <2>7. CASE printer.panel = "Slip" /\ printer' = ClosePanel(SetSlipFocus(printer, "Back"))
    BY <1>0, <2>0, <2>5, <2>7 DEF PrinterInv
  <2> QED BY <1>7, <2>1, <2>2, <2>3, <2>6, <2>7 DEF Move
<1>8. CASE MediaDetected
  <2>0. UNCHANGED <<profile, jumped>>
    BY <1>8 DEF MediaDetected
  <2>1. PICK q \in asking :
          /\ printer' = IF window = "printer" THEN SetMedia(printer, q) ELSE printer
          /\ meant' = IF window = "printer" /\ q = meant.queue /\ ~printer.byHand
                      THEN [meant EXCEPT !.paper = printer'.paper, !.mm = printer'.mm] ELSE meant
    BY <1>8 DEF MediaDetected
  <2>2. CASE window # "printer"
    BY <1>0, <2>0, <2>1, <2>2 DEF PrinterInv
  <2>3. CASE window = "printer"
    <3> DEFINE g == SetMedia(printer, q)
    <3>1. HoldsMeant(g, IF q = meant.queue /\ ~printer.byHand
                   THEN [meant EXCEPT !.paper = g.paper, !.mm = g.mm] ELSE meant, jumped)
      BY <1>0, MediaHolds
    <3>2. printer' = g
      BY <2>1, <2>3
    <3> HIDE DEF g
    <3>3. meant' = IF q = meant.queue /\ ~printer.byHand
                   THEN [meant EXCEPT !.paper = g.paper, !.mm = g.mm] ELSE meant
      BY <2>1, <2>3, <3>2
    <3> QED BY <1>0, <2>0, <3>1, <3>2, <3>3 DEF PrinterInv
  <2> QED BY <2>2, <2>3
<1>9. CASE CancelPrinter
  BY <1>0, <1>9, PrinterLeft DEF CancelPrinter, PrinterInv
<1>10. CASE SavePrinter
  <2>1. CASE InvalidPrinter(printer)
    <3>1. /\ printer' = [printer EXCEPT !.panel = "Advanced", !.error = TRUE]
          /\ jumped' = (jumped \/ printer.queueText # printer.queue)
          /\ UNCHANGED <<profile, meant>>
      BY <1>10, <2>1 DEF SavePrinter
    <3>2. printer.queue = BadQueue \/ printer.byHand
      BY <1>0, <2>1 DEF InvalidPrinter, HoldsMeant
    <3> QED BY <1>0, <3>1, <3>2 DEF PrinterInv, HoldsMeant, PrinterForms
  <2>2. CASE ~InvalidPrinter(printer)
    <3>1. profile' = PrinterValues(printer) /\ Left
      BY <1>10, <2>2 DEF SavePrinter
    <3>2. ProfileKnown'
      <4>1. CASE printer.queue = NoQueue
        BY <3>1, <4>1 DEF PrinterValues
      <4>2. CASE printer.queue # NoQueue
        <5> DEFINE u == IF printer.paper = 0 THEN printer.mm ELSE Printable(printer.paper)
                   p == [queue |-> printer.queue, paper |-> printer.paper, mm |-> u, words |-> printer.words]
        <5>1. profile' = {p}
          BY <3>1, <4>2 DEF PrinterValues
        <5>2. printer.queue \in DOMAIN Media
          BY <1>0, <2>2, <4>2 DEF InvalidPrinter, HoldsMeant, PrinterForms, Queues
        <5>3. printer.paper \in {58, 80, 0} /\ printer.words \in [Kinds -> Words]
          BY <1>0 DEF HoldsMeant, PrinterForms, Rolls
        <5>4. u \in SUBSET Widths /\ u # {} /\ AtMostOne(u) /\ (printer.paper # 0 => u = Printable(printer.paper))
          <6>1. CASE printer.paper = 0
            BY <1>0, <2>2, <6>1 DEF InvalidPrinter, HoldsMeant, PrinterForms, Readings, AtMostOne
          <6>2. CASE printer.paper # 0
            BY <5>3, <6>2 DEF Printable, AtMostOne, Widths, MinCustom, MaxCustom
          <6> QED BY <6>1, <6>2
        <5> HIDE DEF u
        <5>5. IsProfile(p)
          BY <5>2, <5>3, <5>4 DEF IsProfile
        <5> HIDE DEF p
        <5> QED BY <5>1, <5>5
      <4> QED BY <4>1, <4>2
    <3> QED BY <3>1, <3>2, PrinterLeft DEF PrinterInv
  <2> QED BY <2>1, <2>2
<1> QED BY <1>1, <1>2, <1>3, <1>4, <1>5, <1>6, <1>7, <1>8, <1>9, <1>10 DEF SettingsNext

LEMMA QueuesKnown ==
  ASSUME PrinterInv, asking \subseteq DOMAIN Media, [SettingsNext]_settingsVars
  PROVE  asking' \subseteq DOMAIN Media
<1>1. PrinterInv'
  BY PrinterKept
<1>2. printer'.queue \in Queues
  BY <1>1 DEF PrinterInv, HoldsMeant, PrinterForms
<1>3. CASE OpenPrinter \/ PickQueue \/ TypeAdvanced
  BY <1>2, <1>3 DEF OpenPrinter, PickQueue, TypeAdvanced, Asked, Queues
<1>4. CASE UNCHANGED asking \/ MediaDetected
  BY <1>4 DEF MediaDetected
<1> QED BY <1>3, <1>4 DEF SettingsNext, settingsVars, SaveSettings, OpenSettings, TypeSettings,
      CancelSettings, SaveAnswered, PrefsChanged, EditColors, TypeColors, LeaveColors, CancelPrinter,
      SavePrinter, TypeWords, Move

\* What a step stores about a printer is what the panels were told.
LEMMA MeantStored ==
  ASSUME PrinterInv, SettingsNext
  PROVE  ProfileAsMeant'
<1>1. CASE SavePrinter /\ ~InvalidPrinter(printer)
  <2> DEFINE p == [queue |-> printer.queue, paper |-> printer.paper,
                   mm |-> IF printer.paper = 0 THEN printer.mm ELSE Printable(printer.paper),
                   words |-> printer.words]
             s == [profile |-> PrinterValues(printer), meant |-> meant, jumped |-> jumped]
  <2>1. stored' = {s}
    BY <1>1 DEF SavePrinter
  <2>2. ASSUME NEW x \in PrinterValues(printer)
        PROVE  x = p
    BY <2>2 DEF PrinterValues
  <2>3. /\ p.words = meant.words /\ p.paper = meant.paper
        /\ p.paper = 0 => p.mm = meant.mm
        /\ p.queue = meant.queue \/ jumped
    BY DEF PrinterInv, HoldsMeant
  <2> HIDE DEF p
  <2> QED BY <2>1, <2>2, <2>3 DEF ProfileAsMeant
<1>2. CASE SavePrinter /\ InvalidPrinter(printer)
  BY <1>2 DEF SavePrinter, ProfileAsMeant
<1>3. CASE SaveSettings
  <2>1. stored' = {} \/ \E v : stored' = {[prefs |-> v, edited |-> edited, opened |-> opened]}
    BY <1>3 DEF SaveSettings
  <2> QED BY <2>1 DEF ProfileAsMeant
<1>4. CASE stored' = {}
  BY <1>4 DEF ProfileAsMeant
<1> QED BY <1>1, <1>2, <1>3, <1>4 DEF SettingsNext

\* The printer that is stored is the one the panels were told.
THEOREM ProfileCorrect == SettingsSpec => []ProfileAsMeant
<1> DEFINE Inv == PrinterInv /\ asking \subseteq DOMAIN Media /\ ProfileAsMeant
<1>1. SettingsInit => Inv
  <2> SUFFICES ASSUME SettingsInit PROVE Inv
    OBVIOUS
  <2>1. HoldsMeant(printer, meant, jumped)
    <3>1. HoldsMeant(NewPrinter({}), MeantBy(NewPrinter({})), FALSE)
      BY NewHolds
    <3> QED BY <3>1 DEF SettingsInit
  <2>2. ProfileKnown
    BY SettingsAssumption DEF SettingsInit, ProfileKnown
  <2> QED BY <2>1, <2>2 DEF SettingsInit, PrinterInv, ProfileAsMeant
<1>2. Inv /\ [SettingsNext]_settingsVars => Inv'
  <2> SUFFICES ASSUME Inv, [SettingsNext]_settingsVars PROVE Inv'
    OBVIOUS
  <2>1. PrinterInv' /\ asking' \subseteq DOMAIN Media
    BY PrinterKept, QueuesKnown
  <2>2. ProfileAsMeant'
    <3>1. CASE SettingsNext
      BY <3>1, MeantStored
    <3>2. CASE UNCHANGED settingsVars
      BY <3>2 DEF settingsVars, ProfileAsMeant
    <3> QED BY <3>1, <3>2
  <2> QED BY <2>1, <2>2
<1>3. Inv => ProfileAsMeant
  OBVIOUS
<1> HIDE DEF Inv
<1> QED BY <1>1, <1>2, <1>3, PTL DEF SettingsSpec

-----------------------------------------------------------------------------
Numbers == {{}, Illegible} \cup {{n} : n \in Nat}
SettingsForms ==
  [theme : Themes, darkness : Levels, contrast : Levels, colors : Colors, plain : BOOLEAN,
   zone : Numbers \ {{}}, reminder : Numbers, timeout : Numbers, cardDefault : BOOLEAN, card : Cards,
   filterOn : BOOLEAN, filter : Filters, error : BOOLEAN, saving : BOOLEAN]

\* The form f shows what it was opened with, o, but for the preferences in e.
ShowsOpened(f, o, e) ==
  /\ "theme" \in e \/ f.theme = o.theme
  /\ "darkness" \in e \/ f.darkness = o.darkness
  /\ "contrast" \in e \/ f.contrast = o.contrast
  /\ "colors" \in e \/ f.colors = o.colors
  /\ "plain" \in e \/ f.plain = o.plain
  /\ "zone" \in e \/ f.zone = {o.zone}
  /\ "reminder" \in e \/ f.reminder = o.reminder
  /\ "timeout" \in e \/ f.timeout = {o.timeout}
  /\ "cards" \in e \/ (f.cardDefault /\ o.cards = {}) \/ (~f.cardDefault /\ o.cards = {f.card})
  /\ "filter" \in e \/ (~f.filterOn /\ o.filter = {}) \/ (f.filterOn /\ o.filter = {f.filter})

PrefsInv ==
  /\ IsPrefs(prefs) /\ IsPrefs(opened) /\ settings \in SettingsForms /\ palette \in Colors
  /\ ShowsOpened(settings, opened, edited)

LEMMA SingleSet ==
  ASSUME NEW S, AtMostOne(S), S # {}
  PROVE  (CHOOSE x \in S : TRUE) \in S /\ S = {CHOOSE x \in S : TRUE}
BY DEF AtMostOne

LEMMA NewShows ==
  ASSUME NEW p, IsPrefs(p)
  PROVE  NewSettings(p) \in SettingsForms /\ ShowsOpened(NewSettings(p), p, {})
<1> DEFINE c == IF p.cards = {} THEN DefaultCard ELSE CHOOSE x \in p.cards : TRUE
           d == IF p.filter = {} THEN DefaultFilter ELSE CHOOSE x \in p.filter : TRUE
           f == NewSettings(p)
<1>1. c \in Cards /\ (p.cards = {} \/ p.cards = {c})
  BY SingleSet, SettingsAssumption DEF IsPrefs
<1>2. d \in Filters /\ (p.filter = {} \/ p.filter = {d})
  BY SingleSet, SettingsAssumption DEF IsPrefs
<1>3. f = [theme |-> p.theme, darkness |-> p.darkness, contrast |-> p.contrast, colors |-> p.colors,
           plain |-> p.plain, zone |-> {p.zone}, reminder |-> p.reminder, timeout |-> {p.timeout},
           cardDefault |-> p.cards = {}, card |-> c, filterOn |-> p.filter # {}, filter |-> d,
           error |-> FALSE, saving |-> FALSE]
  BY DEF NewSettings
<1>4. p.reminder \in Numbers
  <2>1. CASE p.reminder = {}
    BY <2>1 DEF Numbers
  <2>2. CASE p.reminder # {}
    <3>1. p.reminder \subseteq Nat /\ AtMostOne(p.reminder)
      BY DEF IsPrefs
    <3>2. PICK n \in Nat : p.reminder = {n}
      BY <2>2, <3>1, SingleSet
    <3> QED BY <3>2 DEF Numbers
  <2> QED BY <2>1, <2>2
<1>5. {p.zone} \in Numbers \ {{}} /\ {p.timeout} \in Numbers
  <2>1. p.zone \in Nat /\ p.timeout \in Nat
    BY DEF IsPrefs
  <2> QED BY <2>1 DEF Numbers
<1> HIDE DEF c, d, f
<1>6. f \in SettingsForms
  BY <1>1, <1>2, <1>3, <1>4, <1>5 DEF SettingsForms, IsPrefs
<1>7. ShowsOpened(f, p, {})
  BY <1>1, <1>2, <1>3 DEF ShowsOpened
<1> QED BY <1>6, <1>7 DEF f

\* A change of one field of the form is a change of the preference it writes.
LEMMA FieldTyped ==
  ASSUME NEW f \in SettingsForms, NEW o, NEW e, ShowsOpened(f, o, e),
         NEW w \in ShownFields(f), NEW v \in SettingsInputs(f, w)
  PROVE  /\ [f EXCEPT ![w] = v] \in SettingsForms
         /\ ShowsOpened([f EXCEPT ![w] = v], o, e \cup {WritesTo(w)})
<1> DEFINE g == [f EXCEPT ![w] = v]
<1>1. g \in SettingsForms
  <2>1. CASE w \in {"zone", "reminder", "timeout"}
    <3>1. v \in Numbers /\ (w = "zone" => v # {})
      BY <2>1 DEF SettingsInputs, Numbers, Illegible
    <3> QED BY <2>1, <3>1 DEF SettingsForms
  <2>2. CASE w \in {"theme", "darkness", "contrast"}
    <3>1. IF w = "theme" THEN v \in Themes ELSE v \in Levels
      BY <2>2 DEF SettingsInputs
    <3> QED BY <2>2, <3>1 DEF SettingsForms
  <2>3. CASE w \in {"plain", "cardDefault", "filterOn"}
    <3>1. v \in BOOLEAN
      BY <2>3 DEF SettingsInputs, SettingsForms
    <3> QED BY <2>3, <3>1 DEF SettingsForms
  <2>4. CASE w \in {"card", "filter"}
    <3>1. IF w = "card" THEN v \in Cards ELSE v \in Filters
      BY <2>4 DEF SettingsInputs
    <3> QED BY <2>4, <3>1 DEF SettingsForms
  <2> QED BY <2>1, <2>2, <2>3, <2>4 DEF ShownFields
<1>2. /\ w \in {"cardDefault", "card"} => WritesTo(w) = "cards"
      /\ w \in {"filterOn", "filter"} => WritesTo(w) = "filter"
      /\ w \notin {"cardDefault", "card", "filterOn", "filter"} => WritesTo(w) = w
  BY DEF WritesTo
<1>3. \A x \in {"theme", "darkness", "contrast", "colors", "plain", "zone", "reminder", "timeout",
                "cardDefault", "card", "filterOn", "filter"} : x = w \/ g[x] = f[x]
  BY DEF SettingsForms
<1> HIDE DEF g
<1>4. /\ "theme" = WritesTo(w) \/ g.theme = f.theme
      /\ "darkness" = WritesTo(w) \/ g.darkness = f.darkness
      /\ "contrast" = WritesTo(w) \/ g.contrast = f.contrast
      /\ "colors" = WritesTo(w) \/ g.colors = f.colors
      /\ "plain" = WritesTo(w) \/ g.plain = f.plain
  BY <1>2, <1>3
<1>5. /\ "zone" = WritesTo(w) \/ g.zone = f.zone
      /\ "reminder" = WritesTo(w) \/ g.reminder = f.reminder
      /\ "timeout" = WritesTo(w) \/ g.timeout = f.timeout
      /\ "cards" = WritesTo(w) \/ (g.cardDefault = f.cardDefault /\ g.card = f.card)
      /\ "filter" = WritesTo(w) \/ (g.filterOn = f.filterOn /\ g.filter = f.filter)
  BY <1>2, <1>3
<1>6. ShowsOpened(g, o, e \cup {WritesTo(w)})
  BY <1>4, <1>5 DEF ShowsOpened
<1> QED BY <1>1, <1>6 DEF g

\* Where a save stands and whether it was refused is none of the preferences.
LEMMA FlagsShow ==
  ASSUME NEW f \in SettingsForms, NEW o, NEW e, ShowsOpened(f, o, e), NEW a \in BOOLEAN, NEW b \in BOOLEAN
  PROVE  /\ [f EXCEPT !.error = a, !.saving = b] \in SettingsForms
         /\ ShowsOpened([f EXCEPT !.error = a, !.saving = b], o, e)
<1> DEFINE g == [f EXCEPT !.error = a, !.saving = b]
<1>1. g \in SettingsForms
  BY DEF SettingsForms
<1>2. /\ g.theme = f.theme /\ g.darkness = f.darkness /\ g.contrast = f.contrast /\ g.colors = f.colors
      /\ g.plain = f.plain /\ g.zone = f.zone /\ g.reminder = f.reminder /\ g.timeout = f.timeout
      /\ g.cardDefault = f.cardDefault /\ g.card = f.card
      /\ g.filterOn = f.filterOn /\ g.filter = f.filter
  BY DEF SettingsForms
<1> HIDE DEF g
<1>3. ShowsOpened(g, o, e)
  BY <1>2 DEF ShowsOpened
<1> QED BY <1>1, <1>3 DEF g

\* What a form writes is what it was opened with, but for what was changed.
LEMMA ValuesOpened ==
  ASSUME NEW f \in SettingsForms, NEW o, NEW e, IsPrefs(o), ShowsOpened(f, o, e), ~InvalidSettings(f)
  PROVE  /\ IsPrefs(SettingsValues(f))
         /\ \A x \in DOMAIN SettingsValues(f) \ e : SettingsValues(f)[x] = o[x]
<1> DEFINE z == CHOOSE n \in f.zone : TRUE
           t == CHOOSE n \in f.timeout : TRUE
           c == IF f.cardDefault THEN {} ELSE {f.card}
           d == IF f.filterOn THEN {f.filter} ELSE {}
           v == SettingsValues(f)
<1>1. z \in Nat /\ f.zone = {z}
  <2>1. PICK n \in Nat : f.zone = {n}
    BY DEF SettingsForms, InvalidSettings, Numbers
  <2> QED BY <2>1
<1>2. t \in Nat /\ f.timeout = {t}
  <2>1. PICK n \in Nat : f.timeout = {n}
    BY DEF SettingsForms, InvalidSettings, Numbers
  <2> QED BY <2>1
<1>3. f.reminder \in SUBSET Nat /\ AtMostOne(f.reminder)
  <2>1. f.reminder = {} \/ \E n \in Nat : f.reminder = {n}
    BY DEF SettingsForms, InvalidSettings, Numbers
  <2> QED BY <2>1 DEF AtMostOne
<1>4. c \in SUBSET Cards /\ AtMostOne(c) /\ d \in SUBSET Filters /\ AtMostOne(d)
  BY DEF SettingsForms, AtMostOne
<1>5. v = [theme |-> f.theme, darkness |-> f.darkness, contrast |-> f.contrast, colors |-> f.colors,
           plain |-> f.plain, zone |-> z, reminder |-> f.reminder, timeout |-> t, cards |-> c, filter |-> d]
  BY DEF SettingsValues
<1>6. /\ "zone" \in e \/ z = o.zone
      /\ "timeout" \in e \/ t = o.timeout
      /\ "cards" \in e \/ c = o.cards
      /\ "filter" \in e \/ d = o.filter
  BY <1>1, <1>2 DEF ShowsOpened
<1> HIDE DEF z, t, c, d, v
<1>7. IsPrefs(v)
  BY <1>1, <1>2, <1>3, <1>4, <1>5 DEF IsPrefs, SettingsForms
<1>8. ASSUME NEW x \in DOMAIN v \ e PROVE v[x] = o[x]
  BY <1>5, <1>6 DEF ShowsOpened
<1> QED BY <1>7, <1>8 DEF v

LEMMA PrefsIdle ==
  ASSUME PrefsInv, UNCHANGED <<prefs, settings, palette, opened, edited>>
  PROVE  PrefsInv'
BY DEF PrefsInv

LEMMA PrefsClosed ==
  ASSUME PrefsInv, SettingsClosed, UNCHANGED <<prefs, palette>>
  PROVE  PrefsInv'
BY NewShows DEF PrefsInv, SettingsClosed

LEMMA PrefsKept ==
  ASSUME PrefsInv, [SettingsNext]_settingsVars
  PROVE  PrefsInv'
<1>1. CASE UNCHANGED settingsVars
  BY <1>1, PrefsIdle DEF settingsVars
<1>2. CASE OpenPrinter \/ PickQueue \/ TypeAdvanced \/ TypeWords \/ Move \/ MediaDetected
           \/ CancelPrinter \/ SavePrinter
  BY <1>2, PrefsIdle DEF OpenPrinter, PickQueue, TypeAdvanced, TypeWords, Move, MediaDetected,
     CancelPrinter, SavePrinter
<1>3. CASE OpenSettings
  BY <1>3, NewShows DEF OpenSettings, PrefsInv
<1>4. CASE TypeSettings
  <2>1. PICK w \in ShownFields(settings) : \E v \in SettingsInputs(settings, w) :
          settings' = [settings EXCEPT ![w] = v] /\ edited' = edited \cup {WritesTo(w)}
    BY <1>4 DEF TypeSettings
  <2>2. PICK v \in SettingsInputs(settings, w) :
          settings' = [settings EXCEPT ![w] = v] /\ edited' = edited \cup {WritesTo(w)}
    BY <2>1
  <2>3. settings \in SettingsForms /\ ShowsOpened(settings, opened, edited)
    BY DEF PrefsInv
  <2>4. settings' \in SettingsForms /\ ShowsOpened(settings', opened, edited')
    BY <2>2, <2>3, FieldTyped
  <2>5. UNCHANGED <<prefs, opened, palette>>
    BY <1>4 DEF TypeSettings
  <2> QED BY <2>4, <2>5 DEF PrefsInv
<1>5. CASE CancelSettings
  BY <1>5, PrefsClosed DEF CancelSettings
<1>6. CASE SaveSettings
  <2>1. CASE InvalidSettings(settings)
    <3>1. settings' = [settings EXCEPT !.error = TRUE] /\ UNCHANGED <<prefs, opened, edited, palette>>
      BY <1>6, <2>1 DEF SaveSettings
    <3>2. settings' = [settings EXCEPT !.error = TRUE, !.saving = settings.saving]
      BY <3>1 DEF PrefsInv, SettingsForms
    <3>3. settings.saving \in BOOLEAN
      BY DEF PrefsInv, SettingsForms
    <3>4. settings \in SettingsForms /\ ShowsOpened(settings, opened, edited)
      BY DEF PrefsInv
    <3>5. settings' \in SettingsForms /\ ShowsOpened(settings', opened, edited)
      BY <3>2, <3>3, <3>4, FlagsShow
    <3> QED BY <3>1, <3>5 DEF PrefsInv
  <2>2. CASE ~InvalidSettings(settings)
    <3> DEFINE v == SettingsValues(settings)
               u == [v EXCEPT !.zone = IF v.zone # opened.zone THEN @ ELSE prefs.zone]
    <3>1. /\ settings' = [settings EXCEPT !.error = FALSE, !.saving = TRUE]
          /\ prefs' = u /\ UNCHANGED <<opened, edited, palette>>
      BY <1>6, <2>2 DEF SaveSettings
    <3>2. IsPrefs(v)
      BY <2>2, ValuesOpened DEF PrefsInv
    <3> HIDE DEF v
    <3>3. IsPrefs(u)
      BY <3>2 DEF IsPrefs, PrefsInv
    <3> HIDE DEF u
    <3>4. settings \in SettingsForms /\ ShowsOpened(settings, opened, edited)
      BY DEF PrefsInv
    <3>5. settings' \in SettingsForms /\ ShowsOpened(settings', opened, edited)
      BY <3>1, <3>4, FlagsShow
    <3> QED BY <3>1, <3>3, <3>5 DEF PrefsInv
  <2> QED BY <2>1, <2>2
<1>7. CASE SaveAnswered
  <2>1. UNCHANGED <<prefs, palette>>
    BY <1>7 DEF SaveAnswered
  <2>2. CASE SettingsClosed
    BY <2>1, <2>2, PrefsClosed
  <2>3. CASE UNCHANGED <<settings, edited, opened>>
    BY <2>1, <2>3, PrefsIdle
  <2>4. CASE settings' = [settings EXCEPT !.saving = FALSE, !.error = TRUE] /\ UNCHANGED <<edited, opened>>
    <3>1. settings' = [settings EXCEPT !.error = TRUE, !.saving = FALSE]
      BY <2>4 DEF PrefsInv, SettingsForms
    <3>2. settings \in SettingsForms /\ ShowsOpened(settings, opened, edited)
      BY DEF PrefsInv
    <3>3. settings' \in SettingsForms /\ ShowsOpened(settings', opened, edited)
      BY <3>1, <3>2, FlagsShow
    <3> QED BY <2>1, <2>4, <3>3 DEF PrefsInv
  <2> QED BY <1>7, <2>2, <2>3, <2>4 DEF SaveAnswered
<1>8. CASE PrefsChanged
  BY <1>8 DEF PrefsChanged, PrefsInv, IsPrefs
<1>9. CASE EditColors
  BY <1>9 DEF EditColors, PrefsInv, SettingsForms
<1>10. CASE TypeColors
  BY <1>10 DEF TypeColors, PrefsInv
<1>11. CASE LeaveColors
  <2>1. palette' = DefaultColors /\ UNCHANGED <<prefs, opened>>
    BY <1>11 DEF LeaveColors
  <2>2. CASE UNCHANGED <<settings, edited>>
    BY <2>1, <2>2, SettingsAssumption DEF PrefsInv
  <2>3. CASE settings' = [settings EXCEPT !.colors = palette] /\ edited' = edited \cup {"colors"}
    <3>1. settings' \in SettingsForms
      BY <2>3 DEF PrefsInv, SettingsForms
    <3>2. ShowsOpened(settings', opened, edited')
      BY <2>3 DEF PrefsInv, SettingsForms, ShowsOpened
    <3> QED BY <2>1, <3>1, <3>2, SettingsAssumption DEF PrefsInv
  <2> QED BY <1>11, <2>2, <2>3 DEF LeaveColors
<1> QED BY <1>1, <1>2, <1>3, <1>4, <1>5, <1>6, <1>7, <1>8, <1>9, <1>10, <1>11 DEF SettingsNext

LEMMA OpenedStored ==
  ASSUME PrefsInv, SettingsNext
  PROVE  UntouchedPrefsSurvive'
<1>1. CASE SaveSettings /\ ~InvalidSettings(settings)
  <2> DEFINE v == SettingsValues(settings)
             s == [prefs |-> v, edited |-> edited, opened |-> opened]
  <2>1. stored' = {s}
    BY <1>1 DEF SaveSettings
  <2>2. \A x \in DOMAIN v \ edited : v[x] = opened[x]
    BY <1>1, ValuesOpened DEF PrefsInv
  <2> HIDE DEF v
  <2> QED BY <2>1, <2>2 DEF UntouchedPrefsSurvive
<1>2. CASE SaveSettings /\ InvalidSettings(settings)
  BY <1>2 DEF SaveSettings, UntouchedPrefsSurvive
<1>3. CASE SavePrinter
  <2>1. stored' = {} \/ \E p, m, j : stored' = {[profile |-> p, meant |-> m, jumped |-> j]}
    BY <1>3 DEF SavePrinter
  <2> QED BY <2>1 DEF UntouchedPrefsSurvive
<1>4. CASE stored' = {}
  BY <1>4 DEF UntouchedPrefsSurvive
<1> QED BY <1>1, <1>2, <1>3, <1>4 DEF SettingsNext

\* Saving the settings leaves every preference nobody changed, whether it is shown
\* or hidden, as it was when the form opened.
THEOREM PrefsCorrect == SettingsSpec => []UntouchedPrefsSurvive
<1> DEFINE Inv == PrefsInv /\ UntouchedPrefsSurvive
<1>1. SettingsInit => Inv
  BY NewShows, SettingsAssumption DEF SettingsInit, PrefsInv, UntouchedPrefsSurvive
<1>2. Inv /\ [SettingsNext]_settingsVars => Inv'
  <2> SUFFICES ASSUME Inv, [SettingsNext]_settingsVars PROVE Inv'
    OBVIOUS
  <2>1. PrefsInv'
    BY PrefsKept
  <2>2. UntouchedPrefsSurvive'
    <3>1. CASE SettingsNext
      BY <3>1, OpenedStored
    <3>2. CASE UNCHANGED settingsVars
      BY <3>2 DEF settingsVars, UntouchedPrefsSurvive
    <3> QED BY <3>1, <3>2
  <2> QED BY <2>1, <2>2
<1>3. Inv => UntouchedPrefsSurvive
  OBVIOUS
<1> HIDE DEF Inv
<1> QED BY <1>1, <1>2, <1>3, PTL DEF SettingsSpec
===============================================================================
