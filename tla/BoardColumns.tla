---------------------------- MODULE BoardColumns ----------------------------
(***************************************************************************)
(* The columns of one board, the three roles they play, and the tasks in   *)
(* them (crates/taskologic-core/src/board.rs, handlers.rs, db/repo.rs).    *)
(*                                                                         *)
(* A handler loads the board (and the task) first, checks the request by   *)
(* that copy, and writes in a lock hold of its own; RemoveColumn counts    *)
(* the tasks of the column in between.  tasks.column_id is a foreign key,  *)
(* so a transaction that would leave a task without its column is rolled   *)
(* back; the roles are plain numbers that only the handlers look after.    *)
(*                                                                         *)
(* Managers change columns and roles, members create and move tasks.  A    *)
(* finished stamp is set or not; names are compared without their case.    *)
(* The order of columns, the other settings of a board and the archive     *)
(* (whose tasks count like any other when a column is removed) are left    *)
(* out.                                                                    *)
(***************************************************************************)
EXTENDS Naturals, FiniteSets

CONSTANTS
  Column,           \* column ids; AUTOINCREMENT, so an id is used once
  Name, Role, Task,
  Manager, Member,  \* connections, by what their users may do
  None

VARIABLES
  column,  \* the columns table: the name of each column, None where there is none
  born,    \* column ids handed out
  role,    \* started_col, paused_col, finished_col
  place,   \* the column of each task, None before it exists
  stamped, \* tasks with a finished_at
  held,    \* per connection: the request it has loaded and not yet committed
  crossed  \* observation: what was changed from a copy that another manager's
           \* change had overtaken, "roles" or "names"

vars == <<column, born, role, place, stamped, held, crossed>>

Worker == Manager \cup Member

Board == [column : [Column -> Name \cup {None}], role : [Role -> Column]]

Requests == {"AddColumn", "RenameColumn", "RemoveColumn", "UpdateBoard",
             "CreateTask", "MoveTask"}

\* mark: whether the column to remove has tasks, None before they are
\* counted; for a move, whether the copy of the task has a stamp.
Request ==
  [op : Requests \ {"MoveTask"}, board : Board, target : Column \cup {None},
   from : {None}, mark : BOOLEAN \cup {None}]
  \cup [op : {"MoveTask"}, board : Board, target : Task, from : Column, mark : BOOLEAN]

ASSUME RolesGiven == "finished" \in Role
ASSUME NoneIsNothing == None \notin Column \cup Name \cup Task \cup BOOLEAN
ASSUME ConnectionsDiffer == Manager \cap Member = {}

TypeOK ==
  /\ column \in [Column -> Name \cup {None}]
  /\ born \subseteq Column
  /\ role \in [Role -> Column]
  /\ place \in [Task -> Column \cup {None}]
  /\ stamped \subseteq Task
  /\ held \in [Worker -> Request \cup {None}]
  /\ crossed \subseteq {"roles", "names"}

OnBoard(board) == {c \in Column : board.column[c] # None}

\* create_board: names that differ, and roles among them.
Init ==
  /\ \E C \in SUBSET Column, r \in [Role -> Column] :
       /\ C # {} /\ \A x \in Role : r[x] \in C
       /\ \E n \in [C -> Name] :
            /\ \A c, d \in C : c # d => n[c] # n[d]
            /\ column = [c \in Column |-> IF c \in C THEN n[c] ELSE None]
       /\ born = C
       /\ role = r
  /\ place = [t \in Task |-> None]
  /\ stamped = {}
  /\ held = [w \in Worker |-> None]
  /\ crossed = {}

-----------------------------------------------------------------------------
(* Loading.                                                                *)

Current == [column |-> column, role |-> role]

Loaded(w, op, target, from, mark) ==
  held' = [held EXCEPT ![w] = [op |-> op, board |-> Current, target |-> target,
                               from |-> from, mark |-> mark]]

Load(w) ==
  /\ held[w] = None
  /\ \/ w \in Manager /\ \E op \in {"AddColumn", "UpdateBoard"} : Loaded(w, op, None, None, None)
     \/ w \in Manager /\ \E op \in {"RenameColumn", "RemoveColumn"}, c \in OnBoard(Current) :
                           Loaded(w, op, c, None, None)
     \/ w \in Member /\ Loaded(w, "CreateTask", None, None, None)
     \/ w \in Member /\ \E t \in Task : /\ place[t] # None
                                        /\ Loaded(w, "MoveTask", t, place[t], t \in stamped)
  /\ UNCHANGED <<column, born, role, place, stamped, crossed>>

Holds(w, op) == held[w] # None /\ held[w].op = op

Answered(w) == held' = [held EXCEPT ![w] = None]

TasksIn(c) == {t \in Task : place[t] = c}

\* task_count_in_column, a lock hold of its own.
CountTasks(w) ==
  /\ Holds(w, "RemoveColumn") /\ held[w].mark = None
  /\ held' = [held EXCEPT ![w].mark = (TasksIn(held[w].target) # {})]
  /\ UNCHANGED <<column, born, role, place, stamped, crossed>>

-----------------------------------------------------------------------------
(* Columns and roles.                                                      *)

\* What others changed since the copy was made: a name that is not in it, a
\* column of it that is gone.
NamesOvertaken(board) == \E c \in OnBoard(Current) : board.column[c] # column[c]
ColumnsOvertaken(board) == ~(OnBoard(board) \subseteq OnBoard(Current))
CrossedIf(overtaken, what) == crossed' = IF overtaken THEN crossed \cup {what} ELSE crossed

\* validate_column_names, on the copy: no other column has the name.
Fresh(board, c, name) == \A d \in OnBoard(board) \ {c} : board.column[d] # name

AddColumn(w) ==
  /\ Holds(w, "AddColumn")
  /\ \E c \in Column \ born, name \in Name :
       /\ Fresh(held[w].board, None, name)
       /\ column' = [column EXCEPT ![c] = name]
       /\ born' = born \cup {c}
  /\ CrossedIf(NamesOvertaken(held[w].board), "names")
  /\ Answered(w)
  /\ UNCHANGED <<role, place, stamped>>

\* An UPDATE of a row that may be gone.
RenameColumn(w) ==
  /\ Holds(w, "RenameColumn")
  /\ \E name \in Name : LET c == held[w].target IN
       /\ Fresh(held[w].board, c, name)
       /\ column' = [column EXCEPT ![c] = IF @ = None THEN None ELSE name]
  /\ CrossedIf(NamesOvertaken(held[w].board), "names")
  /\ Answered(w)
  /\ UNCHANGED <<born, role, place, stamped>>

\* Faulty variant: a role is cleared with its column.
HandedOverNull(instead) == [x \in Role |-> IF x \in DOMAIN instead THEN None ELSE role[x]]

HandedOver(instead) ==
  [x \in Role |-> IF x \in DOMAIN instead THEN instead[x] ELSE role[x]]

\* update_board sets the roles named in the request, checked on the copy.
UpdateBoard(w) ==
  /\ Holds(w, "UpdateBoard")
  /\ \E R \in SUBSET Role : \E to \in [R -> OnBoard(held[w].board)] : role' = HandedOver(to)
  /\ CrossedIf(ColumnsOvertaken(held[w].board), "roles")
  /\ Answered(w)
  /\ UNCHANGED <<column, born, place, stamped>>

\* Faulty variant: the roles of the column are not asked about.
PlanKeepingRoles(board, c, filled, to, instead) ==
  /\ Cardinality(OnBoard(board)) > 1
  /\ IF filled THEN to \in OnBoard(board) \ {c} ELSE to = None
  /\ DOMAIN instead = {}

\* plan_column_removal agrees: the tasks that were counted have somewhere to
\* go, and so has every role the column plays.
Plan(board, c, filled, to, instead) ==
  /\ Cardinality(OnBoard(board)) > 1
  /\ IF filled THEN to \in OnBoard(board) \ {c} ELSE to = None
  /\ DOMAIN instead = {x \in Role : board.role[x] = c}
  /\ \A x \in DOMAIN instead : instead[x] \in OnBoard(board) \ {c}

\* Faulty variant: foreign keys are not switched on for the connection.
KeyUnchecked(columns, places) == TRUE

\* The foreign key of tasks.column_id.
KeyHolds(columns, places) == \A t \in Task : places[t] # None => columns[places[t]] # None

\* The tasks go where the plan says and keep their stamp, the roles are
\* handed over, the column goes.
RemoveColumn(w) ==
  /\ Holds(w, "RemoveColumn") /\ held[w].mark # None
  /\ \E to \in Column \cup {None}, R \in SUBSET Role : \E instead \in [R -> Column] :
       /\ Plan(held[w].board, held[w].target, held[w].mark, to, instead)
       /\ place' = [t \in Task |-> IF to # None /\ t \in TasksIn(held[w].target)
                                   THEN to ELSE place[t]]
       /\ role' = HandedOver(instead)
       /\ column' = [column EXCEPT ![held[w].target] = None]
       /\ KeyHolds(column', place')
  /\ CrossedIf(ColumnsOvertaken(held[w].board) \/ held[w].board.role # role, "roles")
  /\ Answered(w)
  /\ UNCHANGED <<born, stamped>>

-----------------------------------------------------------------------------
(* Tasks.                                                                  *)

CreateTask(w) ==
  /\ Holds(w, "CreateTask")
  /\ \E t \in Task, c \in OnBoard(held[w].board) :
       /\ place[t] = None
       /\ place' = [place EXCEPT ![t] = c]
       /\ stamped' = IF c = held[w].board.role["finished"] THEN stamped \cup {t} ELSE stamped
       /\ KeyHolds(column, place')
  /\ Answered(w)
  /\ UNCHANGED <<column, born, role, crossed>>

\* plan_move's finished_at: the roles, the column and the stamp of the copy.
PlanFinished(h, to) ==
  LET finished == h.board.role["finished"] IN
  IF to = finished /\ h.from # finished THEN TRUE
  ELSE IF to # finished /\ h.from = finished THEN FALSE ELSE h.mark

MoveTask(w) ==
  /\ Holds(w, "MoveTask")
  /\ \E to \in OnBoard(held[w].board) : LET t == held[w].target IN
       /\ place' = [place EXCEPT ![t] = to]
       /\ stamped' = IF PlanFinished(held[w], to) THEN stamped \cup {t} ELSE stamped \ {t}
       /\ KeyHolds(column, place')
  /\ Answered(w)
  /\ UNCHANGED <<column, born, role, crossed>>

\* The request does not fit the copy, or its transaction is rolled back.
Refused(w) ==
  /\ held[w] # None
  /\ Answered(w)
  /\ UNCHANGED <<column, born, role, place, stamped, crossed>>

-----------------------------------------------------------------------------
Handler(w) == \/ AddColumn(w) \/ RenameColumn(w) \/ UpdateBoard(w) \/ CountTasks(w)
              \/ RemoveColumn(w) \/ CreateTask(w) \/ MoveTask(w) \/ Refused(w)

Next == \E w \in Worker : Load(w) \/ Handler(w)

Spec == Init /\ [][Next]_vars

-----------------------------------------------------------------------------
\* "Removing a column ... never leaves a role dangling": started, paused and
\* finished always name a column of the board, whatever the managers add and
\* rename meanwhile, as long as nobody removes a column or moves a role between
\* another manager's load and commit.  (The handlers decide on a copy.)
RolesExist == "roles" \notin crossed => \A x \in Role : column[role[x]] # None

\* "Removing a column never silently deletes tasks": tasks created in the
\* column or moved into it after they were counted keep a column too, for any
\* number of managers.
EveryTaskPlaced == \A t \in Task : place[t] # None => column[place[t]] # None

\* validate_column_names: no two columns of a board have the same name, as long
\* as no name is given between another manager's load and commit of a name.
NamesDiffer ==
  "names" \notin crossed
    => \A c, d \in Column : (column[c] # None /\ column[d] = column[c]) => c = d
=============================================================================
