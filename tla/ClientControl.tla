--------------------------- MODULE ClientControl ---------------------------
(* Control codes in the terminal client: commands that are scanned and wait   *)
(* ("armed") for the task scanned next, commands that wait for a value, and    *)
(* the stack `--1UNDO--` walks back through. A scanned task is only a short    *)
(* id: the client asks the daemon for it (Resolve) and acts when the answer    *)
(* comes, while more is scanned, other people edit the same tasks and the      *)
(* daemon may refuse. A connection is handled one line at a time, so answers   *)
(* come in the order of the requests. A request that writes reads the task,    *)
(* decides on that copy, and writes in a transaction of its own: what another  *)
(* connection commits in between is not looked at.                             *)
EXTENDS Integers, Sequences, FiniteSets

CONSTANTS
  Task,        \* the tasks whose codes are scanned
  Board,       \* the boards they are on
  BoardOf,     \* the board of each task
  Width,       \* every board has the columns 1..Width
  Commands,    \* the control codes that are scanned
  UndoDepth,   \* UNDO_DEPTH
  MaxScans,    \* bound: how often somebody scans or presses a key
  MaxEdits,    \* bound: how often somebody else changes a task
  None

ASSUME BoardsAssumption == BoardOf \in [Task -> Board]
ASSUME BoundsAssumption ==
  Width \in Nat \ {0} /\ UndoDepth \in Nat /\ MaxScans \in Nat /\ MaxEdits \in Nat

VARIABLES
  row,        \* the daemon's table: every task as it is
  shown,      \* the tasks of the open board as the client last heard of them
  open,       \* the board that is open, None on the dashboard
  overlay,    \* the window that is open, and the task it is about
  armed,      \* ControlState::armed
  waiting,    \* ControlState::waiting
  undo,       \* ControlState::undo, latest last
  afterOpen,  \* App::after_open: what acts once another board is there
  requests,   \* sent and not handled, each with its pending and undoable entry
  held,       \* the request that is being handled, and the copy of the task it is decided on
  answers,    \* handled, the answer still on its way
  scans,      \* how many scans and keys so far
  edits,      \* how many changes of other people so far
  armings,    \* observation: how many times a command was armed
  spent,      \* observation: armings that have acted, or were cancelled or replaced
  lastBy,     \* observation: what changed a task's row last
  acted       \* observation: the arming that acted in the last step, and the one its task was scanned for

vars == <<row, shown, open, overlay, armed, waiting, undo, afterOpen, requests, held, answers,
          scans, edits, armings, spent, lastBy, acted>>
client == <<open, overlay, armed, waiting, undo, afterOpen>>

Moves == {"MoveLeft", "MoveRight", "MoveUp", "MoveDown", "MoveTop", "MoveBottom", "MoveTo"}
Arming == Moves \cup {"Delete", "Print", "ToggleAssign", "Checklist", "Exclude", "Show", "Edit"}
Valued == {"Insert", "Replace", "Search"}
Targeted == {"ShowBoard", "StartProgram", "StartProgramNow", "NewFromTemplate"}

NewRow(pos) == [col |-> 1, pos |-> pos, mine |-> FALSE, done |-> FALSE, excluded |-> FALSE,
           from |-> None, version |-> 0]

\* archived_from_col: a task in the archive keeps the column it came from.
Archived(r) == r.from # None

\* Task::draft: the fields an edit writes, all of them.
Draft(r) == <<r.mine, r.done>>

\* Every board's tasks start in its first column, one below the other.
Init ==
  /\ \E place \in [Task -> 0..Cardinality(Task) - 1] :
       /\ \A t, u \in Task : t # u /\ BoardOf[t] = BoardOf[u] => place[t] # place[u]
       /\ \A t \in Task : place[t] < Cardinality({u \in Task : BoardOf[u] = BoardOf[t]})
       /\ row = [t \in Task |-> NewRow(place[t])]
  /\ shown = row
  /\ open \in Board \cup {None} /\ overlay = None
  /\ armed = None /\ waiting = None /\ undo = <<>> /\ afterOpen = None
  /\ requests = <<>> /\ held = None /\ answers = <<>> /\ scans = 0 /\ edits = 0
  /\ armings = 0 /\ spent = {} /\ lastBy = [t \in Task |-> "else"] /\ acted = None

----------------------------------------------------------------------------
(* What the client sends.                                                     *)

Step(kind, t, old) == [kind |-> kind, task |-> t, old |-> old, version |-> 0]

\* A request, what it is pending as, and what undoes it once it has succeeded.
Request(op, t, val, version, pending, step) ==
  [op |-> op, task |-> t, val |-> val, version |-> version, pending |-> pending, step |-> step]
Send(r) == requests' = Append(requests, r)

MoveRequest(t, col, pos, step) == Request("MoveTask", t, <<col, pos>>, 0, "MoveTask", step)

\* send_move_undo: the move, and the way back to where the copy says it was.
UndoableMove(t, r, col, pos) ==
  Send(MoveRequest(t, col, pos, Step("Move", t, <<r.col, r.pos>>)))

Siblings(t, r) ==
  {u \in Task : BoardOf[u] = BoardOf[t] /\ ~Archived(shown[u]) /\ shown[u].col = r.col}
Ahead(t, r) == {u \in Siblings(t, r) \ {t} : shown[u].pos < shown[t].pos}
Behind(t, r) == {u \in Siblings(t, r) \ {t} : shown[u].pos > shown[t].pos}

\* Where a command puts a task within its column, from the order on screen:
\* beside its neighbour, or beyond the first or the last.
Above(S) == {shown[u].pos - 1 : u \in {v \in S : \A w \in S : shown[v].pos <= shown[w].pos}}
Below(S) == {shown[u].pos + 1 : u \in {v \in S : \A w \in S : shown[v].pos >= shown[w].pos}}
Slot(command, t, r) ==
  CASE command = "MoveTop" -> Above(Ahead(t, r))
    [] command = "MoveBottom" -> Below(Behind(t, r))
    [] command = "MoveUp" -> Above({u \in Ahead(t, r) : \A v \in Ahead(t, r) : shown[v].pos <= shown[u].pos})
    [] command = "MoveDown" -> Below({u \in Behind(t, r) : \A v \in Behind(t, r) : shown[v].pos >= shown[u].pos})

\* A command refused with a toast and the bell.
Refuse == UNCHANGED <<requests, overlay>>

MoveBy(a, t, r) ==
  LET to == IF a.command = "MoveLeft" THEN r.col - 1 ELSE r.col + 1
  IN  IF to \in 1..Width THEN UndoableMove(t, r, to, None) /\ UNCHANGED overlay ELSE Refuse

Reorder(a, t, r) ==
  IF open = BoardOf[t] /\ Slot(a.command, t, r) # {}
  THEN \E pos \in Slot(a.command, t, r) : UndoableMove(t, r, r.col, pos) /\ UNCHANGED overlay
  ELSE Refuse

Window(kind, t, r) == overlay' = [kind |-> kind, task |-> t, copy |-> r] /\ UNCHANGED requests

\* apply_armed: the same requests the keyboard sends, on the copy that came
\* with the answer.
ApplyArmed(a, t, r) ==
  \/ a.command \in {"MoveLeft", "MoveRight"} /\ MoveBy(a, t, r)
  \/ a.command \in {"MoveUp", "MoveDown", "MoveTop", "MoveBottom"} /\ Reorder(a, t, r)
  \/ a.command = "MoveTo" /\ Window("ColumnPick", t, r)
  \/ a.command = "Delete" /\ Send(Request("DeleteTask", t, None, 0, "DeleteTask", Step("Restore", t, None))) /\ UNCHANGED overlay
  \/ a.command = "Print" /\ Send(Request("PrintTask", t, None, 0, "Print", None)) /\ UNCHANGED overlay
  \/ a.command = "ToggleAssign"
     /\ Send(Request("UpdateTask", t, <<~r.mine, r.done>>, r.version, "ControlOp",
                     Step("Update", t, Draft(r))))
     /\ UNCHANGED overlay
  \/ a.command = "Checklist"
     /\ Send(Request("SetChecklistItem", t, ~r.done, 0, "ChecklistOp", Step("Checklist", t, r.done)))
     /\ UNCHANGED overlay
  \/ a.command = "Exclude"
     /\ Send(Request("SetExcludeFromStats", t, ~r.excluded, 0, "ExcludeFromStats", Step("Exclude", t, r.excluded)))
     /\ UNCHANGED overlay
  \/ a.command = "Show" /\ Window("TaskDetail", t, r)
  \/ a.command = "Edit" /\ Window("TaskForm", t, r)

\* Faulty variant: an armed command stays armed until Esc.
UseArmedKept == armed' = armed

\* use_armed: gone afterwards unless it is sticky.
UseArmed == armed' = IF armed.sticky THEN armed ELSE None

\* What the observations make of an armed command that acts now.
Acts(a) ==
  /\ acted' = [arming |-> a.id, sticky |-> a.sticky]
  /\ spent' = spent \cup {a.id}
Idle == acted' = None /\ UNCHANGED spent

----------------------------------------------------------------------------
(* Scans and keys.                                                            *)

Scanning == scans < MaxScans /\ scans' = scans + 1 /\ acted' = None

Arm(command) ==
  /\ armed' = [command |-> command, sticky |-> FALSE, id |-> armings + 1]
  /\ armings' = armings + 1
  /\ spent' = IF armed = None THEN spent ELSE spent \cup {armed.id}

\* A command that wants a task is armed whatever is open.
ScanCommand(command) ==
  /\ Scanning /\ command \in Arming
  /\ Arm(command)
  /\ UNCHANGED <<row, shown, open, overlay, waiting, undo, afterOpen, requests, held, answers, edits, lastBy>>

\* A command without the value it needs waits for one.
ScanValued(command) ==
  /\ Scanning /\ command \in Valued
  /\ waiting' = command
  /\ UNCHANGED <<row, shown, open, overlay, armed, undo, afterOpen, requests, held, answers, edits, armings, spent, lastBy>>

\* A value goes to what waits for one: typed into the focused field, or
\* searched for, which leaves the board.
ScanValue ==
  /\ Scanning
  /\ waiting' = None
  /\ IF waiting = "Search" /\ overlay = None
     THEN open' = None /\ Send(Request("Search", None, None, 0, "Search", None))
     ELSE UNCHANGED <<open, requests>>
  /\ UNCHANGED <<row, shown, overlay, armed, undo, afterOpen, held, answers, edits, armings, spent, lastBy>>

\* A command that names a board, a program or a template: the daemon is asked
\* what it is.
ScanTargeted(command) ==
  /\ Scanning /\ command \in Targeted
  /\ \E b \in Board : Send(Request("Lookup", None, b, 0, command, None))
  /\ UNCHANGED <<row, shown, client, held, answers, edits, armings, spent, lastBy>>

ScanSticky ==
  /\ Scanning /\ armed # None
  /\ armed' = [armed EXCEPT !.sticky = TRUE]
  /\ UNCHANGED <<row, shown, open, overlay, waiting, undo, afterOpen, requests, held, answers, edits, armings, spent, lastBy>>

Resolve(t) == Request("Resolve", t, None, 0, "Resolve", None)

\* system_scan: with something armed the task is asked for, without it the
\* code does what it says, and under a window it does nothing.
ScanTask(t) ==
  /\ Scanning
  /\ \/ armed # None /\ Send(Resolve(t))
     \/ armed = None /\ overlay = None /\ Send(Request("Scan", t, None, 0, "Scan", None))
     \/ armed = None /\ overlay # None /\ UNCHANGED requests
  /\ UNCHANGED <<row, shown, client, held, answers, edits, armings, spent, lastBy>>

\* The code on a slip that shows its task: armed and scanned in one.
ScanShow(t) ==
  /\ Scanning
  /\ Arm("Show")
  /\ Send(Resolve(t))
  /\ UNCHANGED <<row, shown, open, overlay, waiting, undo, afterOpen, held, answers, edits, lastBy>>

\* control_selected: the task under the cursor stands in for a scan.
ScanSelected(t) ==
  /\ scans < MaxScans /\ scans' = scans + 1
  /\ armed # None /\ open = BoardOf[t] /\ ~Archived(shown[t])
  /\ UseArmed
  /\ ApplyArmed(armed, t, shown[t])
  /\ Acts(armed)
  /\ UNCHANGED <<row, shown, open, waiting, undo, afterOpen, held, answers, edits, armings, lastBy>>

UndoRequest(s) ==
  CASE s.kind = "Move" -> MoveRequest(s.task, s.old[1], s.old[2], None)
    [] s.kind = "Update" -> Request("UpdateTask", s.task, s.old, s.version, "Undo", None)
    [] s.kind = "Restore" -> Request("RestoreTask", s.task, None, 0, "Restore", None)
    [] s.kind = "Checklist" -> Request("SetChecklistItem", s.task, s.old, 0, "ChecklistOp", None)
    [] s.kind = "Exclude" -> Request("SetExcludeFromStats", s.task, s.old, 0, "ExcludeFromStats", None)

\* control_undo: the latest change is taken off the stack and reversed.
ScanUndo ==
  /\ Scanning /\ undo # <<>>
  /\ undo' = SubSeq(undo, 1, Len(undo) - 1)
  /\ Send(UndoRequest(undo[Len(undo)]))
  /\ UNCHANGED <<row, shown, open, overlay, armed, waiting, afterOpen, held, answers, edits, armings, spent, lastBy>>

\* Esc, scanned or pressed, and the time that runs out while nothing comes.
Cancel ==
  /\ Scanning /\ (armed # None \/ waiting # None)
  /\ armed' = None /\ waiting' = None
  /\ spent' = IF armed = None THEN spent ELSE spent \cup {armed.id}
  /\ UNCHANGED <<row, shown, open, overlay, undo, afterOpen, requests, held, answers, edits, armings, lastBy>>

\* The column pick: a digit or Enter moves the task, Esc and the timeout leave it.
PickColumn ==
  /\ Scanning /\ overlay # None /\ overlay.kind = "ColumnPick"
  /\ overlay' = None
  /\ \/ \E c \in 1..Width : UndoableMove(overlay.task, overlay.copy, c, None)
     \/ UNCHANGED requests
  /\ UNCHANGED <<row, shown, open, armed, waiting, undo, afterOpen, held, answers, edits, armings, spent, lastBy>>

CloseWindow ==
  /\ Scanning /\ overlay # None /\ overlay.kind # "ColumnPick"
  /\ overlay' = None
  /\ UNCHANGED <<row, shown, open, armed, waiting, undo, afterOpen, requests, held, answers, edits, armings, spent, lastBy>>

GetBoard(b, focus) == Request("GetBoard", focus, b, 0, "OpenBoard", None)

\* control_step_board and the keys that open a board or leave it.
OpenBoard(b) ==
  /\ Scanning /\ overlay = None
  /\ Send(GetBoard(b, None))
  /\ UNCHANGED <<row, shown, client, held, answers, edits, armings, spent, lastBy>>

LeaveBoard ==
  /\ Scanning /\ overlay = None /\ open # None
  /\ open' = None
  /\ UNCHANGED <<row, shown, overlay, armed, waiting, undo, afterOpen, requests, held, answers, edits, armings, spent, lastBy>>

----------------------------------------------------------------------------
(* The daemon, which handles the requests of a connection in order.           *)

Changed(t, r, by) ==
  /\ row' = [row EXCEPT ![t] = [r EXCEPT !.version = @ + 1]]
  /\ lastBy' = [lastBy EXCEPT ![t] = by]

Answer(q, ok, r) == answers' = Append(answers, [request |-> q, ok |-> ok, copy |-> r])

\* next_position: the end of a column, the archive not counted.
EndOf(t, col) ==
  LET there == {row[u].pos : u \in {v \in Task : /\ BoardOf[v] = BoardOf[t] /\ row[v].col = col
                                                /\ ~Archived(row[v])}}
  IN  IF there = {} THEN {0} ELSE {p + 1 : p \in {x \in there : \A y \in there : y <= x}}

\* apply_move: without a position a task that stays in its column keeps the
\* place the copy has.
PlaceFor(q, copy) ==
  IF q.val[2] # None THEN {q.val[2]}
  ELSE IF q.val[1] = copy.col THEN {copy.pos} ELSE EndOf(q.task, q.val[1])

Placed(r, col, pos) == [r EXCEPT !.col = col, !.pos = pos]
Drafted(r, draft) == [r EXCEPT !.mine = draft[1], !.done = draft[2]]

\* What a request that was accepted on a copy leaves of the row there is.
Written(q, copy, r) ==
  CASE q.op = "UpdateTask" -> {Drafted(r, q.val)}
    [] q.op = "SetChecklistItem" -> {[r EXCEPT !.done = q.val]}
    [] q.op = "SetExcludeFromStats" -> {[r EXCEPT !.excluded = q.val]}
    [] q.op = "DeleteTask" -> {[r EXCEPT !.from = r.col]}
    [] q.op = "RestoreTask" -> {Placed([r EXCEPT !.from = None], copy.from, p) : p \in EndOf(q.task, copy.from)}
    [] q.op = "MoveTask" -> {Placed(r, q.val[1], p) : p \in PlaceFor(q, copy)}
    [] q.op = "Scan" -> {Placed(r, Width, p) : p \in EndOf(q.task, Width)}

By(q) == IF q.op = "Scan" THEN "else" ELSE IF q.step = None THEN "undo" ELSE "code"

Fits(q, r) ==
  /\ q.op \in {"MoveTask", "DeleteTask", "Scan"} => ~Archived(r)
  /\ q.op = "RestoreTask" => Archived(r)
  /\ q.op = "Scan" => r.col # Width

\* Faulty variant: the version an edit is based on is not compared.
AcceptsAny(q, r) == Fits(q, r)

Accepts(q, r) ==
  /\ Fits(q, r)
  /\ q.op = "UpdateTask" => q.version = r.version

Writing == {"MoveTask", "UpdateTask", "SetChecklistItem", "SetExcludeFromStats",
            "DeleteTask", "RestoreTask", "Scan"}

DaemonOnly == acted' = None /\ UNCHANGED <<shown, client, scans, edits, armings, spent>>

\* load_task, and the checks on the copy; it may also be refused for a right
\* the user lost or a dependency that is open.
LoadTask ==
  /\ held = None /\ requests # <<>> /\ requests' = Tail(requests)
  /\ LET q == Head(requests) IN
       /\ q.op \in Writing
       /\ \/ Accepts(q, row[q.task]) /\ held' = [request |-> q, copy |-> row[q.task]] /\ UNCHANGED answers
          \/ Answer(q, FALSE, None) /\ UNCHANGED held
  /\ DaemonOnly /\ UNCHANGED <<row, lastBy>>

\* The transaction: it writes its fields into the row as it is by now, and
\* reads the row it leaves.
WriteTask ==
  /\ held # None /\ held' = None
  /\ LET q == held.request IN
     \E r \in Written(q, held.copy, row[q.task]) :
       Changed(q.task, r, By(q)) /\ Answer(q, TRUE, row'[q.task])
  /\ DaemonOnly /\ UNCHANGED requests

\* What only reads is answered from one lock hold.
Respond ==
  /\ held = None /\ requests # <<>> /\ requests' = Tail(requests)
  /\ LET q == Head(requests) IN
       /\ q.op \notin Writing
       /\ \/ Answer(q, TRUE, IF q.op = "Resolve" THEN row[q.task] ELSE row)
          \/ q.op \in {"Resolve", "GetBoard"} /\ Answer(q, FALSE, None)
  /\ DaemonOnly /\ UNCHANGED <<row, held, lastBy>>

\* Another connection commits a change: the fields a person edits, or its place.
OtherEdit(t) ==
  /\ edits < MaxEdits /\ edits' = edits + 1
  /\ \/ Changed(t, [row[t] EXCEPT !.mine = ~@], "else")
     \/ Changed(t, [row[t] EXCEPT !.done = ~@], "else")
     \/ \E c \in 1..Width \ {row[t].col} : Changed(t, [row[t] EXCEPT !.col = c], "else")
  /\ acted' = None
  /\ UNCHANGED <<shown, client, requests, held, answers, scans, armings, spent>>

----------------------------------------------------------------------------
(* Answers.                                                                   *)

\* remember_undo: the change went through; an edit learns the version it left.
Remembered(step, r) ==
  IF step = None THEN undo
  ELSE LET s == IF step.kind = "Update" THEN [step EXCEPT !.version = r.version] ELSE step
           all == Append(undo, s)
       IN  IF Len(all) > UndoDepth THEN Tail(all) ELSE all

Upsert(t, r) == IF open = BoardOf[t] THEN [shown EXCEPT ![t] = r] ELSE shown

\* Any change that comes back changed. One that was refused leaves a toast, and
\* nothing to undo.
TaskAnswer(a) ==
  /\ a.request.op \in Writing
  /\ IF a.ok
     THEN undo' = Remembered(a.request.step, a.copy) /\ shown' = Upsert(a.request.task, a.copy)
     ELSE UNCHANGED <<undo, shown>>
  /\ Idle
  /\ UNCHANGED <<open, overlay, armed, waiting, afterOpen, requests>>

\* on_resolved: the armed command is used; for a task of another board than the
\* open one the client goes there first.
Resolved(a) ==
  /\ a.request.op = "Resolve" /\ a.ok
  /\ LET t == a.request.task
     IN  IF armed = None
         THEN Idle /\ UNCHANGED <<armed, afterOpen, requests, overlay>>
         ELSE /\ UseArmed
              /\ IF open \notin {None, BoardOf[t]}
                 THEN /\ afterOpen' = [armed |-> armed, task |-> t]
                      /\ Send(GetBoard(BoardOf[t], t))
                      /\ Idle /\ UNCHANGED overlay
                 ELSE /\ ApplyArmed(armed, t, a.copy)
                      /\ Acts(armed)
                      /\ UNCHANGED afterOpen
  /\ UNCHANGED <<shown, open, waiting, undo>>

\* OpenBoard: the board is there, and the command that brought us here acts.
BoardAnswer(a) ==
  /\ a.request.op = "GetBoard" /\ a.ok
  /\ open' = a.request.val
  /\ shown' = [t \in Task |-> IF BoardOf[t] = open' THEN a.copy[t] ELSE shown[t]]
  /\ IF afterOpen # None /\ afterOpen.task = a.request.task
     THEN /\ afterOpen' = None
          /\ IF Archived(a.copy[afterOpen.task])
             THEN Idle /\ UNCHANGED <<requests, overlay>>
             ELSE /\ ApplyArmed(afterOpen.armed, afterOpen.task, a.copy[afterOpen.task])
                  /\ Acts(afterOpen.armed)
     ELSE Idle /\ UNCHANGED <<afterOpen, requests, overlay>>
  /\ UNCHANGED <<armed, waiting, undo>>

\* on_found: a board is opened, a program or a template opens its form or, with
\* the "now" codes, is used unseen. Under a window the first two are refused.
Found(a) ==
  /\ a.request.op = "Lookup"
  /\ \/ /\ a.request.pending = "ShowBoard" /\ overlay = None
        /\ Send(GetBoard(a.request.val, None)) /\ UNCHANGED overlay
     \/ /\ a.request.pending = "StartProgram" /\ overlay = None
        /\ Window("StartProgram", None, None)
     \/ /\ a.request.pending \in {"StartProgramNow", "NewFromTemplate"}
        /\ Send(Request("Create", None, None, 0, a.request.pending, None)) /\ UNCHANGED overlay
     \/ /\ a.request.pending \in {"ShowBoard", "StartProgram"} /\ overlay # None
        /\ Refuse
  /\ Idle
  /\ UNCHANGED <<shown, open, armed, waiting, undo, afterOpen>>

\* Searches, prints and tasks made unseen only leave a toast here.
OtherAnswer(a) ==
  /\ a.request.op \in {"Search", "PrintTask", "Create"}
  /\ Idle
  /\ UNCHANGED <<shown, client, requests>>

\* on_error: a task or a board that is gone or closed to this user; what waited
\* for the board does not act.
RefusedAnswer(a) ==
  /\ ~a.ok /\ a.request.op \in {"Resolve", "GetBoard"}
  /\ afterOpen' = IF a.request.op = "GetBoard" THEN None ELSE afterOpen
  /\ Idle
  /\ UNCHANGED <<shown, open, overlay, armed, waiting, undo, requests>>

OnAnswer ==
  /\ answers # <<>>
  /\ answers' = Tail(answers)
  /\ LET a == Head(answers)
     IN  TaskAnswer(a) \/ Resolved(a) \/ BoardAnswer(a) \/ Found(a) \/ OtherAnswer(a)
             \/ RefusedAnswer(a)
  /\ UNCHANGED <<row, held, scans, edits, armings, lastBy>>

\* The event of a change of the open board.
Hear(t) ==
  /\ open = BoardOf[t] /\ shown[t] # row[t]
  /\ shown' = [shown EXCEPT ![t] = row[t]]
  /\ acted' = None
  /\ UNCHANGED <<row, client, requests, held, answers, scans, edits, armings, spent, lastBy>>

Scan ==
  \/ \E c \in Commands : ScanCommand(c) \/ ScanValued(c) \/ ScanTargeted(c)
  \/ \E t \in Task : ScanTask(t) \/ (("Show" \in Commands) /\ ScanShow(t)) \/ ScanSelected(t)
  \/ ScanValue \/ ScanSticky \/ ScanUndo \/ Cancel \/ PickColumn \/ CloseWindow
  \/ \E b \in Board : OpenBoard(b)
  \/ LeaveBoard

Next ==
  \/ Scan
  \/ LoadTask \/ WriteTask \/ Respond
  \/ OnAnswer
  \/ \E t \in Task : OtherEdit(t) \/ Hear(t)

Spec == Init /\ [][Next]_vars

----------------------------------------------------------------------------
(* Properties.                                                                *)

UndoWrites == held # None /\ held' = None /\ held.request.pending = "Undo"

\* control_undo of an edit ("If someone else changed the task after your code,
\* undoing an edit is refused as a conflict"): what somebody else wrote after
\* the code's change and before the daemon compared the versions is never
\* overwritten by the old fields. Where nothing was committed between the
\* comparison and the write, the last that happened to the row is a change a
\* code made; what is committed in between is overwritten.
UndoOnlyItsOwn ==
  [][UndoWrites => \/ lastBy[held.request.task] = "code"
                   \/ row[held.request.task].version # held.copy.version]_vars

\* use_armed, Esc and the timeout: a command that is not sticky acts on one task
\* only, and never once it was cancelled or replaced, however many answers to
\* scans were still on their way.
OnceOrCancelled ==
  [][acted' # None /\ ~acted'.sticky => acted'.arming \notin spent]_vars

============================================================================
