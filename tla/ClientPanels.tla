---------------------------- MODULE ClientPanels ----------------------------
(* The list panels of the terminal client: archive, repetitions, members,      *)
(* templates, programs, runs, columns and users. A panel shows a list as an    *)
(* answer brought it, and acts on the row under the cursor. Answers come in    *)
(* the order of the requests, events between them over the same connection. A  *)
(* behaviour has one kind of panel.                                            *)
EXTENDS Integers, Sequences, FiniteSets

CONSTANTS
  Place,       \* boards
  Rows,        \* what each kind of list holds at first, board by board
  Mine,        \* rows that are the user: their template, program or account
  Busy,        \* members with tasks on the board
  MaxId,       \* bound: new rows get the next id
  MaxStrokes,  \* bound: keys
  MaxOthers,   \* bound: changes by others
  None

VARIABLES
  kind,        \* the kind of panel
  manages,     \* the user owns the board or is an admin
  table,       \* the daemon's list of each board
  stamp,       \* observation: how often the table has changed
  place,       \* the open board: None, or its id and its copy of the columns
  window,      \* App::overlay
  asked,       \* requests under way, in order
  news,        \* events the connection has not forwarded yet
  wire,        \* answers and events on their way to the client
  strokes, others, \* the counters of the bounds
  missed,      \* observation: changes whose news found a question before the panel
  touched,     \* observation: rows that others changed
  strayed      \* observation: a list came that is not of the open board

panels == <<kind, manages, table, stamp, place, window, asked, news, wire, strokes, others,
            missed, touched, strayed>>

Kinds == {"Archive", "Repeats", "Members", "Templates", "Programs", "Runs", "Columns", "Users"}

\* Panels that open before their list is there, and panels a list opens.
OpensAtOnce == {"Members", "Columns", "Users"}

Row(id, flag) == [id |-> id, flag |-> flag]
Ids(rows) == {rows[i].id : i \in DOMAIN rows}
Without(rows, id) == SelectSeq(rows, LAMBDA r : r.id # id)

\* clamp: the cursor stays on a row.
Clamp(sel, rows) == IF rows = <<>> THEN 0 ELSE IF sel > Len(rows) THEN Len(rows) ELSE IF sel = 0 THEN 1 ELSE sel

Panel(b, rows) == [is |-> "panel", board |-> b, rows |-> rows, all |-> <<>>, sel |-> Clamp(0, rows)]
Question(op, id, back) == [is |-> "question", op |-> op, id |-> id, back |-> back]
\* advance_remove_flow: the next question about a column, or the last one.
Advance(id, left, back) ==
  IF left = 0 THEN Question("Delete", id, back) ELSE [is |-> "pick", id |-> id, left |-> left, back |-> back]
Form(b) == [is |-> "form", board |-> b, saving |-> FALSE]
Is(what) == window # None /\ window.is = what

Shown(p, rows) == [p EXCEPT !.rows = rows, !.sel = Clamp(@, rows)]
Selected == window.rows[window.sel]
HasRow == Is("panel") /\ window.sel # 0

\* MembersPanel::recompute: who is not a member yet.
Candidates(p) == {id \in Ids(p.all) : id \notin Ids(p.rows)}

PanelsInit ==
  /\ kind \in Kinds /\ manages \in BOOLEAN
  /\ table = [b \in Place |-> Rows[kind][b]] /\ stamp = 0
  /\ place \in {[id |-> b, columns |-> Rows[kind][b]] : b \in Place}
  /\ window = None /\ asked = <<>> /\ news = <<>> /\ wire = <<>>
  /\ strokes = 0 /\ others = 0
  /\ missed = {} /\ touched = {} /\ strayed = FALSE

Here == IF place = None THEN None ELSE place.id

\* Where a list is kept: the users are one list for all boards.
ListOf(b) == IF kind = "Users" THEN CHOOSE c \in Place : TRUE ELSE b
Ask(op, b, id) == [op |-> op, board |-> b, id |-> id, order |-> <<>>]

-----------------------------------------------------------------------------
(* Keys.                                                                      *)

Stroke == strokes < MaxStrokes /\ strokes' = strokes + 1
Elsewhere == UNCHANGED <<kind, manages, table, stamp, news, wire, others, missed, touched, strayed>>

\* board_key, and open_members, open_columns and open_users.
OpenPanel ==
  /\ Stroke /\ window = None /\ place # None
  /\ kind = "Columns" => manages
  /\ kind = "Users" => manages
  /\ window' = IF kind \notin OpensAtOnce THEN None
               ELSE Panel(Here, IF kind = "Columns" THEN place.columns ELSE <<>>)
  /\ asked' = IF kind = "Columns" THEN asked
              ELSE IF kind = "Members" THEN asked \o <<Ask("List", Here, None), Ask("ListUsers", Here, None)>>
              ELSE Append(asked, Ask("List", Here, None))
  /\ UNCHANGED place /\ Elsewhere

\* The arrow keys.
MoveCursor ==
  /\ Stroke /\ HasRow
  /\ \E d \in {-1, 1} :
       /\ window.sel + d \in DOMAIN window.rows
       /\ window' = [window EXCEPT !.sel = @ + d]
  /\ UNCHANGED <<place, asked>> /\ Elsewhere

\* What the panels let their user do with a row: archive, members, templates
\* and programs, runs, columns, users.
MayPurge == manages
MayRemove == manages /\ Selected.id \notin Mine
MayManageTemplate == manages \/ Selected.id \in Mine
MayManageProgram == manages \/ Selected.id \in Mine
MayCancel == ~Selected.flag
MayRemoveColumn == Len(window.rows) > 1
MayToggle == ~(Selected.id \in Mine /\ Selected.flag)

\* Enter or a button on the row sends a request, or puts a question before it
\* with the panel behind.
OnRow(k, op) ==
  /\ Stroke /\ HasRow /\ kind = k
  /\ asked' = Append(asked, Ask(op, window.board, Selected.id))
  /\ UNCHANGED <<place, window>> /\ Elsewhere
AskAbout(k, op) ==
  /\ Stroke /\ HasRow /\ kind = k
  /\ window' = Question(op, Selected.id, window)
  /\ UNCHANGED <<place, asked>> /\ Elsewhere

RestoreTask == OnRow("Archive", "Restore")
StopRepeat == OnRow("Repeats", "Stop")
RemoveMember == OnRow("Members", "Remove") /\ MayRemove
SetAdmin == OnRow("Users", "Toggle") /\ MayToggle
PurgeTask == AskAbout("Archive", "Purge") /\ MayPurge
DeleteTemplate == AskAbout("Templates", "Delete") /\ MayManageTemplate
DeleteProgram == AskAbout("Programs", "Delete") /\ MayManageProgram
CancelRun == AskAbout("Runs", "Cancel") /\ MayCancel

\* start_remove_flow: where the tasks go and who takes the roles over is asked
\* first, as far as the column has any.
RemoveColumn ==
  /\ Stroke /\ HasRow /\ kind = "Columns" /\ MayRemoveColumn
  /\ \E n \in 0..1 : window' = Advance(Selected.id, n, window)
  /\ UNCHANGED <<place, asked>> /\ Elsewhere
PickColumn ==
  /\ Stroke /\ Is("pick")
  /\ \/ window' = Advance(window.id, window.left - 1, window.back)
     \/ window' = window.back
  /\ UNCHANGED <<place, asked>> /\ Elsewhere

\* confirm_event
AnswerQuestion(yes) ==
  /\ Stroke /\ Is("question")
  /\ window' = window.back
  /\ asked' = IF yes /\ window.op # "Quit" THEN Append(asked, Ask(window.op, window.back.board, window.id))
              ELSE asked
  /\ ~(yes /\ window.op = "Quit")
  /\ UNCHANGED place /\ Elsewhere

\* A candidate becomes a member; a column is added.
AddRow ==
  /\ Stroke /\ Is("panel")
  /\ \/ kind = "Members" /\ manages
        /\ \E id \in Candidates(window) : asked' = Append(asked, Ask("Add", window.board, id))
     \/ kind = "Columns" /\ asked' = Append(asked, Ask("New", window.board, None))
  /\ UNCHANGED <<place, window>> /\ Elsewhere

\* Up and Down with Shift: the order as it is shown with two columns swapped;
\* the cursor goes with the column.
ReorderColumns ==
  /\ Stroke /\ HasRow /\ kind = "Columns"
  /\ \E d \in {-1, 1} :
       LET i == window.sel
           swapped == [window.rows EXCEPT ![i] = window.rows[i + d], ![i + d] = window.rows[i]]
       IN  /\ i + d \in DOMAIN window.rows
           /\ asked' = Append(asked, [Ask("Reorder", window.board, None) EXCEPT
                               !.order = [k \in DOMAIN swapped |-> swapped[k].id]])
           /\ window' = [window EXCEPT !.sel = i + d]
  /\ UNCHANGED place /\ Elsewhere

\* New or edit: the form takes the place of the panel.
OpenForm ==
  /\ Stroke /\ Is("panel") /\ kind \in {"Templates", "Programs"}
  /\ window' = Form(window.board)
  /\ UNCHANGED <<place, asked>> /\ Elsewhere

SaveForm ==
  /\ Stroke /\ Is("form") /\ ~window.saving
  /\ window' = [window EXCEPT !.saving = TRUE]
  /\ asked' = Append(asked, Ask("New", window.board, None))
  /\ UNCHANGED place /\ Elsewhere

\* Esc; a program editor that is left asks for the programs again.
Close ==
  /\ Stroke
  /\ \/ Is("panel") /\ asked' = asked
     \/ Is("form") /\ ~window.saving
        /\ asked' = IF kind = "Programs" THEN Append(asked, Ask("List", window.board, None)) ELSE asked
  /\ window' = None
  /\ UNCHANGED place /\ Elsewhere

\* Ctrl-C puts its question in the place of whatever is open.
CtrlC ==
  /\ Stroke /\ window # None
  /\ window' = Question("Quit", None, None)
  /\ UNCHANGED <<place, asked>> /\ Elsewhere

\* Back to the dashboard, and from there to a board.
LeaveBoard ==
  /\ Stroke /\ window = None /\ place # None
  /\ place' = None
  /\ UNCHANGED <<window, asked>> /\ Elsewhere
OpenBoard ==
  /\ Stroke /\ window = None /\ place = None
  /\ \E b \in Place : asked' = Append(asked, Ask("GetBoard", b, None))
  /\ UNCHANGED <<place, window>> /\ Elsewhere

-----------------------------------------------------------------------------
(* The daemon.                                                                *)

\* A board's list after an operation, the same list when it is refused.
After(op, rows, id, order) ==
  CASE op \in {"Restore", "Stop", "Remove", "Unassign", "Purge", "Delete"} -> Without(rows, id)
    [] op = "Add" /\ id \notin Ids(rows)       -> Append(rows, Row(id, FALSE))
    [] op = "New" /\ id \notin Ids(rows)       -> Append(rows, Row(id, FALSE))
    [] op \in {"Cancel", "Toggle"}             -> [i \in DOMAIN rows |->
         IF rows[i].id = id THEN Row(id, op = "Cancel" \/ ~rows[i].flag) ELSE rows[i]]
    [] op = "Reorder" /\ {order[k] : k \in DOMAIN order} = Ids(rows) ->
         [k \in DOMAIN order |-> CHOOSE r \in {rows[i] : i \in DOMAIN rows} : r.id = order[k]]
    [] OTHER                                   -> rows

\* Who is told: a task left the archive or came to it, a board changed.
NewsOf(b, id, in) ==
  IF kind \notin {"Archive", "Columns", "Members"} THEN <<>>
  ELSE <<[op |-> "News", board |-> b, id |-> id, ok |-> in, rows |-> <<>>, at |-> stamp + 1]>>

Reads == {"List", "ListUsers", "GetBoard", "Refresh"}
FreeIds == {id \in 1..MaxId : \A b \in Place : id \notin Ids(table[b])} \ touched
NewId == CHOOSE id \in FreeIds : TRUE

\* One request of this connection, in order, and its answer.
Serve ==
  /\ asked # <<>>
  /\ LET r == Head(asked)
         id == IF r.op = "New" THEN NewId ELSE r.id
         \* Members and columns name their board, other rows are found by their id.
         b == IF r.op \in Reads \cup {"New", "Reorder"} \/ kind \in {"Members", "Columns", "Users"}
              THEN ListOf(r.board)
              ELSE IF \E c \in Place : id \in Ids(table[c]) THEN CHOOSE c \in Place : id \in Ids(table[c])
              ELSE CHOOSE c \in Place : TRUE
         refused == \/ r.op \in {"Remove"} /\ id \in Busy
                    \/ r.op = "Cancel" /\ \E k \in DOMAIN table[b] : table[b][k] = Row(id, TRUE)
         rows == IF refused \/ r.op \in Reads THEN table[b] ELSE After(r.op, table[b], id, r.order)
         changed == rows # table[b]
         ok == r.op \in Reads \/ changed \/ r.op = "Add"
     IN  /\ r.op = "New" => FreeIds # {}
         /\ table' = [table EXCEPT ![b] = rows]
         /\ stamp' = IF changed THEN stamp + 1 ELSE stamp
         /\ news' = IF changed THEN news \o NewsOf(b, id, id \in Ids(rows)) ELSE news
         /\ wire' = Append(wire, [op |-> r.op, board |-> r.board, id |-> id, ok |-> ok,
                                        rows |-> rows, at |-> stamp'])
  /\ asked' = Tail(asked)
  /\ UNCHANGED <<kind, manages, place, window, strokes, others, missed, touched, strayed>>

\* The connection forwards the next event (server.rs, serve).
Forward ==
  /\ news # <<>> /\ news' = Tail(news)
  /\ wire' = Append(wire, Head(news))
  /\ UNCHANGED <<kind, manages, table, stamp, place, window, asked, strokes, others, missed, touched, strayed>>

\* Somebody else's request: a row comes or goes.
Other ==
  /\ others < MaxOthers /\ others' = others + 1
  /\ \E b \in Place, id \in 1..MaxId :
       LET here == id \in Ids(table[b])
           rows == IF here THEN Without(table[b], id) ELSE <<Row(id, FALSE)>> \o table[b]
       IN  /\ \A c \in Place \ {b} : id \notin Ids(table[c])
           /\ kind = "Columns" /\ here => Len(table[b]) > 1
           /\ table' = [table EXCEPT ![b] = rows]
           /\ news' = news \o NewsOf(b, id, ~here)
           /\ touched' = touched \cup {id}
  /\ stamp' = stamp + 1
  /\ UNCHANGED <<kind, manages, place, window, asked, wire, strokes, missed, strayed>>

-----------------------------------------------------------------------------
(* Answers and events, whatever is open when they come.                       *)

Unmissed(at) == {m \in missed : m.n > at}
\* What the panel behind a question does not learn from an answer.
Lost(a) ==
  IF ~Is("question") \/ window.back = None THEN {}
  ELSE {[n |-> a.at, id |-> id] : id \in (Ids(a.rows) \ Ids(window.back.rows)) \cup (Ids(window.back.rows) \ Ids(a.rows))}
Reload(b) == Append(asked, Ask("List", b, None))

\* A list goes into the panel, or it opens one.
Filled(a, fill, opens) ==
  /\ window' = IF fill THEN Shown(window, a.rows) ELSE IF opens THEN Panel(Here, a.rows) ELSE window
  /\ strayed' = (strayed \/ ((fill \/ opens) /\ kind # "Users" /\ a.board # window'.board))
  /\ missed' = IF fill \/ opens THEN Unmissed(a.at) ELSE missed \cup Lost(a)
  /\ UNCHANGED <<place, asked>>
OnArchived(a) == Filled(a, FALSE, TRUE)
OnMembers(a) == Filled(a, Is("panel"), FALSE)
OnUsersPanel(a) == Filled(a, Is("panel"), FALSE)
OpensOrFills(a) == LET same == Is("panel") /\ window.board = Here IN Filled(a, same, ~same /\ place # None)
OnTemplates(a) == OpensOrFills(a)
OnPrograms(a) == OpensOrFills(a)
OnRuns(a) == OpensOrFills(a)
OnRepeats(a) == OpensOrFills(a)
OnList(a) ==
  CASE kind = "Archive" -> OnArchived(a) [] kind = "Members" -> OnMembers(a)
    [] kind = "Users" -> OnUsersPanel(a) [] kind = "Templates" -> OnTemplates(a)
    [] kind = "Programs" -> OnPrograms(a) [] kind = "Runs" -> OnRuns(a) [] kind = "Repeats" -> OnRepeats(a)

OnUsers(a) ==
  /\ window' = IF Is("panel") THEN [window EXCEPT !.all = [i \in 1..MaxId |-> Row(i, FALSE)]] ELSE window
  /\ UNCHANGED <<place, asked, missed, strayed>>

\* The board that was asked for is open now, with whatever window came over it
\* (Enter twice on the dashboard).
OnOpened(a) ==
  /\ place' = [id |-> a.board, columns |-> a.rows]
  /\ missed' = IF window = None THEN missed ELSE missed \cup {[n |-> a.at, id |-> a.id]}
  /\ UNCHANGED <<window, asked, strayed>>

\* A board that changed, or a column operation: the copy, and the open panel.
OnBoard(a) ==
  /\ place' = IF Here = a.board THEN [place EXCEPT !.columns = a.rows] ELSE place
  /\ LET fill == Is("panel") /\ kind = "Columns" /\ (a.op # "Refresh" \/ window.board = a.board)
     IN  /\ window' = IF fill THEN Shown([window EXCEPT !.board = a.board], a.rows) ELSE window
         /\ missed' = IF fill THEN Unmissed(a.at)
                      ELSE IF Is("question") \/ Is("pick") THEN missed \cup {[n |-> a.at, id |-> a.id]} ELSE missed
  /\ UNCHANGED <<asked, strayed>>

\* An operation went through: the list is asked for again, if the panel is
\* there. What a member's panel is not told behind a question stays untold.
Reloading(a) ==
  /\ asked' = IF Is("panel") THEN Reload(window.board) ELSE asked
  /\ missed' = IF Is("question") THEN missed \cup {[n |-> a.at, id |-> a.id]} ELSE missed
  /\ UNCHANGED <<place, window, strayed>>
MemberDone(a) == Reloading(a)
AdminDone(a) == Reloading(a)
\* Faulty variant: the row under the cursor is taken away, whatever was answered.
RepeatStoppedAtCursor(a) ==
  /\ window' = IF HasRow THEN Shown(window, Without(window.rows, Selected.id)) ELSE window
  /\ UNCHANGED <<place, asked, missed, strayed>>
RepeatStopped(a) ==
  /\ window' = IF Is("panel") THEN Shown(window, Without(window.rows, a.id)) ELSE window
  /\ UNCHANGED <<place, asked, missed, strayed>>
ReloadHere == /\ asked' = IF place # None THEN Reload(Here) ELSE asked
              /\ UNCHANGED <<place, window, missed, strayed>>
TemplateDeleted == ReloadHere
ProgramDeleted == ReloadHere
RunCancelled == ReloadHere
\* A saved template or program closes the form that is open, and brings the
\* list of its own board.
Saved(a) ==
  /\ window' = IF Is("form") THEN None ELSE window
  /\ asked' = Reload(a.board)
  /\ UNCHANGED <<place, missed, strayed>>
TemplateSaved(a) == Saved(a)
ProgramSaved(a) == Saved(a)
OnDone(a) ==
  CASE kind = "Members" -> MemberDone(a) [] kind = "Users" -> AdminDone(a) [] kind = "Repeats" -> RepeatStopped(a)
    [] kind = "Runs" -> RunCancelled
    [] kind = "Templates" /\ a.op = "New" -> TemplateSaved(a) [] kind = "Templates" /\ a.op # "New" -> TemplateDeleted
    [] kind = "Programs" /\ a.op = "New" -> ProgramSaved(a) [] kind = "Programs" /\ a.op # "New" -> ProgramDeleted
    [] OTHER -> UNCHANGED <<place, window, asked, missed, strayed>>

\* A refusal: a member with tasks is asked about again; the code takes
\* whatever is open.
OnRefused(a) ==
  /\ window' = IF a.op = "Remove" /\ a.id \in Busy
               THEN IF Is("panel") THEN Question("Unassign", a.id, window) ELSE None
               ELSE IF Is("form") THEN [window EXCEPT !.saving = FALSE] ELSE window
  /\ UNCHANGED <<place, asked, missed, strayed>>

\* on_event. ArchivePanel::upsert and remove, if it is open and of the open
\* board; a change of the board has the copy of the board read again.
OnNews(e) ==
  LET told == Is("panel") /\ kind = "Archive" /\ e.board = Here
  IN  /\ window' = IF ~told THEN window
                   ELSE IF ~e.ok THEN Shown(window, Without(window.rows, e.id))
                   ELSE IF e.id \in Ids(window.rows) THEN window
                   ELSE Shown(window, <<Row(e.id, FALSE)>> \o window.rows)
      /\ missed' = IF kind = "Archive" /\ ~told THEN missed \cup {[n |-> e.at, id |-> e.id]} ELSE missed
      /\ asked' = IF kind # "Archive" /\ e.board = Here THEN Append(asked, Ask("Refresh", e.board, None))
                  ELSE asked
      /\ UNCHANGED <<place, strayed>>

OnAnswer ==
  /\ wire # <<>> /\ wire' = Tail(wire)
  /\ LET a == Head(wire)
     IN  CASE a.op = "News"            -> OnNews(a)
           [] a.op # "News" /\ ~a.ok   -> OnRefused(a)
           [] a.op = "List"            -> OnList(a)
           [] a.op = "ListUsers"       -> OnUsers(a)
           [] a.op = "GetBoard"        -> OnOpened(a)
           [] a.op = "Refresh"         -> OnBoard(a)
           [] a.op \notin Reads \cup {"News"} /\ a.ok /\ kind = "Columns" -> OnBoard(a)
           [] OTHER                    -> OnDone(a)
  /\ UNCHANGED <<kind, manages, table, stamp, news, strokes, others, touched>>

PanelsNext ==
  \/ OpenPanel \/ MoveCursor \/ AddRow \/ ReorderColumns
  \/ RestoreTask \/ StopRepeat \/ RemoveMember \/ SetAdmin
  \/ PurgeTask \/ DeleteTemplate \/ DeleteProgram \/ CancelRun \/ RemoveColumn \/ PickColumn
  \/ OpenForm \/ SaveForm \/ Close \/ CtrlC \/ LeaveBoard \/ OpenBoard
  \/ \E yes \in BOOLEAN : AnswerQuestion(yes)
  \/ Serve \/ Forward \/ Other \/ OnAnswer

-----------------------------------------------------------------------------
\* Once everything has arrived, an open panel holds what the daemon holds: a
\* panel that is told of changes except for those it was told of behind a
\* question or before its list came, and a panel that is not except for what
\* others changed; columns in the daemon's order; and the cursor on a row.
\* (Unless a list of another board has strayed in.)
PanelCatchesUp ==
  Is("panel") /\ asked = <<>> /\ news = <<>> /\ wire = <<>> /\ ~strayed /\ window.board = Here =>
    LET rows == table[ListOf(window.board)]
        off == (Ids(rows) \ Ids(window.rows)) \cup (Ids(window.rows) \ Ids(rows))
        excused == {m.id : m \in missed} \cup (IF kind = "Archive" THEN {} ELSE touched)
    IN  /\ kind # "Columns" => off \subseteq excused
        /\ kind = "Columns" => missed # {} \/ window.rows = rows
        /\ window.sel = 0 <=> window.rows = <<>>
=============================================================================
