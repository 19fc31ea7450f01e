--------------------------- MODULE ClientScreens ---------------------------
(* The windows of the terminal client. One is open at a time; some are opened  *)
(* from another and go back to it. Forms hold what was typed, ask the daemon   *)
(* to save it and wait; panels open when a list arrives. Control codes are     *)
(* scanned under any window. Answers come later, in the order of the requests, *)
(* and find whatever is open then.                                             *)
EXTENDS Integers, Sequences

CONSTANTS
  Doc,         \* the tasks a form may edit
  Openable,    \* the windows that are opened
  Scannable,   \* the control codes that are scanned
  MaxPresses,  \* bound: how many keys open, leave, type or save
  MaxForeign,  \* bound: how often somebody else changes a task
  Absent       \* no window, no task

VARIABLES
  window,      \* App::overlay, with the windows it goes back to inside
  asked,       \* requests that are not answered: App::pending, in order
  version,     \* the daemon's version of each task
  quit,        \* Cmd::Quit was issued
  presses, foreign, \* the counters of the two bounds
  opens,       \* observation: how many windows were opened, which numbers them
  lost         \* observation: the forms that an answer took away with what was typed

screens == <<window, asked, version, quit, presses, foreign, opens, lost>>

ScreensInit ==
  /\ window = Absent /\ asked = <<>> /\ version = [t \in Doc |-> 1] /\ quit = FALSE
  /\ presses = 0 /\ foreign = 0 /\ opens = 0 /\ lost = {}

----------------------------------------------------------------------------
(* Windows.                                                                   *)

\* The forms that save to the daemon, and what their save is pending as.
SavedAs == [TaskForm |-> "SaveTask", TemplateForm |-> "TemplateOp", ProgramForm |-> "ProgramOp",
            StartProgram |-> "StartProgram", BoardForm |-> "BoardOp", NewBoardForm |-> "CreateBoardForm",
            Settings |-> "Settings"]
Saving == DOMAIN SavedAs

\* The forms an answer is taken to be about: on_response and on_error look at
\* the kind of the open one only.
FormsOf(pending) ==
  IF pending \in {"SaveTask", "TemplateOp"} THEN {"TaskForm", "TemplateForm"}
  ELSE IF pending \in {"BoardOp", "CreateBoardForm"} THEN {"BoardForm", "NewBoardForm"}
  ELSE {k \in Saving : SavedAs[k] = pending}

\* The windows a window opens over itself and comes back from.
Children == [TaskForm |-> {"PrintRules"}, TemplateForm |-> {"PrintRules"},
             ProgramForm |-> {"StepForm"}, StepForm |-> {"PrintRules"},
             Settings |-> {"Colors", "Printer", "Codes"}, Columns |-> {"PickColumn"}]

\* The panels, and the requests their dialogs confirm: templates, programs,
\* runs, the archive, a column.
Confirmed == [Templates |-> "TemplateDone", Programs |-> "ProgramDone", Runs |-> "CancelRun",
              Archive |-> "PurgeTask", PickColumn |-> "ColumnOp"]

\* The lists that open a panel when they arrive.
PanelOf == [Archived |-> "Archive", TemplatesPanel |-> "Templates", ProgramsPanel |-> "Programs",
            RunsPanel |-> "Runs", RepeatsPanel |-> "Repeats"]

\* What a panel asks for again once one of its operations went through.
Relisted == [TemplateOp |-> "TemplatesPanel", TemplateDone |-> "TemplatesPanel",
             ProgramOp |-> "ProgramsPanel", ProgramDone |-> "ProgramsPanel", CancelRun |-> "RunsPanel",
             MemberOp |-> "PanelMembers", UnassignMember |-> "PanelMembers"]

\* What a window asks for as it opens.
AsksFor == [TaskForm |-> <<"FormMembers">>, TemplateForm |-> <<"FormMembers">>, StepForm |-> <<"StepMembers">>,
            Members |-> <<"PanelMembers", "PanelUsers">>, Users |-> <<"UsersPanel">>,
            NewBoardForm |-> <<"FormUsers">>]

\* Windows that replace the panel they are opened from and do not go back.
Replaces == [Templates |-> {"TaskForm", "TemplateForm"}, Programs |-> {"ProgramForm", "StartProgram"},
             Runs |-> {"TaskDetail"}, Archive |-> {"TaskDetail"}, BoardForm |-> {"Members", "Columns"},
             Menu |-> Openable]

\* The control codes that ask the daemon something: a task's code while a
\* command is armed, and the codes that name a board, a program or a template.
\* Some of those open a form, others use it unseen.
AskingCodes == {"Armed", "ShowBoard", "StartProgram", "StartProgramNow", "NewFromTemplate", "NewFromTemplateAsk"}
OpenedBy == [StartProgram |-> "StartProgram", NewFromTemplateAsk |-> "TaskForm"]
Unseen == [StartProgramNow |-> "StartProgram", NewFromTemplate |-> "SaveTask"]
ByCode == {"Resolve", "Lookup", "OpenBoard"}

\* The windows in which nothing is typed.
Listing == {"Menu", "Templates", "Programs", "Runs", "Archive", "Repeats", "Members", "Users",
          "Columns", "TaskDetail", "ColumnPick", "Question"}
Purposes ==
  {"SaveTask", "TemplateOp", "ProgramOp", "StartProgram", "BoardOp", "CreateBoardForm", "Settings",
   "TemplateDone", "ProgramDone", "CancelRun", "PurgeTask", "ColumnOp", "MoveTask", "MoveAnyway",
   "MemberOp", "UnassignMember", "StopRepeat", "FormMembers", "StepMembers", "PanelMembers",
   "PanelUsers", "UsersPanel", "FormUsers", "Scan", "Quit"} \cup ByCode \cup DOMAIN PanelOf

\* Which window stands over which.
WindowOf(kinds, typed, backs) ==
  [kind : kinds, id : Nat, task : Doc \cup {Absent}, version : Nat, typed : typed,
   saving : BOOLEAN, back : backs, then : Purposes \cup {Absent}]
FormWindow(kinds) == WindowOf(kinds, BOOLEAN, {Absent})
ListWindow(kinds) == WindowOf(kinds, {FALSE}, {Absent})
StepWindow == WindowOf({"StepForm"}, BOOLEAN, FormWindow({"ProgramForm"}))
RulesWindow ==
  WindowOf({"PrintRules"}, BOOLEAN, FormWindow({"TaskForm", "TemplateForm"}) \cup StepWindow)
Windows ==
  FormWindow(Saving) \cup ListWindow(Listing) \cup StepWindow \cup RulesWindow
    \cup WindowOf({"Colors", "Printer"}, BOOLEAN, FormWindow({"Settings"}))
    \cup WindowOf({"Codes"}, {FALSE}, FormWindow({"Settings"}))
    \cup WindowOf({"PickColumn"}, {FALSE}, ListWindow({"Columns"}))
    \cup WindowOf({"Confirm"}, {FALSE}, ListWindow(Listing) \cup {Absent})
    \cup WindowOf({"Conflict"}, {FALSE}, FormWindow({"TaskForm", "TemplateForm"}))

\* What is opened by a key stands alone; nothing is no window.
ASSUME OpenableAssumption == Openable \subseteq Saving \cup Listing
ASSUME ScannableAssumption == Scannable \subseteq AskingCodes
ASSUME AbsentAssumption == Absent \notin Windows

New(kind, back) ==
  [kind |-> kind, id |-> opens + 1, task |-> Absent, version |-> 0, typed |-> FALSE, saving |-> FALSE,
   back |-> back, then |-> Absent]
IsOpen(kinds) == window # Absent /\ window.kind \in kinds

\* The windows there are: the open one and those it goes back to.
Chain(w) ==
  IF w = Absent THEN {}
  ELSE {w} \cup (IF w.back = Absent THEN {}
                 ELSE {w.back} \cup (IF w.back.back = Absent THEN {} ELSE {w.back.back}))
Typed(w) == {x.id : x \in {y \in Chain(w) : y.typed}}

\* A request: the form whose save it is or follows, the control code that caused
\* it, and "since", how many windows had been opened at the key or code.
Ask(pending) ==
  [pending |-> pending, form |-> Absent, task |-> Absent, version |-> 0, since |-> opens, code |-> Absent]
ForCode(pending, since, code) == [Ask(pending) EXCEPT !.since = since, !.code = code]
Asks(kind) == IF kind \in DOMAIN AsksFor THEN [i \in DOMAIN AsksFor[kind] |-> Ask(AsksFor[kind][i])] ELSE <<>>

----------------------------------------------------------------------------
(* Keys.                                                                      *)

Press == ~quit /\ presses < MaxPresses /\ presses' = presses + 1
Opened(w) == window' = w /\ opens' = opens + 1
Editing(t) == [New("TaskForm", Absent) EXCEPT !.task = t, !.version = version[t]]
Observations == UNCHANGED lost
World == UNCHANGED <<version, foreign>>

\* normal_key, board_key and dashboard_key, and a panel's own keys: a new
\* window, in the place of the one it came from. A task form is a new task, or
\* the one under the cursor as the board last showed it.
OpenWindow(kind) ==
  /\ Press
  /\ kind \in IF window = Absent THEN Openable
              ELSE IF window.kind \in DOMAIN Replaces THEN Replaces[window.kind] ELSE {}
  /\ window # Absent => ~window.saving
  /\ \/ kind # "TaskForm" /\ Opened(New(kind, Absent))
     \/ kind = "TaskForm" /\ Opened(New(kind, Absent))
     \/ kind = "TaskForm" /\ window = Absent
        /\ \E t \in Doc : Opened(Editing(t))
  /\ asked' = asked \o Asks(kind)
  /\ UNCHANGED quit /\ World /\ Observations

\* A key that asks for a list; the menu it was picked from closes.
AskForPanel(list) ==
  /\ Press
  /\ \/ window = Absent /\ PanelOf[list] \in Openable
     \/ IsOpen({"Menu"}) /\ PanelOf[list] \in Openable
     \/ IsOpen({"Programs"}) /\ list = "RunsPanel"
  /\ window' = IF IsOpen({"Menu"}) THEN Absent ELSE window
  /\ asked' = Append(asked, Ask(list))
  /\ UNCHANGED <<quit, opens>> /\ World /\ Observations

\* A window over this one.
OpenChild(kind) ==
  /\ Press /\ window # Absent /\ ~window.saving
  /\ window.kind \in DOMAIN Children /\ kind \in Children[window.kind]
  /\ Opened(New(kind, window))
  /\ asked' = asked \o Asks(kind)
  /\ UNCHANGED quit /\ World /\ Observations

\* Esc and its like: back to where the window came from. A program editor that
\* is left asks for the programs again.
Leave ==
  /\ Press /\ window # Absent /\ ~window.saving
  /\ window.kind \notin {"Confirm", "Conflict"}
  /\ window' = window.back
  /\ asked' = IF window.kind = "ProgramForm" THEN Append(asked, Ask("ProgramsPanel")) ELSE asked
  /\ UNCHANGED <<quit, opens>> /\ World /\ Observations

\* A child form that is finished hands what was typed to the one it came from;
\* the column question leads to the dialog that confirms the removal.
FinishChild ==
  /\ Press /\ IsOpen({"PrintRules", "StepForm", "Colors", "Printer"})
  /\ window' = [window.back EXCEPT !.typed = TRUE]
  /\ UNCHANGED <<asked, quit, opens>> /\ World /\ Observations

Type ==
  /\ Press /\ IsOpen(Saving \cup {"PrintRules", "StepForm", "Colors", "Printer"})
  /\ ~window.saving /\ ~window.typed
  /\ window' = [window EXCEPT !.typed = TRUE]
  /\ UNCHANGED <<asked, quit, opens>> /\ World /\ Observations

Save(w) == [Ask(SavedAs[w.kind]) EXCEPT !.form = w.id, !.task = w.task, !.version = w.version]

\* F2: the form waits for its answer, and takes no key meanwhile.
SaveForm ==
  /\ Press /\ IsOpen(Saving) /\ ~window.saving
  /\ window' = [window EXCEPT !.saving = TRUE]
  /\ asked' = Append(asked, Save(window))
  /\ UNCHANGED <<quit, opens>> /\ World /\ Observations

Dialog(then, back) == [New("Confirm", back) EXCEPT !.then = then]

\* A panel's delete, purge or cancel asks first; and a board that goes private
\* says who stays, in the place of its form.
OpenDialog ==
  /\ Press /\ window # Absent
  /\ \/ IsOpen(DOMAIN Confirmed)
        /\ Opened(Dialog(Confirmed[window.kind], IF window.kind = "PickColumn" THEN window.back ELSE window))
     \/ IsOpen({"BoardForm"}) /\ ~window.saving /\ Opened(Dialog("BoardOp", Absent))
  /\ UNCHANGED <<asked, quit>> /\ World /\ Observations

\* Ctrl-C asks on every screen, in the place of what was open.
CtrlC ==
  /\ Press
  /\ Opened(Dialog("Quit", Absent))
  /\ UNCHANGED <<asked, quit>> /\ World /\ Observations

\* confirm_event: yes and no both go back.
AnswerDialog(yes) ==
  /\ Press /\ IsOpen({"Confirm"})
  /\ window' = window.back
  /\ asked' = IF yes /\ window.then # "Quit" THEN Append(asked, Ask(window.then)) ELSE asked
  /\ quit' = (yes /\ window.then = "Quit")
  /\ UNCHANGED opens /\ World /\ Observations

\* conflict_key: reload, overwrite, or go back to editing against the current
\* version.
AnswerConflict(key) ==
  /\ Press /\ IsOpen({"Conflict"})
  /\ LET form == [window.back EXCEPT !.version = window.version]
     IN  \/ key = "reload" /\ asked' = asked \o Asks("TaskForm")
            /\ Opened([New("TaskForm", Absent) EXCEPT !.task = window.task, !.version = window.version])
         \/ key = "overwrite" /\ window' = [form EXCEPT !.saving = TRUE]
            /\ asked' = Append(asked, Save(form)) /\ UNCHANGED opens
         \/ key = "edit" /\ window' = form /\ UNCHANGED <<asked, opens>>
  /\ UNCHANGED quit /\ World /\ Observations

\* What the keys of the board and of the panels send without a window: a move
\* or a task's code that may be refused, a board to open, a member that may still
\* have tasks, a repetition.
SendPlain(pending) ==
  /\ Press
  /\ \/ window = Absent /\ pending \in {"MoveTask", "Scan", "OpenBoard"}
     \/ IsOpen({"Members"}) /\ pending = "MemberOp"
     \/ IsOpen({"Repeats"}) /\ pending = "StopRepeat"
  /\ asked' = Append(asked, Ask(pending))
  /\ UNCHANGED <<window, quit, opens>> /\ World /\ Observations

\* The column of a move, or the answer to a question, is picked.
PickOption ==
  /\ Press /\ IsOpen({"ColumnPick", "Question"})
  /\ window' = Absent
  /\ asked' = Append(asked, Ask("MoveTask"))
  /\ UNCHANGED <<quit, opens>> /\ World /\ Observations

----------------------------------------------------------------------------
(* Control codes, which are heard under any window.                           *)

\* system_scan with a command armed, and control_command: the daemon is asked
\* what the code names.
ScanCode(code) ==
  /\ Press
  /\ asked' = Append(asked, ForCode(IF code = "Armed" THEN "Resolve" ELSE "Lookup", opens, code))
  /\ UNCHANGED <<window, quit, opens>> /\ World /\ Observations

\* Whether a window was opened.
CountWindow == opens' = IF window' # Absent /\ window'.id > opens THEN opens + 1 ELSE opens

\* apply_armed, in the place of whatever is open: the column pick, the task, its
\* form; or a request. (Of the others no answer touches a window.)
ArmedWindow(rest, since) ==
  \/ window' \in {window, New("ColumnPick", Absent), New("TaskDetail", Absent)} /\ asked' = rest
  \/ \E t \in Doc : window' = Editing(t) /\ asked' = rest \o Asks("TaskForm")
  \/ window' = window /\ asked' = Append(rest, ForCode("MoveTask", since, "Armed"))

\* control_selected: the task under the cursor stands in for a scan.
CodeSelected ==
  /\ Press /\ "Armed" \in Scannable
  /\ ArmedWindow(asked, opens)
  /\ CountWindow
  /\ UNCHANGED quit /\ World /\ Observations

\* on_resolved: nothing, when the command was cancelled meanwhile; at once, or
\* once the task's board is there.
TaskNamed(q) ==
  \/ ArmedWindow(Tail(asked), q.since)
  \/ window' = window /\ asked' = Append(Tail(asked), ForCode("OpenBoard", q.since, "Armed"))

\* The board is there: a question nobody answered is asked when no window is
\* open, and the command that waits for the board acts.
BoardOpened(q) ==
  \/ window' \in {window, IF window = Absent THEN New("Question", Absent) ELSE window}
     /\ asked' = Tail(asked)
  \/ /\ \E i \in DOMAIN asked : asked[i].pending = "OpenBoard" /\ asked[i].code = "Armed"
     /\ ArmedWindow(Tail(asked), q.since)

\* on_found: a board or a form is not opened over a window; what is used unseen
\* is sent under any.
TargetNamed(q) ==
  \/ window' = window /\ asked' = Tail(asked)
  \/ q.code \in DOMAIN OpenedBy /\ window = Absent
     /\ window' = New(OpenedBy[q.code], Absent) /\ asked' = Tail(asked) \o Asks(OpenedBy[q.code])
  \/ q.code = "ShowBoard" /\ window = Absent
     /\ window' = window /\ asked' = Append(Tail(asked), ForCode("OpenBoard", q.since, Absent))
  \/ q.code \in DOMAIN Unseen
     /\ window' = window /\ asked' = Append(Tail(asked), ForCode(Unseen[q.code], q.since, q.code))

----------------------------------------------------------------------------
(* Answers. The daemon takes the requests in order.                           *)

\* Somebody else saves a task.
Foreign(t) ==
  /\ foreign < MaxForeign /\ foreign' = foreign + 1
  /\ version' = [version EXCEPT ![t] = @ + 1]
  /\ UNCHANGED <<window, asked, quit, presses, opens, lost>>

\* Faulty variant: the members' answer opens the step form anew, with a program
\* that was not edited to go back to.
AcceptedAnew(q) ==
  IF q.pending \in DOMAIN PanelOf
  THEN IF IsOpen({PanelOf[q.pending]}) THEN window ELSE New(PanelOf[q.pending], Absent)
  ELSE IF q.pending = "CreateBoardForm" \/ IsOpen(FormsOf(q.pending)) THEN Absent
  ELSE IF q.pending = "StepMembers" /\ IsOpen({"StepForm"}) THEN New("StepForm", New("ProgramForm", Absent))
  ELSE window

\* The window an accepted request leaves: a list opens its panel, whatever else
\* is open; a save closes the form.
Accepted(q) ==
  IF q.pending \in DOMAIN PanelOf
  THEN IF IsOpen({PanelOf[q.pending]}) THEN window ELSE New(PanelOf[q.pending], Absent)
  ELSE IF q.pending = "CreateBoardForm" \/ IsOpen(FormsOf(q.pending)) THEN Absent
  ELSE window

\* What is asked for next: the list of the panel the operation came from.
FollowUp(q) ==
  IF q.pending \in DOMAIN Relisted /\ (Relisted[q.pending] = "PanelMembers" => IsOpen({"Members"}))
  THEN <<[Ask(Relisted[q.pending]) EXCEPT !.since = q.since, !.form = q.form]>> ELSE <<>>

\* A template or program that is deleted is pending like one that is saved.
PendingAs(pending) ==
  IF pending = "TemplateDone" THEN "TemplateOp" ELSE IF pending = "ProgramDone" THEN "ProgramOp" ELSE pending

Unlocked(w) == [w EXCEPT !.saving = FALSE]

\* The windows a refused request may leave: the open form of that kind can be
\* edited again; a move with open dependencies and a member that has tasks
\* ask another question.
AfterRefusal(q) ==
  CASE q.pending \in {"MoveTask", "Scan"} -> {window, Dialog("MoveAnyway", Absent)}
    [] q.pending = "MemberOp" -> {window, IF IsOpen({"Members"}) THEN Dialog("UnassignMember", window) ELSE Absent}
    [] IsOpen(FormsOf(PendingAs(q.pending))) -> {Unlocked(window)}
    [] OTHER -> {window}

\* A stale version: the form, and the task as it is now.
Conflicting(q) ==
  IF IsOpen({"TaskForm", "TemplateForm"})
  THEN [New("Conflict", Unlocked(window)) EXCEPT !.task = q.task, !.version = version[q.task]]
  ELSE window

Stale(q) == q.pending = "SaveTask" /\ q.task # Absent /\ q.version # version[q.task]

\* What is noticed about an answer: the forms it takes away.
Notice(q) ==
  /\ lost' = lost \cup {[form |-> f, since |-> q.since, own |-> q.form, code |-> q.code] :
                            f \in Typed(window) \ Typed(window')}

FormAnswer(q) ==
  \/ /\ Stale(q)
     /\ window' = Conflicting(q)
     /\ asked' = Tail(asked) /\ UNCHANGED version
  \/ /\ ~Stale(q)
     /\ window' = Accepted(q)
     /\ asked' = Tail(asked) \o FollowUp(q)
     /\ version' = IF q.pending = "SaveTask" /\ q.task # Absent
                   THEN [version EXCEPT ![q.task] = @ + 1] ELSE version
  \/ /\ ~Stale(q) /\ q.pending \notin DOMAIN PanelOf
     /\ window' \in AfterRefusal(q)
     /\ asked' = Tail(asked) /\ UNCHANGED version

AnswerArrives ==
  /\ ~quit /\ asked # <<>>
  /\ LET q == Head(asked)
     IN  /\ \/ q.pending = "Resolve" /\ TaskNamed(q) /\ UNCHANGED version
            \/ q.pending = "OpenBoard" /\ BoardOpened(q) /\ UNCHANGED version
            \/ q.pending = "Lookup" /\ TargetNamed(q) /\ UNCHANGED version
            \/ q.pending \notin ByCode /\ FormAnswer(q)
         /\ CountWindow
         /\ Notice(q)
  /\ UNCHANGED <<quit, presses, foreign>>

ScreensNext ==
  \/ \E k \in Openable \cup {"TaskForm", "TemplateForm", "ProgramForm", "StartProgram", "TaskDetail", "Columns", "Members"} : OpenWindow(k)
  \/ \E l \in DOMAIN PanelOf : AskForPanel(l)
  \/ \E k \in {"PrintRules", "StepForm", "Colors", "Printer", "Codes", "PickColumn"} : OpenChild(k)
  \/ Leave \/ FinishChild \/ Type \/ SaveForm \/ OpenDialog \/ CtrlC
  \/ \E yes \in BOOLEAN : AnswerDialog(yes)
  \/ \E key \in {"reload", "overwrite", "edit"} : AnswerConflict(key)
  \/ \E p \in {"MoveTask", "Scan", "OpenBoard", "MemberOp", "StopRepeat"} : SendPlain(p)
  \/ \E c \in Scannable : ScanCode(c)
  \/ CodeSelected \/ PickOption
  \/ \E t \in Doc : Foreign(t)
  \/ AnswerArrives

ScreensSpec == ScreensInit /\ [][ScreensNext]_screens /\ WF_screens(AnswerArrives)

----------------------------------------------------------------------------
(* Properties.                                                                *)

\* on_response and on_error: what was asked for while a form was open never
\* takes it away with what was typed, but the answer to its own save, the code
\* of a task that an armed command acts on, and a code that makes something
\* unseen. (An answer to something asked before it was opened may: see the README.)
KeepsWhatWasTyped ==
  \A l \in lost : l.form = l.own \/ l.since < l.form \/ l.code = "Armed" \/ l.code \in DOMAIN Unseen

\* Overlay::Conflict: a save hit a stale version, and the form is kept, so that
\* nothing typed is lost.
ConflictKeepsForm ==
  [][asked # <<>> /\ asked' = Tail(asked) /\ Stale(Head(asked))
       => \E w \in Chain(window') : w.id = Head(asked).form]_screens
============================================================================
