------------------------------ MODULE MCEditing ------------------------------
(* What is edited over a while, for TLC: the columns of a board at the daemon, *)
(* and the forms of the client, each with its windows, side by side. A         *)
(* behaviour takes the steps of one of them, the others stay where they start. *)
EXTENDS BoardColumns, BoardForm, ProgramEditor, ClientSettings, TLC

CONSTANTS
  c1, c2, c3, n1, n2, n3,
  Edits,       \* changes to a form by hand, one less than MaxTouches
  MaxWaiting   \* requests of a form under way

VARIABLES
  taskForm, taskView, taskWaiting, taskTouched, taskTouches, told, draft, source,
  lane         \* which machine takes the steps

\* Managers are alike. Columns too, so they come in order.
Alike == Permutations(Manager)
ColumnsInOrder == {{c1}, {c1, c2}, {c1, c2, c3}}
NamesInOrder == (c1 :> n1) @@ (c2 :> n2) @@ (c3 :> n3)

-----------------------------------------------------------------------------
\* A task with everything, a template with leads, and a form of each kind.
Daily == [kind |-> "EveryDays", at |-> 8, tz |-> "there", startRule |-> {},
          dueRule |-> {[amount |-> 1, unit |-> "Hours"]}, n |-> 2, from |-> {4}, days |-> {}]
Weekly == [Daily EXCEPT !.kind = "Weekdays", !.tz = "here", !.dueRule = {}, !.n = 0, !.from = {},
                        !.days = {1, 2}]
FullTask ==
  [title |-> "t", description |-> "d", start |-> {3}, due |-> {7}, remindStart |-> {2},
   remindDue |-> {}, assignees |-> {1, 3}, dependsOn |-> <<5>>,
   checklist |-> <<[text |-> "i", done |-> TRUE], [text |-> "j", done |-> FALSE]>>,
   repeat |-> {Daily}, rules |-> <<"early">>, autoStart |-> TRUE]
Template == [FullTask EXCEPT !.start = {}, !.due = {}, !.dependsOn = <<>>, !.autoStart = FALSE,
                             !.repeat = {Weekly}]
Leads == [startPrefill |-> {[amount |-> 1, unit |-> "Hours"]},
          duePrefill |-> {[amount |-> 2, unit |-> "Hours"]}, fromAverage |-> {4}, depTemplates |-> {8}]
NoLeads == [startPrefill |-> {}, duePrefill |-> {}, fromAverage |-> {}, depTemplates |-> {}]
MCSources ==
  {[mode |-> "Create", id |-> 4, draft |-> FullTask, options |-> NoLeads],
   [mode |-> "Edit", id |-> 4, draft |-> FullTask, options |-> NoLeads],
   [mode |-> "FromTemplate", id |-> 9, draft |-> Template, options |-> Leads],
   [mode |-> "TemplateNew", id |-> 9, draft |-> FullTask, options |-> NoLeads],
   [mode |-> "TemplateEdit", id |-> 9, draft |-> Template, options |-> Leads]}

MCMembership == <<1, 2>>

TaskForms == INSTANCE TaskForm WITH
  Sources <- MCSources, Membership <- MCMembership, Neighbours <- <<8, 9>>,
  Hits <- {<<4, 5, 6>>, <<6, 7>>}, Now <- 10, Zone <- "here", Back <- 4,
  MaxTouches <- Edits, MaxWaiting <- MaxWaiting,
  form <- taskForm, view <- taskView, waiting <- taskWaiting, touched <- taskTouched,
  touches <- taskTouches

-----------------------------------------------------------------------------
\* A root, a step that uses every field, and one that waits for it in every way.
RootStep ==
  [key |-> "root", title |-> "r", text |-> "x", assign |-> [kind |-> "Starter", uids |-> {}],
   created |-> {}, once |-> FALSE, also |-> {}, start |-> [kind |-> "Manual", n |-> 0],
   autoStart |-> FALSE, limit |-> {}, counts |-> TRUE, question |-> {}, rules |-> <<>>,
   fanOut |-> <<>>]
FirstStep ==
  [RootStep EXCEPT !.key = "1", !.title = "one", !.created = {<<"WithRoot", "">>},
     !.start = [kind |-> "After", n |-> 1], !.autoStart = TRUE, !.fanOut = <<"a", "b">>,
     !.question = {[text |-> "q", kind |-> "YesNo", answers |-> <<>>, default |-> "yes"]},
     !.assign = [kind |-> "Pick", uids |-> {1, 3}]]
SecondStep ==
  [RootStep EXCEPT !.key = "2", !.title = "two", !.also = {"1", "2"}, !.limit = {2},
     !.created = {<<"Finished", "1">>, <<"Answered", "1">>}, !.rules = <<<<"OnStart", {}>>>>,
     !.start = [kind |-> "DaysLater", n |-> 3]]

MCGiven == <<RootStep, FirstStep, SecondStep>>

-----------------------------------------------------------------------------
MCBegin ==
  {[name |-> "b", description |-> "d", started |-> 2, paused |-> 3, finished |-> 4, archive |-> 10,
    cards |-> Usual, private |-> FALSE, locked |-> FALSE, columns |-> 1..4]}
MCPeople == <<7>>

\* Preferences with and without a card of their own, a printer with a width of its
\* own and one with a roll; a queue that reports what is printed on a roll, one that
\* has no roll's width.
Dark == [theme |-> "Dark", darkness |-> "Low", contrast |-> "Low", colors |-> "mine", plain |-> TRUE,
         zone |-> 1, reminder |-> {}, timeout |-> 20, cards |-> {}, filter |-> {}]
MCKeptPrefs == {Dark, [Dark EXCEPT !.theme = "Custom", !.cards = {"due"}]}
MCKeptProfiles ==
  {[queue |-> "a", paper |-> 0, mm |-> {60}, words |-> [k \in Kinds |-> IF k = "task" THEN "thanks" ELSE "soon"]],
   [queue |-> "a", paper |-> 58, mm |-> {48}, words |-> [k \in Kinds |-> NoWords]]}
MCMedia == ("a" :> {48}) @@ ("b" :> {100})

-----------------------------------------------------------------------------
taskVars == <<taskForm, taskView, taskWaiting, taskTouched, taskTouches, told, draft, source>>
all == <<vars, taskVars, editorVars, boardFormVars, settingsVars, lane>>

MCInit ==
  /\ lane \in {"columns", "managers", "task", "program", "new", "board", "settings", "printer"}
  /\ Init /\ TaskForms!FormInit /\ EditorInit /\ BoardFormInit
  /\ SettingsInit
  /\ born \in ColumnsInOrder /\ \A c \in born : column[c] = NamesInOrder[c]
  /\ lane \notin {"columns", "managers"} => born = {c1}
  /\ lane # "task" => source.mode = "Create"
  /\ lane # "program" => win = "program"
  /\ lane # "board" => asked = <<>>
  /\ lane # "settings" => prefs = Dark
  /\ lane # "printer" => profile = {}

\* One manager and the members, and one column that may have the name of another;
\* or the managers against each other.
Columns ==
  /\ Next
  /\ \/ lane = "columns" /\ Cardinality({m \in Manager : held'[m] # None}) < 2
     \/ lane = "managers" /\ \A u \in Member : held'[u] = None
  /\ born' \in ColumnsInOrder
  /\ \A c \in born' \ (IF lane = "columns" THEN {c2} ELSE {}) : column'[c] \in {None, NamesInOrder[c]}
  /\ UNCHANGED <<taskVars, editorVars, boardFormVars, settingsVars, lane>>
Tasks == lane = "task" /\ TaskForms!FormNext /\ UNCHANGED <<vars, editorVars, boardFormVars, settingsVars, lane>>
\* Any two changes; or a step taken out and one put in, which takes five, with
\* more than one request under way.
Programs ==
  /\ EditorNext
  /\ \/ lane = "program" /\ stepTouches' <= Edits /\ Len(stepAsked') < MaxWaiting
     \/ /\ lane = "new" /\ {win, win'} \subseteq {"program", "step"}
        /\ stepTouched' \subseteq {"key", "title", "created"}
        /\ (win = "step" => step.index = {})
  /\ UNCHANGED <<vars, taskVars, boardFormVars, settingsVars, lane>>
\* Many changes at the form or many by others.
Boards ==
  /\ lane = "board" /\ BoardFormNext /\ touches' + changes' <= MaxTouches
  /\ UNCHANGED <<vars, taskVars, editorVars, settingsVars, lane>>
\* Without the panels of the printer, and in them.
Settings ==
  /\ lane = "settings" /\ SettingsNext
  /\ edits' # edits => window # "printer" /\ edits' <= Edits
  /\ UNCHANGED <<vars, taskVars, editorVars, boardFormVars, lane>>
Printers ==
  /\ lane = "printer" /\ SettingsNext
  /\ edits' # edits => window = "printer" /\ edits' <= Edits
  /\ saving' = <<>>
  /\ UNCHANGED <<vars, taskVars, editorVars, boardFormVars, lane>>

MCNext == Columns \/ Tasks \/ Programs \/ Boards \/ Settings \/ Printers

MCSpec == MCInit /\ [][MCNext]_all

\* Saving leaves what nobody touched: of a task (TaskForm), and of the settings,
\* those that are hidden included (ClientSettings).
UntouchedSurvives ==
  /\ lane = "task" => TaskForms!UntouchedSurvives
  /\ UntouchedPrefsSurvive
=============================================================================
