---------------------------- MODULE ProgramEditor ----------------------------
(* The editor of a program: the form with its steps (forms/program.rs), the   *)
(* window of one step (forms/step.rs), the window of its print rules          *)
(* (forms/print_rules.rs) and the window that starts a program                *)
(* (forms/start_program.rs). A number field holds a set: {} blank, Unreadable  *)
(* what cannot be read, {n} else.                                             *)
EXTENDS Integers, FiniteSets, SequencesExt

CONSTANTS
  Given,          \* the steps of the program that is edited, the root first
  StepKeys,       \* keys one may type
  Membership,     \* the members of the board
  MaxSteps,       \* bound: steps of the program
  MaxStepTouches, \* bound: changes made in all windows
  MaxAsked        \* bound: requests under way

VARIABLES
  editor,      \* the program form: [steps, at, name, minSamples, error, saving]
  win,         \* the window in front: "program", "step", "rules", "start" or "none"
  step,        \* the step window
  rules,       \* the print rules window
  starter,     \* the start window
  stepAsked,   \* the requests under way, answered in order
  stepTouched, \* the fields of the step changed since its window opened
  stepTouches, \* how many changes so far
  renamed      \* the keys that steps have been given up for others

editorVars == <<editor, win, step, rules, starter, stepAsked, stepTouched, stepTouches, renamed>>

Unreadable == {-1}
MaxOffset == 2
Root == "root"
Never == [kind |-> "Manual", n |-> 0]
Plain == [key |-> "", title |-> "", text |-> "", assign |-> [kind |-> "Starter", uids |-> {}],
          created |-> {}, once |-> FALSE, also |-> {}, start |-> Never, autoStart |-> FALSE,
          limit |-> {}, counts |-> TRUE, question |-> {}, rules |-> <<>>, fanOut |-> <<>>]

IsRoot(s) == s.key = Root
Finished(k) == <<"Finished", k>>

KeysOf(steps) == {steps[i].key : i \in DOMAIN steps}
\* The steps one waits for, to be made or to start.
WaitsFor(s) == {t[2] : t \in {u \in s.created : u[1] = "Finished"}} \cup s.also

\* What the types of a step leave to it: a trigger with the step it names, people only
\* where people are picked, an amount only where the start is counted, one question at
\* most and its answers only where they are chosen.
IsStep(s) ==
  /\ DOMAIN s = DOMAIN Plain
  /\ \A t \in s.created : /\ t = <<t[1], t[2]>>
                          /\ t[1] \in {"Finished", "Answered"} \/ t \in {<<"WithRoot", "">>, <<"RootStarted", "">>}
  /\ s.assign.kind = "Pick" \/ s.assign.uids = {}
  /\ s.start = [kind |-> s.start.kind, n |-> s.start.n]
  /\ s.start.kind \in {"After", "DaysLater"} \/ s.start.n = 0
  /\ \A p, q \in s.question : p = q
  /\ \A q \in s.question : /\ q = [text |-> q.text, kind |-> q.kind, answers |-> q.answers, default |-> q.default]
                           /\ q.kind \in {"YesNo", "Choice"} /\ (q.kind = "YesNo" => q.answers = <<>>)

\* What validate asks of the steps of a program (program.rs): one is the root, no
\* two have the same key, and none waits for the root or for a step that is not there.
IsProgram(steps) ==
  /\ steps \in Seq(ToSet(steps))
  /\ \A i \in DOMAIN steps : IsStep(steps[i])
  /\ \E i \in DOMAIN steps : IsRoot(steps[i])
  /\ \A i, j \in DOMAIN steps : steps[i].key = steps[j].key => i = j
  /\ \A i \in DOMAIN steps : Root \notin WaitsFor(steps[i])
RefersWithin(steps, keys) == \A i \in DOMAIN steps : WaitsFor(steps[i]) \subseteq keys

ASSUME GivenAssumption == IsProgram(Given) /\ RefersWithin(Given, KeysOf(Given))

-----------------------------------------------------------------------------
(* The step window: opened with a step and the keys of the others.            *)

Question(s) == IF s.question = {} THEN [text |-> "", kind |-> "None", answers |-> <<>>, default |-> ""]
               ELSE CHOOSE q \in s.question : TRUE

\* A trigger on an answer has no field: it is not shown.
OpenStep(index, s, others) ==
  [index |-> index, isRoot |-> IsRoot(s), others |-> others, key |-> s.key, title |-> s.title,
   text |-> s.text, assign |-> s.assign.kind, preselect |-> s.assign.uids, members |-> <<>>,
   withRoot |-> <<"WithRoot", "">> \in s.created, rootStarted |-> <<"RootStarted", "">> \in s.created,
   once |-> s.once, after |-> {k \in others : Finished(k) \in s.created}, also |-> s.also \cap others,
   start |-> s.start.kind, startAmount |-> {IF s.start.kind = "After" THEN s.start.n ELSE 0},
   startDays |-> {IF s.start.kind = "DaysLater" THEN s.start.n ELSE 1}, autoStart |-> s.autoStart,
   limit |-> s.limit # {}, limitAmount |-> IF s.limit = {} THEN {2} ELSE s.limit, counts |-> s.counts,
   qKind |-> Question(s).kind, qText |-> Question(s).text, qAnswers |-> Question(s).answers,
   qDefault |-> Question(s).default, fanOut |-> s.fanOut, rules |-> s.rules, error |-> FALSE]

SetMembers(f) ==
  [f EXCEPT !.members = [i \in DOMAIN Membership |->
     [uid |-> Membership[i], on |-> Membership[i] \in f.preselect]]]

\* What is left of a step window that is closed, for the model to have something.
Closed == OpenStep({1}, Given[1], {})

Picking(f) == f.assign = "Pick"

\* The fields that take keys and clicks, besides the lists and the buttons.
Shown(f) ==
  {"title", "text", "assign"}
  \cup IF f.isRoot THEN {}
       ELSE {"key", "withRoot", "rootStarted", "once", "start", "limit", "counts", "qKind", "fanOut"}
            \cup (CASE f.start = "After" -> {"startAmount"} [] f.start = "DaysLater" -> {"startDays"}
                    [] OTHER -> {})
            \cup (IF f.start # "Manual" THEN {"autoStart"} ELSE {})
            \cup (IF f.limit THEN {"limitAmount"} ELSE {})
            \cup (IF f.qKind = "None" THEN {} ELSE {"qText", "qDefault"})
            \cup (IF f.qKind = "Choice" THEN {"qAnswers"} ELSE {})

StepInputs(f, w) ==
  CASE w \in {"withRoot", "rootStarted", "once", "autoStart", "limit", "counts"} -> {~f[w]}
    [] w = "key" -> StepKeys \cup {"", Root}
    [] w \in {"title", "text", "qText"} -> {"", "other"}
    [] w = "assign" -> {"Starter", "Nobody", "Pick"}
    [] w = "start" -> {"Manual", "WhenRootStarts", "After", "DaysLater"}
    [] w = "qKind" -> {"None", "YesNo", "Choice"}
    [] w = "qAnswers" -> {<<>>, <<"red", "blue">>, <<"red", "red">>}
    [] w = "qDefault" -> {"", "yes", "red"}
    [] w = "fanOut" -> {<<>>, <<"a">>}
    [] OTHER -> {{}, Unreadable, {1}, {MaxOffset + 1}}

\* The field of the step a field of the window writes.
Writes(w) ==
  CASE w \in {"withRoot", "rootStarted", "after"} -> "created"
    [] w \in {"startAmount", "startDays"} -> "start"
    [] w = "limitAmount" -> "limit"
    [] w \in {"qKind", "qText", "qAnswers", "qDefault"} -> "question"
    [] OTHER -> w

BadOffset(text) == text \in {{}, Unreadable} \/ (\E n \in text : n > MaxOffset)
Number(text) == CHOOSE n \in text : TRUE

Answers(q) == IF q.kind = "YesNo" THEN <<"yes", "no">> ELSE q.answers
ValidQuestion(q) ==
  /\ q.text # ""
  /\ q.kind = "Choice" => Len(q.answers) \in 2..8 /\ IsInjective(q.answers)
  /\ q.default = "" \/ q.default \in ToSet(Answers(q))

AskedBy(f) == [text |-> f.qText, kind |-> f.qKind, default |-> f.qDefault,
               answers |-> IF f.qKind = "Choice" THEN f.qAnswers ELSE <<>>]

Ticked(f) == {f.members[i].uid : i \in {j \in DOMAIN f.members : f.members[j].on}}

Triggers(f) == (IF f.withRoot THEN {<<"WithRoot", "">>} ELSE {})
               \cup (IF f.rootStarted THEN {<<"RootStarted", "">>} ELSE {})
               \cup {Finished(k) : k \in f.after}

InvalidStep(f) ==
  \/ f.title = "" \/ (Picking(f) /\ Ticked(f) = {})
  \/ /\ ~f.isRoot
     /\ \/ f.key \in {"", Root} \cup f.others
        \/ f.qKind # "None" /\ ~ValidQuestion(AskedBy(f))
        \/ Triggers(f) = {}
        \/ f.start = "After" /\ BadOffset(f.startAmount)
        \/ f.start = "DaysLater" /\ f.startDays \in {{}, Unreadable}
        \/ f.limit /\ BadOffset(f.limitAmount)

\* One field read for both rules (a faulty variant).
StartRuleMixed(f) ==
  [kind |-> f.start, n |-> IF f.start \in {"After", "DaysLater"} THEN Number(f.startAmount) ELSE 0]

StartRule(f) ==
  CASE f.start = "After"     -> [kind |-> "After", n |-> Number(f.startAmount)]
    [] f.start = "DaysLater" -> [kind |-> "DaysLater", n |-> Number(f.startDays)]
    [] OTHER                 -> [kind |-> f.start, n |-> 0]

\* The step as the fields stand; of the root only what it has a use for.
StepValues(f) ==
  LET always == [Plain EXCEPT !.key = f.key, !.title = f.title, !.text = f.text, !.rules = f.rules,
                   !.assign = [kind |-> f.assign, uids |-> IF Picking(f) THEN Ticked(f) ELSE {}]]
  IN  IF f.isRoot THEN always
      ELSE [always EXCEPT !.created = Triggers(f), !.once = f.once, !.also = f.also,
              !.start = StartRule(f), !.autoStart = f.start # "Manual" /\ f.autoStart,
              !.limit = IF f.limit THEN f.limitAmount ELSE {}, !.counts = f.counts,
              !.question = IF f.qKind = "None" THEN {} ELSE {AskedBy(f)}, !.fanOut = f.fanOut]

-----------------------------------------------------------------------------
(* The program form.                                                          *)

\* The key of the root is not on offer to the others.
OtherKeys(steps, index) == {steps[i].key : i \in {j \in DOMAIN steps : j \notin index /\ ~IsRoot(steps[j])}}

SetStep(e, index, s) ==
  IF index = {} THEN [e EXCEPT !.steps = Append(@, s), !.at = Len(e.steps) + 1]
  ELSE [e EXCEPT !.steps = [i \in DOMAIN @ |-> IF i \in index THEN s ELSE @[i]]]

\* Only what a step comes after is cleaned (a faulty variant).
ForgetHalf(s, gone) == [s EXCEPT !.created = @ \ {Finished(gone)}]
\* The others no longer wait for a step that goes.
Forget(s, gone) == [s EXCEPT !.created = @ \ {Finished(gone)}, !.also = @ \ {gone}]

RemoveSelected(e) ==
  IF IsRoot(e.steps[e.at]) THEN [e EXCEPT !.error = TRUE]
  ELSE LET left == RemoveAt(e.steps, e.at)
       IN  [e EXCEPT !.steps = [i \in DOMAIN left |-> Forget(left[i], e.steps[e.at].key)],
                     !.at = IF e.at > Len(left) THEN Len(left) ELSE e.at]

Shift(e, to) == [e EXCEPT !.steps[e.at] = e.steps[to], !.steps[to] = e.steps[e.at], !.at = to]

InvalidProgram(e) ==
  \/ e.name = "" \/ \A i \in DOMAIN e.steps : IsRoot(e.steps[i]) => e.steps[i].title = ""
  \/ e.minSamples \in {{}, Unreadable, {0}}

AtProgram == win = "program" /\ ~editor.saving
Changing == stepTouches < MaxStepTouches /\ stepTouches' = stepTouches + 1

TypeProgram ==
  /\ AtProgram /\ Changing
  /\ \/ \E n \in {"", "other"} : editor' = [editor EXCEPT !.name = n]
     \/ \E m \in {{}, {0}, {3}} : editor' = [editor EXCEPT !.minSamples = m]
  /\ UNCHANGED <<win, step, rules, starter, stepAsked, stepTouched, renamed>>

Select ==
  /\ AtProgram
  /\ \E i \in DOMAIN editor.steps : editor' = [editor EXCEPT !.at = i]
  /\ UNCHANGED <<win, step, rules, starter, stepAsked, stepTouched, stepTouches, renamed>>

RemoveStep ==
  /\ AtProgram /\ Changing
  /\ editor' = RemoveSelected(editor)
  /\ UNCHANGED <<win, step, rules, starter, stepAsked, stepTouched, renamed>>

MoveStep ==
  /\ AtProgram /\ Changing
  /\ \E to \in {editor.at - 1, editor.at + 1} \cap DOMAIN editor.steps : editor' = Shift(editor, to)
  /\ UNCHANGED <<win, step, rules, starter, stepAsked, stepTouched, renamed>>

EditStep ==
  /\ AtProgram /\ Len(stepAsked) < MaxAsked
  /\ \/ step' = OpenStep({editor.at}, editor.steps[editor.at], OtherKeys(editor.steps, {editor.at}))
     \/ Len(editor.steps) < MaxSteps /\ step' = OpenStep({}, Plain, OtherKeys(editor.steps, {}))
  /\ win' = "step" /\ stepTouched' = {}
  /\ stepAsked' = Append(stepAsked, "StepMembers")
  /\ UNCHANGED <<editor, rules, starter, stepTouches, renamed>>

SaveProgram ==
  /\ AtProgram /\ Len(stepAsked) < MaxAsked
  /\ IF InvalidProgram(editor)
     THEN editor' = [editor EXCEPT !.error = TRUE] /\ UNCHANGED stepAsked
     ELSE /\ editor' = [editor EXCEPT !.error = FALSE, !.saving = TRUE]
          /\ stepAsked' = Append(stepAsked, "ProgramOp")
  /\ UNCHANGED <<win, step, rules, starter, stepTouched, stepTouches, renamed>>

CancelProgram ==
  /\ AtProgram
  /\ win' = "none"
  /\ UNCHANGED <<editor, step, rules, starter, stepAsked, stepTouched, stepTouches, renamed>>

-----------------------------------------------------------------------------
(* In the step window, which keeps the program form behind it.                *)

Change(f, w) == step' = f /\ stepTouched' = stepTouched \cup {Writes(w)} /\ Changing

TypeStep ==
  /\ win = "step"
  /\ \E w \in Shown(step) : \E v \in StepInputs(step, w) : Change([step EXCEPT ![w] = v], w)
  /\ UNCHANGED <<editor, win, rules, starter, stepAsked, renamed>>

TickStep ==
  /\ win = "step"
  /\ \/ \E i \in DOMAIN step.members :
          Picking(step) /\ Change([step EXCEPT !.members[i].on = ~@], "assign")
     \/ \E k \in step.others, list \in {"after", "also"} :
          ~step.isRoot /\ Change([step EXCEPT ![list] = SymDiff(@, {k})], list)
  /\ UNCHANGED <<editor, win, rules, starter, stepAsked, renamed>>

SaveStep ==
  /\ win = "step"
  /\ IF InvalidStep(step)
     THEN step' = [step EXCEPT !.error = TRUE] /\ UNCHANGED <<editor, win, renamed>>
     ELSE /\ editor' = SetStep(editor, step.index, StepValues(step))
          /\ renamed' = renamed \cup ({editor.steps[i].key : i \in step.index} \ {step.key})
          /\ win' = "program" /\ step' = Closed
  /\ stepTouched' = IF InvalidStep(step) THEN stepTouched ELSE {}
  /\ UNCHANGED <<rules, starter, stepAsked, stepTouches>>

CancelStep ==
  /\ win = "step"
  /\ win' = "program" /\ step' = Closed /\ stepTouched' = {}
  /\ UNCHANGED <<editor, rules, starter, stepAsked, stepTouches, renamed>>

-----------------------------------------------------------------------------
(* The print rules window, with the step window behind it. Leaving it keeps    *)
(* what it holds.                                                             *)

NoRules == [list |-> <<>>, sheets |-> FALSE, when |-> "OnStart", lead |-> {1}, error |-> FALSE]

EditPrinting ==
  /\ win = "step"
  /\ win' = "rules"
  /\ rules' = [NoRules EXCEPT !.list = step.rules, !.sheets = ~step.isRoot /\ step.fanOut # <<>>]
  /\ UNCHANGED <<editor, step, starter, stepAsked, stepTouched, stepTouches, renamed>>

TypeRule ==
  /\ win = "rules" /\ Changing
  /\ \/ \E w \in {"OnCreate", "OnStart", "BeforeDue"} : rules' = [rules EXCEPT !.when = w]
     \/ \E l \in {{}, {MaxOffset + 1}} : rules.when = "BeforeDue" /\ rules' = [rules EXCEPT !.lead = l]
  /\ UNCHANGED <<editor, win, step, starter, stepAsked, stepTouched, renamed>>

Composed(r) == <<r.when, IF r.when = "BeforeDue" THEN r.lead ELSE {}>>

AddRule(r) ==
  CASE r.when = "BeforeDue" /\ BadOffset(r.lead) -> [r EXCEPT !.error = TRUE]
    [] Composed(r) \in ToSet(r.list)             -> [r EXCEPT !.error = FALSE]
    [] OTHER -> [r EXCEPT !.list = Append(@, Composed(r)), !.error = FALSE]

ChangeRules ==
  /\ win = "rules" /\ Changing
  /\ \/ rules' = AddRule(rules)
     \/ \E i \in DOMAIN rules.list : rules' = [rules EXCEPT !.list = RemoveAt(@, i)]
  /\ stepTouched' = stepTouched \cup {"rules"}
  /\ UNCHANGED <<editor, win, step, starter, stepAsked, renamed>>

RulesDone ==
  /\ win = "rules"
  /\ win' = "step"
  /\ step' = [step EXCEPT !.rules = rules.list]
  /\ rules' = NoRules
  /\ UNCHANGED <<editor, starter, stepAsked, stepTouched, stepTouches, renamed>>

-----------------------------------------------------------------------------
(* The start window: a date, and which entries of the fan-out steps to keep.  *)

OpenStart ==
  [start |-> {1}, inAmount |-> {1}, error |-> FALSE, saving |-> FALSE,
   fan |-> LET steps == SelectSeq(Given, LAMBDA s : s.fanOut # <<>>)
           IN  [i \in DOMAIN steps |-> [key |-> steps[i].key, entries |-> ToSet(steps[i].fanOut),
                                        kept |-> ToSet(steps[i].fanOut)]]]

AtStart == win = "start" /\ ~starter.saving

TypeStart ==
  /\ AtStart /\ Changing
  /\ \/ \E v \in {{}, Unreadable, {2}} : starter' = [starter EXCEPT !.start = v]
     \/ \E v \in {{}, {0}} : starter' = [starter EXCEPT !.inAmount = v]
     \/ \E i \in DOMAIN starter.fan : \E e \in starter.fan[i].entries :
          starter' = [starter EXCEPT !.fan[i].kept = SymDiff(@, {e})]
  /\ UNCHANGED <<editor, win, step, rules, stepAsked, stepTouched, renamed>>

\* The date is counted from now.
SetStart ==
  /\ AtStart /\ Changing
  /\ starter' = IF starter.inAmount \in {{}, Unreadable} THEN [starter EXCEPT !.error = TRUE]
                ELSE [starter EXCEPT !.start = {1 + Number(starter.inAmount)}, !.error = FALSE]
  /\ UNCHANGED <<editor, win, step, rules, stepAsked, stepTouched, renamed>>

FanOut(s) == [i \in DOMAIN s.fan |-> <<s.fan[i].key, s.fan[i].kept>>]

StartProgram ==
  /\ AtStart /\ Len(stepAsked) < MaxAsked
  /\ IF starter.start = Unreadable \/ \E i \in DOMAIN starter.fan : FanOut(starter)[i][2] = {}
     THEN starter' = [starter EXCEPT !.error = TRUE] /\ UNCHANGED stepAsked
     ELSE /\ starter' = [starter EXCEPT !.error = FALSE, !.saving = TRUE]
          /\ stepAsked' = Append(stepAsked, "StartProgram")
  /\ UNCHANGED <<editor, win, step, rules, stepTouched, stepTouches, renamed>>

CancelStart ==
  /\ AtStart
  /\ win' = "none"
  /\ UNCHANGED <<editor, step, rules, starter, stepAsked, stepTouched, stepTouches, renamed>>

-----------------------------------------------------------------------------
(* Answers in the order of the requests. The members are told to the step      *)
(* window that is open, whichever it is, and to none while its print rules     *)
(* are.                                                                       *)

StepMembers ==
  /\ stepAsked # <<>> /\ Head(stepAsked) = "StepMembers"
  /\ stepAsked' = Tail(stepAsked)
  /\ step' = IF win = "step" THEN SetMembers(step) ELSE step
  /\ UNCHANGED <<editor, win, rules, starter, stepTouched, stepTouches, renamed>>

\* Saved closes the form, refused gives it back.
ProgramOp ==
  /\ stepAsked # <<>> /\ Head(stepAsked) = "ProgramOp"
  /\ stepAsked' = Tail(stepAsked)
  /\ \/ win' = "none" /\ UNCHANGED editor
     \/ editor' = [editor EXCEPT !.saving = FALSE, !.error = TRUE] /\ UNCHANGED win
  /\ UNCHANGED <<step, rules, starter, stepTouched, stepTouches, renamed>>

Started ==
  /\ stepAsked # <<>> /\ Head(stepAsked) = "StartProgram"
  /\ stepAsked' = Tail(stepAsked)
  /\ \/ win' = "none" /\ UNCHANGED starter
     \/ starter' = [starter EXCEPT !.saving = FALSE, !.error = TRUE] /\ UNCHANGED win
  /\ UNCHANGED <<editor, step, rules, stepTouched, stepTouches, renamed>>

EditorInit ==
  /\ editor = [steps |-> Given, at |-> 1, name |-> "program", minSamples |-> {2},
               error |-> FALSE, saving |-> FALSE]
  /\ win \in {"program", "start"}
  /\ step = Closed
  /\ rules = NoRules
  /\ starter = OpenStart
  /\ stepAsked = <<>> /\ stepTouched = {} /\ stepTouches = 0 /\ renamed = {}

EditorNext ==
  \/ TypeProgram \/ Select \/ RemoveStep \/ MoveStep \/ EditStep \/ SaveProgram \/ CancelProgram
  \/ TypeStep \/ TickStep \/ SaveStep \/ CancelStep
  \/ EditPrinting \/ TypeRule \/ ChangeRules \/ RulesDone
  \/ TypeStart \/ SetStart \/ StartProgram \/ CancelStart
  \/ StepMembers \/ ProgramOp \/ Started

EditorSpec == EditorInit /\ [][EditorNext]_editorVars

-----------------------------------------------------------------------------
Keys == KeysOf(editor.steps)

\* What a step waits for names one step of the program, whatever was added, moved,
\* removed and edited in between: no two steps share a key, and a step that goes is
\* forgotten by the others (remove_selected). Only a step that was given another
\* key leaves its old one behind in the others (set_step does not look at them);
\* and a trigger on an answer outlives its step.
ReferencesHold ==
  /\ Cardinality(Keys) = Len(editor.steps)
  /\ RefersWithin(editor.steps, Keys \cup renamed)

\* What is left of a field of a step s that nobody touched.
Survives(field, s, is) ==
  LET known == Keys \ {s.key}
  IN  CASE field = "created"   ->
             is = {t \in s.created : t[1] # "Answered" /\ (t[1] = "Finished" => t[2] \in known)}
        [] field = "also"      -> is = s.also \cap known
        [] field = "assign"    -> is.kind = s.assign.kind /\ is.uids = s.assign.uids \cap ToSet(Membership)
        [] field = "autoStart" -> is = (s.start.kind # "Manual" /\ s.autoStart)
        [] OTHER               -> is = s[field]

\* A step nobody dates does not start itself either.
Changed == stepTouched \cup IF "start" \in stepTouched THEN {"autoStart"} ELSE {}

\* The root has a use for its texts, its people and its rules only.
Useful(s) == IF IsRoot(s) THEN {"key", "title", "text", "assign", "rules"} ELSE DOMAIN Plain

\* A step that goes through its window keeps every field nobody touched there, through
\* the print rules window and whenever the members come: but for triggers on
\* answers, which the window has no field for and drops (StepForm::new, values), for
\* references to keys that are gone and to itself, and for people who left the board.
UntouchedStepSurvives ==
  [][win = "step" /\ win' = "program" =>
       \A i \in step.index : \A field \in Useful(editor.steps[i]) \ Changed :
         Survives(field, editor.steps[i], editor'.steps[i][field])
         \/ editor'.steps[i] = editor.steps[i]]_editorVars
=============================================================================
