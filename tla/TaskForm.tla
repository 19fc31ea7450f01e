------------------------------ MODULE TaskForm ------------------------------
(* The form for tasks and templates (forms/task.rs): what it shows of a task, *)
(* what the user, control codes and answers do to it, and the draft a save     *)
(* takes from it. Text is a value per field; a number or date field holds a    *)
(* set: {} blank, Junk what cannot be read, {n} else. Instants count half      *)
(* minutes, dates as shown count minutes.                                      *)
EXTENDS Integers, FiniteSets, SequencesExt

CONSTANTS
  Sources,      \* what forms are opened for: [mode, id, draft, options]
  Membership,   \* the members of the board, a sequence of uids
  Neighbours,   \* the templates of the board, a sequence of ids
  Hits,         \* the sequences of tasks a search may answer
  Now, Zone,    \* the clock, and the zone of the user
  Back,         \* from this minute on the clocks show one minute less
  MaxTouches,   \* bound: changes to the fields
  MaxWaiting    \* bound: requests under way

VARIABLES
  form,      \* the fields, see Blank
  view,      \* "form", "rules" while the print rules window has the form, or "none"
  waiting,   \* the requests under way, answered in order
  touched,   \* the fields of the draft the user or a code has changed
  touches,   \* how many changes and searches so far
  told,      \* whether the form has been told the members
  draft,     \* {} or what was last sent: the draft and options, and told and touched then
  source     \* what the form was opened for

formVars == <<form, view, waiting, touched, touches, told, draft, source>>

Junk == {-1}
MaxOffset == 2
MaxReminder == 3
Today == 1

Local(i) == IF i \div 2 >= Back THEN i \div 2 - 1 ELSE i \div 2

\* The field text of an instant, {} for none.
DateText(at) == {Local(i) : i \in at}

\* A reader that forgets that the clocks were set back (a faulty variant).
ParseWhenFlat(text) == {2 * l : l \in text}
\* The instant of a field text: seconds are gone, the earlier of two that show the same.
ParseWhen(text) == {2 * (IF l < Back THEN l ELSE l + 1) : l \in text}
BadDate(text) == text = Junk

NoOffset(n, unit) == [on |-> FALSE, amount |-> {n}, unit |-> unit]

Blank(mode, id) ==
  [mode |-> mode, selfTask |-> IF mode = "Edit" THEN {id} ELSE {}, me |-> id,
   preselect |-> {}, preselectTemplates |-> {}, title |-> "", description |-> "",
   checklist |-> <<>>, start |-> {}, due |-> {}, autoStart |-> FALSE,
   startPrefill |-> NoOffset(0, "Hours"), prefill |-> NoOffset(0, "Hours"),
   fromAverage |-> FALSE, minSamples |-> {2},
   remindStart |-> [on |-> FALSE, hours |-> {}], remindDue |-> [on |-> FALSE, hours |-> {}],
   members |-> <<>>, hits |-> <<>>, deps |-> <<>>, choices |-> <<>>,
   kind |-> "None", from |-> {}, repeatStart |-> NoOffset(0, "Hours"),
   repeatDue |-> NoOffset(1, "Days"), every |-> {1}, weekdays |-> {}, day |-> {}, date |-> {},
   at |-> {9}, rules |-> <<>>, error |-> FALSE, saving |-> FALSE]

IsTemplate(f) == f.mode \in {"TemplateNew", "TemplateEdit"}

SetRules(f, rules) == [f EXCEPT !.rules = rules]

-----------------------------------------------------------------------------
(* A form is filled.                                                          *)

Lines(items) == [i \in DOMAIN items |->
  [mark |-> IF items[i].done THEN "[x]" ELSE "[ ]", text |-> items[i].text]]

Reminder(m) == [on |-> m # {}, hours |-> m]
ApplyReminders(f, d) ==
  [f EXCEPT !.remindStart = Reminder(d.remindStart), !.remindDue = Reminder(d.remindDue)]

\* The fields of an offset that is set; one that is not keeps what stands there.
Offset(o, kept) == IF o = {} THEN kept ELSE LET x == CHOOSE y \in o : TRUE
                                            IN  [on |-> TRUE, amount |-> {x.amount}, unit |-> x.unit]

\* The zone of the repetition is not shown and not kept.
ApplyRepeat(f, repeat) ==
  IF repeat = {} THEN f
  ELSE LET spec == CHOOSE r \in repeat : TRUE
           base == [f EXCEPT !.at = {spec.at}, !.kind = spec.kind,
                             !.repeatStart = Offset(spec.startRule, @), !.repeatDue = Offset(spec.dueRule, @)]
       IN  CASE spec.kind = "EveryDays"  -> [base EXCEPT !.every = {spec.n}, !.from = spec.from]
             [] spec.kind = "Weekdays"   -> [base EXCEPT !.weekdays = spec.days]
             [] spec.kind = "DayOfMonth" -> [base EXCEPT !.day = {spec.n}]
             [] spec.kind = "FixedDate"  -> [base EXCEPT !.date = {spec.n}]

ApplyDraft(f, d) ==
  ApplyRepeat(ApplyReminders([f EXCEPT !.preselect = d.assignees, !.title = d.title,
    !.description = d.description, !.rules = d.rules, !.autoStart = d.autoStart,
    !.checklist = Lines(d.checklist)], d), d.repeat)

EditTask(id, d) ==
  [ApplyDraft(Blank("Edit", id), d) EXCEPT
     !.start = DateText(d.start), !.due = DateText(d.due), !.deps = d.dependsOn]

\* An offset from now as an instant; an hour counts one, a day two.
After(o) == {Now + 2 * x.amount * (IF x.unit = "Hours" THEN 1 ELSE 2) : x \in o}

CreateFromTemplate(id, d, options) ==
  [ApplyDraft(Blank("FromTemplate", id), d) EXCEPT
     !.start = DateText(After(options.startPrefill)), !.due = DateText(After(options.duePrefill))]

TemplateEdit(id, d, options) ==
  [ApplyDraft(Blank("TemplateEdit", id), d) EXCEPT
     !.preselectTemplates = options.depTemplates,
     !.startPrefill = Offset(options.startPrefill, @), !.prefill = Offset(options.duePrefill, @),
     !.fromAverage = options.fromAverage # {},
     !.minSamples = IF options.fromAverage = {} THEN @ ELSE options.fromAverage]

SetTemplateChoices(f) ==
  [f EXCEPT !.choices = LET others == SelectSeq(Neighbours, LAMBDA t : f.mode # "TemplateEdit" \/ t # f.me)
                        IN  [i \in DOMAIN others |->
                               [id |-> others[i], on |-> others[i] \in f.preselectTemplates]]]

Opened(s) ==
  CASE s.mode = "Create"       -> Blank("Create", s.id)
    [] s.mode = "Edit"         -> EditTask(s.id, s.draft)
    [] s.mode = "FromTemplate" -> CreateFromTemplate(s.id, s.draft, s.options)
    [] s.mode = "TemplateNew"  -> SetTemplateChoices(Blank("TemplateNew", s.id))
    [] s.mode = "TemplateEdit" -> SetTemplateChoices(TemplateEdit(s.id, s.draft, s.options))

SetMembers(f) ==
  [f EXCEPT !.members = [i \in DOMAIN Membership |->
     [uid |-> Membership[i], on |-> Membership[i] \in f.preselect]]]

SetDepHits(f, hits) ==
  [f EXCEPT !.hits = SelectSeq(hits, LAMBDA h : h \notin f.selfTask /\ h \notin ToSet(f.deps))]

AddDep(f, i) == [f EXCEPT !.hits = RemoveAt(@, i), !.deps = Append(@, f.hits[i])]
RemoveDep(f, i) == [f EXCEPT !.deps = RemoveAt(@, i)]

-----------------------------------------------------------------------------
(* The fields as they stand become a draft.                                   *)

\* A box that is not ticked says nothing; what a ticked one holds must be read.
OffsetOf(o) == IF o.on THEN {[amount |-> n, unit |-> o.unit] : n \in o.amount} ELSE {}
BadOffset(o) == o.on /\ (o.amount \in {{}, Junk} \/ \E n \in o.amount : n > MaxOffset)

ReminderOf(r) == IF r.on THEN r.hours ELSE {}
BadReminder(r) == r.on /\ (r.hours \in {{}, Junk} \/ \E m \in r.hours : m > MaxReminder)

ParseChecklist(lines) ==
  LET kept == SelectSeq(lines, LAMBDA l : l.text # "")
  IN  [i \in DOMAIN kept |-> [text |-> kept[i].text, done |-> kept[i].mark = "[x]"]]

RepeatSpec(f) ==
  IF f.kind = "None" THEN {}
  ELSE {[kind |-> f.kind, at |-> CHOOSE t \in f.at : TRUE, tz |-> Zone,
         startRule |-> OffsetOf(f.repeatStart), dueRule |-> OffsetOf(f.repeatDue),
         n |-> CASE f.kind = "EveryDays" -> CHOOSE n \in f.every : TRUE
                 [] f.kind = "DayOfMonth" -> CHOOSE n \in f.day : TRUE
                 [] f.kind = "FixedDate" -> CHOOSE n \in f.date : TRUE
                 [] OTHER -> 0,
         from |-> IF f.kind # "EveryDays" THEN {} ELSE IF f.from = {} THEN {Today} ELSE f.from,
         days |-> IF f.kind = "Weekdays" THEN f.weekdays ELSE {}]}

\* EveryDays wants a day at least, Weekdays one of them, DayOfMonth one there is.
BadRepeat(f) ==
  /\ f.kind # "None"
  /\ \/ f.kind = "EveryDays" /\ f.every \in {{}, Junk, {0}}
     \/ f.kind = "Weekdays" /\ f.weekdays = {}
     \/ f.kind = "DayOfMonth" /\ f.day \in {{}, Junk, {0}}
     \/ f.kind = "FixedDate" /\ f.date \in {{}, Junk}
     \/ f.at \in {{}, Junk} \/ BadOffset(f.repeatStart) \/ BadOffset(f.repeatDue)

BadDates(f) ==
  /\ ~IsTemplate(f)
  /\ \/ BadDate(f.start) \/ BadDate(f.due)
     \/ \E s \in ParseWhen(f.start), d \in ParseWhen(f.due) : s > d

Invalid(f) ==
  \/ f.title = "" \/ BadDates(f) \/ BadRepeat(f)
  \/ BadReminder(f.remindStart) \/ BadReminder(f.remindDue)
  \/ BadOffset(f.prefill) \/ BadOffset(f.startPrefill)
  \/ f.fromAverage /\ (~f.prefill.on \/ f.minSamples \in {{}, Junk})

Values(f) ==
  [draft |-> [title |-> f.title, description |-> f.description,
              start |-> IF IsTemplate(f) THEN {} ELSE ParseWhen(f.start),
              due |-> IF IsTemplate(f) THEN {} ELSE ParseWhen(f.due),
              remindStart |-> ReminderOf(f.remindStart), remindDue |-> ReminderOf(f.remindDue),
              assignees |-> {f.members[i].uid : i \in {j \in DOMAIN f.members : f.members[j].on}},
              dependsOn |-> IF IsTemplate(f) THEN <<>> ELSE f.deps,
              checklist |-> ParseChecklist(f.checklist), repeat |-> RepeatSpec(f), rules |-> f.rules,
              autoStart |-> ~IsTemplate(f) /\ f.autoStart],
   options |-> [startPrefill |-> OffsetOf(f.startPrefill), duePrefill |-> OffsetOf(f.prefill),
                fromAverage |-> IF f.fromAverage THEN f.minSamples ELSE {},
                depTemplates |-> {f.choices[i].id : i \in {j \in DOMAIN f.choices : f.choices[j].on}}]]

-----------------------------------------------------------------------------
(* The widgets. One is named by the field and the part of it; only those the   *)
(* focus ring holds take keys and clicks.                                      *)

Plain(fields) == {<<x, "">> : x \in fields}
WithOffset(f, o) == {<<o, "on">>} \cup IF f[o].on THEN {<<o, "amount">>, <<o, "unit">>} ELSE {}
WithReminder(f, r) == {<<r, "on">>} \cup IF f[r].on THEN {<<r, "hours">>} ELSE {}

Ring(f) ==
  Plain({"title", "description"})
  \cup (IF IsTemplate(f)
        THEN WithOffset(f, "startPrefill") \cup WithOffset(f, "prefill") \cup Plain({"fromAverage"})
             \cup Plain(IF f.fromAverage THEN {"minSamples"} ELSE {})
        ELSE Plain({"start", "autoStart", "due"}))
  \cup WithReminder(f, "remindStart") \cup WithReminder(f, "remindDue") \cup Plain({"kind"})
  \cup Plain(CASE f.kind = "EveryDays" -> {"every"} [] f.kind = "DayOfMonth" -> {"day"}
               [] f.kind = "FixedDate" -> {"date"} [] OTHER -> {})
  \cup IF f.kind = "None" THEN {}
       ELSE Plain({"at"}) \cup WithOffset(f, "repeatStart") \cup WithOffset(f, "repeatDue")

\* What a widget may come to hold; a box turns.
Inputs(f, w) ==
  CASE w[2] = "on" -> {~f[w[1]].on}
    [] w[2] = "unit" -> {"Hours", "Days"}
    [] w[2] = "amount" -> {{}, Junk, {1}, {MaxOffset + 1}}
    [] w[2] = "hours" -> {{}, Junk, {MaxReminder}, {MaxReminder + 1}}
    [] w[1] \in {"title", "description"} -> {"", "other"}
    [] w[1] \in {"fromAverage", "autoStart"} -> {~f[w[1]]}
    [] w[1] = "kind" -> {"None", "EveryDays", "Weekdays", "DayOfMonth", "FixedDate"}
    [] OTHER -> {{}, Junk, {0}, {3}}

\* The field of the draft a widget writes.
Writes(name) ==
  CASE name \in {"kind", "every", "day", "date", "at", "repeatStart", "repeatDue"} -> "repeat"
    [] name = "prefill" -> "duePrefill"
    [] name = "minSamples" -> "fromAverage"
    [] OTHER -> name

Entered(f, w, v) == IF w[2] = "" THEN [f EXCEPT ![w[1]] = v] ELSE [f EXCEPT ![w[1]][w[2]] = v]

Typing == view = "form" /\ ~form.saving /\ touches < MaxTouches
Touch(f, field) == form' = f /\ touched' = touched \cup {field} /\ touches' = touches + 1

Type ==
  /\ Typing
  /\ \E w \in Ring(form) : \E v \in Inputs(form, w) : Touch(Entered(form, w, v), Writes(w[1]))
  /\ UNCHANGED <<view, waiting, told, draft, source>>

InsertNow ==
  /\ Typing /\ ~IsTemplate(form)
  /\ \E d \in {"start", "due"} : Touch([form EXCEPT ![d] = DateText({Now})], d)
  /\ UNCHANGED <<view, waiting, told, draft, source>>

TickMember ==
  /\ Typing
  /\ \E i \in DOMAIN form.members : Touch([form EXCEPT !.members[i].on = ~@], "assignees")
  /\ UNCHANGED <<view, waiting, told, draft, source>>

TickWeekday ==
  /\ Typing /\ form.kind = "Weekdays"
  /\ Touch([form EXCEPT !.weekdays = SymDiff(@, {6})], "repeat")
  /\ UNCHANGED <<view, waiting, told, draft, source>>

ToggleDepTemplate ==
  /\ Typing /\ IsTemplate(form)
  /\ \E i \in DOMAIN form.choices : Touch([form EXCEPT !.choices[i].on = ~@], "depTemplates")
  /\ UNCHANGED <<view, waiting, told, draft, source>>

SearchDeps ==
  /\ Typing /\ ~IsTemplate(form) /\ Len(waiting) < MaxWaiting
  /\ waiting' = Append(waiting, "Search") /\ touches' = touches + 1
  /\ UNCHANGED <<form, view, touched, told, draft, source>>

PickDep ==
  /\ Typing /\ ~IsTemplate(form)
  /\ \/ \E i \in DOMAIN form.hits : Touch(AddDep(form, i), "dependsOn")
     \/ \E i \in DOMAIN form.deps : Touch(RemoveDep(form, i), "dependsOn")
  /\ UNCHANGED <<view, waiting, told, draft, source>>

\* The print rules have a window of their own, which keeps the form meanwhile.
EditPrinting ==
  /\ view = "form" /\ ~form.saving
  /\ view' = "rules"
  /\ UNCHANGED <<form, waiting, touched, touches, told, draft, source>>

RulesDone ==
  /\ view = "rules"
  /\ view' = "form"
  /\ \/ UNCHANGED <<form, touched, touches>>
     \/ touches < MaxTouches /\ Touch(SetRules(form, <<"late">>), "rules")
  /\ UNCHANGED <<waiting, told, draft, source>>

Cancel ==
  /\ view = "form" /\ ~form.saving
  /\ view' = "none"
  /\ UNCHANGED <<form, waiting, touched, touches, told, draft, source>>

\* F2 and the button: a form that cannot be read says why.
Save ==
  /\ view = "form" /\ ~form.saving /\ Len(waiting) < MaxWaiting
  /\ IF Invalid(form)
     THEN form' = [form EXCEPT !.error = TRUE] /\ UNCHANGED <<waiting, draft>>
     ELSE /\ form' = [form EXCEPT !.error = FALSE, !.saving = TRUE]
          /\ waiting' = Append(waiting, "Save")
          /\ draft' = {[saved |-> Values(form), told |-> told, touched |-> touched]}
  /\ UNCHANGED <<view, touched, touches, told, source>>

-----------------------------------------------------------------------------
(* A control code writes a field of the open form, also of one being saved.   *)

\* The date after a series of values, {} when cleared; text is refused before.
ValuesDate(values, current) ==
  FoldLeft(LAMBDA c, v : CASE v = "Now" -> {Now} [] v = "Clear" -> {}
                           [] v = "Plus" -> {i + 2 : i \in IF c = {} THEN {Now} ELSE c},
           current, values)

Current(text) == IF BadDate(text) THEN {} ELSE ParseWhen(text)

SetDates(f, values, fields) ==
  [x \in DOMAIN f |-> IF x \in fields THEN DateText(ValuesDate(values, Current(f[x]))) ELSE f[x]]

SetReminder(f, r, minutes) == [f EXCEPT ![r] = [on |-> minutes # {}, hours |-> minutes]]

AppendItem(f, text) == [f EXCEPT !.checklist = Append(@, [mark |-> "", text |-> text])]

\* A line without a mark gets one.
TurnItem(f, n) ==
  [f EXCEPT !.checklist[n].mark = IF @ = "[x]" THEN "[ ]" ELSE "[x]"]

ClearAssignees(f) ==
  [f EXCEPT !.preselect = {}, !.members = [i \in DOMAIN @ |-> [@[i] EXCEPT !.on = FALSE]]]
Assign(f, uid) ==
  [f EXCEPT !.members = [i \in DOMAIN @ |-> [@[i] EXCEPT !.on = @ \/ f.members[i].uid = uid]]]

SetField ==
  /\ view = "form" /\ touches < MaxTouches
  /\ \/ Touch([form EXCEPT !.title = "other", !.error = FALSE], "title")
     \/ \E fields \in {{"start"}, {"due"}, {"start", "due"}},
           values \in {<<"Now">>, <<"Clear">>, <<"Plus">>, <<"Now", "Plus">>} :
          /\ form' = [SetDates(form, values, fields) EXCEPT !.error = FALSE]
          /\ touched' = touched \cup fields /\ touches' = touches + 1
     \/ \E r \in {"remindStart", "remindDue"}, m \in {{}, {1}, {MaxReminder + 1}} :
          Touch([SetReminder(form, r, m) EXCEPT !.error = FALSE], r)
     \/ Touch([AppendItem(form, "more") EXCEPT !.error = FALSE], "checklist")
     \/ \E n \in DOMAIN form.checklist : Touch([TurnItem(form, n) EXCEPT !.error = FALSE], "checklist")
     \/ \E cleared \in {form, ClearAssignees(form)} :
          \/ Touch([cleared EXCEPT !.error = FALSE], "assignees")
          \/ \E uid \in ToSet(Membership) :
               IF uid \in {m.uid : m \in ToSet(form.members)}
               THEN Touch([Assign(cleared, uid) EXCEPT !.error = FALSE], "assignees")
               ELSE Touch(cleared, "assignees")
  /\ UNCHANGED <<view, waiting, told, draft, source>>

-----------------------------------------------------------------------------
(* Answers, in the order of the requests; one that finds no form is dropped.   *)

MembersCome ==
  /\ waiting # <<>> /\ Head(waiting) = "Members"
  /\ waiting' = Tail(waiting)
  /\ IF view = "form" THEN form' = SetMembers(form) /\ told' = TRUE ELSE UNCHANGED <<form, told>>
  /\ UNCHANGED <<view, touched, touches, draft, source>>

HitsCome ==
  /\ waiting # <<>> /\ Head(waiting) = "Search"
  /\ waiting' = Tail(waiting)
  /\ \E hits \in Hits : form' = IF view = "form" THEN SetDepHits(form, hits) ELSE form
  /\ UNCHANGED <<view, touched, touches, told, draft, source>>

\* The daemon took the save, or refused it and the form may try again.
SaveAnswered ==
  /\ waiting # <<>> /\ Head(waiting) = "Save"
  /\ waiting' = Tail(waiting)
  /\ \/ view' = "none" /\ form' = form
     \/ view' = view /\ form' = [form EXCEPT !.saving = FALSE, !.error = TRUE]
  /\ UNCHANGED <<touched, touches, told, draft, source>>

FormInit ==
  /\ source \in Sources
  /\ form = Opened(source)
  /\ view = "form" /\ waiting = <<"Members">>
  /\ touched = {} /\ touches = 0 /\ told = FALSE /\ draft = {}

FormNext ==
  \/ Type \/ InsertNow \/ TickMember \/ TickWeekday \/ ToggleDepTemplate \/ SearchDeps \/ PickDep
  \/ EditPrinting \/ RulesDone \/ Cancel \/ Save \/ SetField
  \/ MembersCome \/ HitsCome \/ SaveAnswered

-----------------------------------------------------------------------------
EmptyDraft ==
  [title |-> "", description |-> "", start |-> {}, due |-> {}, remindStart |-> {}, remindDue |-> {},
   assignees |-> {}, dependsOn |-> <<>>, checklist |-> <<>>, repeat |-> {}, rules |-> <<>>,
   autoStart |-> FALSE]

\* What the form was opened with.
GivenDraft ==
  CASE source.mode \in {"Create", "TemplateNew"} -> EmptyDraft
    [] source.mode = "FromTemplate" -> [source.draft EXCEPT !.start = After(source.options.startPrefill),
                                                            !.due = After(source.options.duePrefill)]
    [] OTHER -> source.draft

Kept(field, was, is) ==
  CASE field \in {"start", "due"} -> DateText(is) = DateText(was)
    [] field = "assignees" -> is = was \cap ToSet(Membership)
    [] field = "repeat" -> is = {[r EXCEPT !.tz = Zone] : r \in was}
    [] OTHER -> is = was

\* Saving leaves every field as it was that neither the user nor a code touched,
\* whatever was done to the others, to the print rules window and by the answers:
\* dates as they show, the repetition but for its zone (RepeatSpec writes the zone
\* of the user), the assignees who are still members. An answer with the members
\* that has not come, or that came while the print rules window had the form,
\* is not excused by the code; the save then takes all assignees away.
UntouchedSurvives ==
  \A d \in draft :
    /\ \A field \in DOMAIN EmptyDraft \ d.touched :
         (field = "assignees" => d.told) => Kept(field, GivenDraft[field], d.saved.draft[field])
    /\ source.mode = "TemplateEdit" =>
         \A o \in DOMAIN d.saved.options \ d.touched : d.saved.options[o] = source.options[o]

=============================================================================
