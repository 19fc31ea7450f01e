------------------------------- MODULE Slips -------------------------------
(* What is printed for one task without anybody asking: the slips its own    *)
(* print rules name, or else the autoprint and the reminders of the people's *)
(* preferences. Requests that make and move the task print what the event    *)
(* has earned; the scheduler prints what the clock has. Each hold of the     *)
(* database lock is one step.                                                *)
EXTENDS Integers, Sequences, FiniteSets

CONSTANTS
  Person,      \* uids of those who have logged in: list_users goes by them
  Creator,     \* who made the task
  Member,      \* of the board; some may never have logged in
  Prefs,       \* what each person wants printed
  Drafts,      \* the tasks it may be created as and edited to
  Worker,      \* request handlers at work at the same time
  MaxTime, Grace, MaxEdits, MaxMoves, MaxCrashes,
  Unset        \* of what is optional

\* Uids are numbers: of any of them one is the first.
ASSUME PersonAssumption ==
  \A S \in SUBSET Person : S # {} => \E u \in S : \A v \in S : u <= v

\* PrintWhen: the moments of a rule. They are none of the reminders, with which
\* they share a table.
ASSUME DraftsAssumption ==
  \A t \in Drafts : \A r \in t.rules : r.when \in {"onCreate", "onStart", "beforeDue"}

VARIABLES
  clock, task, col,
  started,     \* the log of events has the started column in it
  autoprinted, \* table task_autoprint
  sent,        \* table reminders_sent
  pass,        \* what the scheduler is at
  work,        \* what each handler still has to do
  handed,      \* slips given to the print queue
  twice,       \* those given to it more than once
  lost,        \* those marked as sent when the daemon stopped
  edits, moves, crashes

CreatedAt == 0

-----------------------------------------------------------------------------
\* What is owed.

Assigned(t, u) == u \in t.assignees

WantsAutoprint(p, trigger, t, u) ==
  /\ <<p.mode, trigger>> \in {<<"OnAdd", "AddedToBoard">>, <<"OnStart", "MovedToStarted">>}
  /\ \/ p.filter = Unset
     \/ "assignedToMe" \in p.filter /\ Assigned(t, u)
     \/ /\ "createdByMe" \in p.filter /\ u = Creator
        /\ "unlessNotAssignedToMe" \in p.filter => Assigned(t, u)

\* When the reminder of a kind is due: the task's own lead stands before the
\* person's.
ReminderAt(lead, own, anchor) ==
  LET minutes == IF own # Unset THEN own ELSE lead
  IN  IF minutes = Unset \/ anchor = Unset THEN Unset ELSE anchor - minutes

PlanReminders(t, p) ==
  LET both == t.start # Unset /\ t.due # Unset
      Plan(kind, anchor, job, at) ==
        IF at = Unset THEN <<>> ELSE <<[kind |-> kind, anchor |-> anchor, job |-> job, at |-> at]>>
  IN  Plan("start", t.start, "reminder", ReminderAt(p.startLead, t.remindStart, t.start))
        \o Plan("due", t.due, IF both THEN "task" ELSE "reminder",
                ReminderAt(p.dueLead, t.remindDue, t.due))

\* Rules are remembered by their moment and their paper.
SentKind(rule) == <<rule.when, rule.slip>>

RecipientsOf(rule, t) ==
  Member \cap (CASE rule.to = "assignees" /\ t.assignees # {} -> t.assignees
                 [] rule.to = "users" -> rule.users
                 [] OTHER -> {Creator})

\* The key of a start slip, dated instead: then the event prints it again.
SentAnchorDated(rule, t) == IF rule.when = "onStart" THEN t.start ELSE t.due
\* "On start" by date and by the move into the column are one slip.
SentAnchor(rule, t) == IF rule.when = "onStart" THEN CreatedAt ELSE t.due

\* A cutoff for every dated slip.
CutoffAlways(rule, t) == {IF rule.when = "onStart" THEN t.start ELSE t.due}
Cutoff(rule, t) == IF rule.when = "onStart" THEN {} ELSE {t.due}

\* The rules of a task whose date has come and has not gone by.
PlanRulePrints(t, now) ==
  {rule \in t.rules :
     \/ rule.when = "onStart" /\ t.start # Unset /\ t.start <= now
     \/ rule.when = "beforeDue" /\ t.due # Unset /\ t.due - rule.lead <= now}

Late(rule, t, now) == \E a \in Cutoff(rule, t) : now > a + Grace

\* Who of a rule's recipients has not had its slip under this key.
QueueRule(rule, t, anchor) ==
  {<<u, SentKind(rule), anchor>> : u \in RecipientsOf(rule, t) \cap Person} \ sent

-----------------------------------------------------------------------------
NoWork == [at |-> "idle"]
NoPass == [at |-> "idle"]
\* With jobs to queue, or with none left.
ToSpool(jobs) == IF jobs = {} THEN [at |-> "idle"] ELSE [at |-> "spool", jobs |-> jobs]

SlipsInit ==
  /\ clock = 0 /\ task \in Drafts /\ col = "todo" /\ started = FALSE
  /\ autoprinted = {} /\ sent = {}
  /\ pass = NoPass
  \* The handler that made the task has committed it and is about to print.
  /\ \E w \in Worker :
       work = [x \in Worker |-> IF x = w THEN [at |-> "print", copy |-> task,
                                               trigger |-> "AddedToBoard"] ELSE NoWork]
  /\ handed = {} /\ twice = {} /\ lost = {}
  /\ edits = 0 /\ moves = 0 /\ crashes = 0

\* enqueue_print. Every date has its reminders, but a task starts once.
PaperOf(slip) == IF slip[2][1] = "onStart" THEN <<slip[1], slip[2], CreatedAt>> ELSE slip

Enqueue(slip) ==
  /\ handed' = handed \cup {PaperOf(slip)}
  /\ twice' = IF PaperOf(slip) \in handed THEN twice \cup {PaperOf(slip)} ELSE twice

rows == <<task, col, started, edits, moves>>
papers == <<handed, twice, lost>>

-----------------------------------------------------------------------------
\* Requests.

\* move_task: the commit; entering the started column prints afterwards.
Move(w, to) ==
  /\ work[w] = NoWork /\ col # to /\ moves < MaxMoves
  /\ col' = to /\ moves' = moves + 1
  /\ started' = (started \/ to = "started")
  /\ work' = IF to = "started"
             THEN [work EXCEPT ![w] = [at |-> "print", copy |-> task, trigger |-> "MovedToStarted"]]
             ELSE work
  /\ UNCHANGED <<clock, task, autoprinted, sent, pass, papers, edits, crashes>>

\* update_task
Edit ==
  /\ edits < MaxEdits /\ edits' = edits + 1
  /\ task' \in Drafts \ {task}
  /\ UNCHANGED <<clock, col, started, autoprinted, sent, pass, work, papers, moves, crashes>>

\* PrintTask, for the slip that finishes: having asked for it is having it.
PrintTask(u) ==
  /\ u \in Member /\ u \notin autoprinted
  /\ autoprinted' = autoprinted \cup {u}
  /\ UNCHANGED <<clock, rows, sent, pass, work, papers, crashes>>

\* slips::fire, in one hold of the lock.
Fire(w) ==
  LET t == work[w].copy
      when == IF work[w].trigger = "AddedToBoard" THEN "onCreate" ELSE "onStart"
      jobs == UNION {QueueRule(r, t, CreatedAt) : r \in {r \in t.rules : r.when = when /\ r.slip # "sheet"}}
  IN  /\ work[w].at = "print" /\ t.rules # {}
      /\ sent' = sent \cup jobs
      /\ work' = [work EXCEPT ![w] = ToSpool(jobs)]
      /\ UNCHANGED <<clock, rows, autoprinted, pass, papers, crashes>>

\* autoprint of a task without rules, in one hold of the lock.
Autoprint(w) ==
  LET t == work[w].copy
      wanting == {u \in (Person \cap Member) \ autoprinted :
                    WantsAutoprint(Prefs[u], work[w].trigger, t, u)}
      jobs == {<<u, <<"autoprint", "task">>, CreatedAt>> : u \in wanting}
  IN  /\ work[w].at = "print" /\ t.rules = {}
      /\ autoprinted' = autoprinted \cup wanting
      /\ work' = [work EXCEPT ![w] = ToSpool(jobs)]
      /\ UNCHANGED <<clock, rows, sent, pass, papers, crashes>>

\* The jobs are queued one by one after the lock is let go.
Spool(w) ==
  /\ work[w].at = "spool"
  /\ \E j \in work[w].jobs :
       /\ Enqueue(j)
       /\ work' = [work EXCEPT ![w] = ToSpool(@.jobs \ {j})]
  /\ UNCHANGED <<clock, rows, autoprinted, sent, pass, lost, crashes>>

-----------------------------------------------------------------------------
\* The scheduler: print_reminders, then print_dated.

PassBegins ==
  /\ pass = NoPass
  /\ pass' = [at |-> "users", now |-> clock, left |-> Person]
  /\ UNCHANGED <<clock, rows, autoprinted, sent, work, papers, crashes>>

\* reminder_candidates for the next person. A task with rules of its own
\* prints by those.
ReminderCandidate(u) ==
  /\ col # "finished" /\ (task.start # Unset \/ task.due # Unset)
  /\ Assigned(task, u) \/ (u = Creator /\ task.assignees = {})

NextUser ==
  /\ pass.at = "users"
  /\ IF pass.left = {}
     THEN pass' = [at |-> "rules", now |-> pass.now]
     ELSE LET u == CHOOSE u \in pass.left : \A v \in pass.left : u <= v
              plan == IF ReminderCandidate(u) /\ u \in Member /\ task.rules = {}
                      THEN PlanReminders(task, Prefs[u]) ELSE <<>>
              rest == [pass EXCEPT !.left = @ \ {u}]
          IN  pass' = IF plan = <<>> THEN rest
                      ELSE [at |-> "plan", now |-> pass.now, left |-> rest.left, u |-> u, plan |-> plan]
  /\ UNCHANGED <<clock, rows, autoprinted, sent, work, papers, crashes>>

first == Head(pass.plan)
ReminderKey == <<pass.u, <<"reminder", first.kind>>, first.anchor>>
\* On with this planned reminder, or with the one after it.
At(step) == [pass EXCEPT !.at = step]
Onward ==
  IF Len(pass.plan) = 1 THEN [at |-> "users", now |-> pass.now, left |-> pass.left]
  ELSE [pass EXCEPT !.at = "plan", !.plan = Tail(@)]

\* By the clock, and by what was sent.
Planned ==
  /\ pass.at = "plan"
  /\ pass' = IF first.at > pass.now \/ pass.now > first.anchor + Grace \/ ReminderKey \in sent THEN Onward
             ELSE At(IF first.kind = "start" THEN "started" ELSE IF first.job = "task" THEN "already" ELSE "mark")
  /\ UNCHANGED <<clock, rows, autoprinted, sent, work, papers, crashes>>

\* was_ever_started
EverStarted ==
  /\ pass.at = "started"
  /\ pass' = IF started THEN Onward ELSE At("mark")
  /\ UNCHANGED <<clock, rows, autoprinted, sent, work, papers, crashes>>

\* Whether the person has the slip already, in a hold of its own.
Already ==
  /\ pass.at = "already"
  /\ pass' = At(IF pass.u \in autoprinted THEN "note" ELSE "take")
  /\ UNCHANGED <<clock, rows, autoprinted, sent, work, papers, crashes>>

Take ==
  /\ pass.at = "take"
  /\ autoprinted' = autoprinted \cup {pass.u}
  /\ pass' = At("mark")
  /\ UNCHANGED <<clock, rows, sent, work, papers, crashes>>

\* mark_reminder_sent, with a slip to queue or without.
Mark ==
  /\ pass.at \in {"mark", "note"}
  /\ sent' = sent \cup {ReminderKey}
  /\ pass' = IF pass.at = "mark" THEN At("queue") ELSE Onward
  /\ UNCHANGED <<clock, rows, autoprinted, work, papers, crashes>>

QueueReminder ==
  /\ pass.at = "queue"
  /\ Enqueue(ReminderKey)
  /\ pass' = Onward
  /\ UNCHANGED <<clock, rows, autoprinted, sent, work, lost, crashes>>

\* dated_rule_tasks
DatedRuleTasks ==
  /\ pass.at = "rules"
  /\ pass' = IF col # "finished" /\ task.rules # {} /\ (task.start # Unset \/ task.due # Unset)
             THEN [at |-> "dated", now |-> pass.now, copy |-> task] ELSE NoPass
  /\ UNCHANGED <<clock, rows, autoprinted, sent, work, papers, crashes>>

PrintDated ==
  /\ pass.at = "dated"
  /\ LET t == pass.copy
         jobs == UNION {QueueRule(r, t, SentAnchor(r, t)) :
                          r \in {r \in PlanRulePrints(t, pass.now) : ~Late(r, t, pass.now)}}
     IN  /\ sent' = sent \cup jobs
         /\ pass' = ToSpool(jobs)
  /\ UNCHANGED <<clock, rows, autoprinted, work, papers, crashes>>

SpoolDated ==
  /\ pass.at = "spool"
  /\ \E j \in pass.jobs :
       /\ Enqueue(j)
       /\ pass' = ToSpool(pass.jobs \ {j})
  /\ UNCHANGED <<clock, rows, autoprinted, sent, work, lost, crashes>>

-----------------------------------------------------------------------------
Tick ==
  /\ clock < MaxTime /\ clock' = clock + 1
  /\ UNCHANGED <<rows, autoprinted, sent, pass, work, papers, crashes>>

\* The daemon stops: what was marked and not queued is lost.
Crash ==
  /\ crashes < MaxCrashes /\ crashes' = crashes + 1
  /\ lost' = lost \cup (UNION {work[w].jobs : w \in {w \in Worker : work[w].at = "spool"}})
                  \cup (IF pass.at = "spool" THEN pass.jobs ELSE {})
  /\ pass' = NoPass /\ work' = [w \in Worker |-> NoWork]
  /\ UNCHANGED <<clock, rows, autoprinted, sent, handed, twice>>

SchedulerStep ==
  \/ PassBegins \/ NextUser \/ Planned \/ EverStarted \/ Already \/ Take \/ Mark \/ QueueReminder
  \/ DatedRuleTasks \/ PrintDated \/ SpoolDated
HandlerStep(w) == Fire(w) \/ Autoprint(w) \/ Spool(w)

SlipsNext ==
  \/ SchedulerStep
  \/ \E w \in Worker : HandlerStep(w) \/ \E to \in {"todo", "started", "finished"} : Move(w, to)
  \/ Edit \/ (\E u \in Person : PrintTask(u)) \/ Tick \/ Crash

slipVars == <<clock, task, col, started, autoprinted, sent, pass, work, handed, twice, lost,
              edits, moves, crashes>>
SlipsSpec == SlipsInit /\ [][SlipsNext]_slipVars

-----------------------------------------------------------------------------
\* slips.rs: "remembered so nobody is handed the same paper twice". Whatever
\* happens at the same time, and over a restart, nobody is queued the same
\* slip of a rule, the same reminder of a date, or a second autoprint.
HandedOnce == twice = {}

\* "A start slip has no such cutoff: a task whose start date went by while
\* nobody started it is exactly one still waiting for its paper." Somebody a
\* start slip is owed to, and who has not had it.
Owed(u) ==
  /\ col # "finished" /\ task.start # Unset /\ task.start <= clock
  /\ \E r \in task.rules :
       /\ r.when = "onStart" /\ u \in RecipientsOf(r, task) \cap Person
       /\ \A s \in handed \cup lost : s[1] # u \/ s[2] # SentKind(r)

\* It is queued, unless a stop of the daemon took it, however the start date
\* comes: by the scheduler or by the move.
StartSlipComes == \A u \in Person : []<>~Owed(u)
=============================================================================
