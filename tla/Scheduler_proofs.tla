--------------------------- MODULE Scheduler_proofs ---------------------------
(***************************************************************************)
(* What the scheduler does by itself.  Nobody is handed a slip twice, for  *)
(* every number of people, handlers, drafts and rules (Slips); a           *)
(* repetition that is handed on neither forks nor gets lost, for every     *)
(* number of instances, clients and rules (Repeats).                       *)
(***************************************************************************)
EXTENDS Slips, Repeats, SequenceTheorems, FiniteSetTheorems, TLAPS

-----------------------------------------------------------------------------
(* The slips there are.  A start slip has one key whatever its date is;    *)
(* every other slip of a rule, and every reminder, has its date in it.     *)
Moment == {"onCreate", "onStart", "beforeDue"}
Rules == UNION {t.rules : t \in Drafts}
Anchors == {CreatedAt} \cup {t.start : t \in Drafts} \cup {t.due : t \in Drafts}

RuleSlips ==
  {<<u, SentKind(r), a>> : u \in Person, r \in {q \in Rules : q.when # "onStart"}, a \in Anchors}
    \cup {<<u, SentKind(r), CreatedAt>> : u \in Person, r \in {q \in Rules : q.when = "onStart"}}
Reminders == {<<u, <<"reminder", k>>, a>> : u \in Person, k \in {"start", "due"}, a \in Anchors}
AutoSlip(u) == <<u, <<"autoprint", "task">>, CreatedAt>>
AutoSlips == {AutoSlip(u) : u \in Person}

Leads ==
  (UNION {{Prefs[u].startLead, Prefs[u].dueLead} : u \in Person})
    \cup (UNION {{t.remindStart, t.remindDue} : t \in Drafts})
Moments == {ReminderAt(lead, own, a) : lead \in Leads, own \in Leads, a \in Anchors}
Reminder == [kind : {"start", "due"}, anchor : Anchors, job : {"reminder", "task"}, at : Moments]

Handling ==
  {NoWork} \cup [at : {"print"}, copy : Drafts, trigger : {"AddedToBoard", "MovedToStarted"}]
           \cup [at : {"spool"}, jobs : SUBSET (RuleSlips \cup AutoSlips)]

(* A reminder of the plan, until it is marked and after.                   *)
Deciding == {"started", "already", "take", "note", "mark"}
OnPlan ==
  [at : {"plan", "queue"} \cup Deciding, now : Nat, left : SUBSET Person, u : Person,
   plan : Seq(Reminder) \ {<<>>}]
Passing ==
  {NoPass} \cup [at : {"users"}, now : Nat, left : SUBSET Person] \cup OnPlan
           \cup [at : {"rules"}, now : Nat] \cup [at : {"dated"}, now : Nat, copy : Drafts]
           \cup [at : {"spool"}, jobs : SUBSET RuleSlips]

TypeOK ==
  /\ clock \in Nat
  /\ task \in Drafts
  /\ autoprinted \subseteq Person
  /\ sent \subseteq RuleSlips \cup Reminders
  /\ pass \in Passing
  /\ work \in [Worker -> Handling]
  /\ handed \subseteq RuleSlips \cup Reminders \cup AutoSlips

-----------------------------------------------------------------------------
(* The inductive invariant.  What is on its way to the queue is marked     *)
(* already, by the lock hold that decided it, and nobody else holds it: so *)
(* who looks at the marks next decides nothing that is on its way.  A      *)
(* reminder the pass has looked up and not marked yet has no mark, because *)
(* the pass alone sets the marks of reminders.                             *)
Held(w) == IF work[w].at = "spool" THEN work[w].jobs ELSE {}
HeldByPass ==
  IF pass.at = "spool" THEN pass.jobs ELSE IF pass.at = "queue" THEN {ReminderKey} ELSE {}

Marked == sent \cup {AutoSlip(u) : u \in autoprinted}

Remembered ==
  /\ handed \subseteq Marked
  /\ HeldByPass \subseteq Marked
  /\ \A w \in Worker : Held(w) \subseteq Marked

OneHolder ==
  /\ HeldByPass \cap handed = {}
  /\ \A w \in Worker : Held(w) \cap handed = {} /\ Held(w) \cap HeldByPass = {}
  /\ \A v, w \in Worker : v # w => Held(v) \cap Held(w) = {}

Undecided == pass.at \in Deciding => ReminderKey \notin sent

IInv == TypeOK /\ Remembered /\ OneHolder /\ Undecided /\ HandedOnce

-----------------------------------------------------------------------------
(* What the slips of a rule are, and that they carry no mark.              *)
LEMMA QueueRuleSlips ==
  ASSUME NEW t \in Drafts, NEW r \in t.rules, NEW a \in Anchors,
         r.when = "onStart" => a = CreatedAt
  PROVE  QueueRule(r, t, a) \subseteq RuleSlips \ sent
<1>1. r \in Rules
  BY DEF Rules
<1>2. ASSUME NEW u \in Person
      PROVE  <<u, SentKind(r), a>> \in RuleSlips
  BY <1>1 DEF RuleSlips
<1> QED
  BY <1>2 DEF QueueRule

(* The kinds of slips differ, and no slip goes by another name in the      *)
(* queue than in the marks.                                                *)
LEMMA Kinds ==
  /\ \A s \in RuleSlips : s[2][1] \in Moment
  /\ \A s \in Reminders : s[2][1] = "reminder"
  /\ \A s \in AutoSlips : s[2][1] = "autoprint"
  /\ \A u, v : AutoSlip(u) = AutoSlip(v) => u = v
  /\ \A u : AutoSlip(u)[2][1] = "autoprint"
  /\ \A s \in RuleSlips \cup Reminders \cup AutoSlips : PaperOf(s) = s
<1>1. \A s \in RuleSlips : s[2][1] \in Moment /\ (s[2][1] = "onStart" => s = <<s[1], s[2], CreatedAt>>)
  BY DraftsAssumption DEF RuleSlips, SentKind, Rules, Moment
<1>2. \A s \in Reminders : s[2][1] = "reminder"
  BY DEF Reminders
<1>3. \A u : AutoSlip(u)[2][1] = "autoprint" /\ AutoSlip(u)[1] = u
  BY DEF AutoSlip
<1> QED
  BY <1>1, <1>2, <1>3 DEF PaperOf, AutoSlips, Moment

LEMMA Plans ==
  ASSUME NEW t \in Drafts, NEW u \in Person
  PROVE  PlanReminders(t, Prefs[u]) \in Seq(Reminder)
<1> DEFINE p == Prefs[u]
           s == ReminderAt(p.startLead, t.remindStart, t.start)
           d == ReminderAt(p.dueLead, t.remindDue, t.due)
           job == IF t.start # Unset /\ t.due # Unset THEN "task" ELSE "reminder"
           S == IF s = Unset THEN <<>>
                ELSE <<[kind |-> "start", anchor |-> t.start, job |-> "reminder", at |-> s]>>
           D == IF d = Unset THEN <<>>
                ELSE <<[kind |-> "due", anchor |-> t.due, job |-> job, at |-> d]>>
<1>1. {p.startLead, p.dueLead, t.remindStart, t.remindDue} \subseteq Leads
  BY DEF Leads
<1>2. {t.start, t.due} \subseteq Anchors
  BY DEF Anchors
<1>3. s \in Moments /\ d \in Moments
  BY <1>1, <1>2 DEF Moments
<1>4. S \in Seq(Reminder) /\ D \in Seq(Reminder)
  <2>1. s # Unset => [kind |-> "start", anchor |-> t.start, job |-> "reminder", at |-> s] \in Reminder
    BY <1>2, <1>3 DEF Reminder
  <2>2. d # Unset => [kind |-> "due", anchor |-> t.due, job |-> job, at |-> d] \in Reminder
    BY <1>2, <1>3 DEF Reminder
  <2> HIDE DEF s, d, job
  <2> QED
    BY <2>1, <2>2
<1>5. PlanReminders(t, p) = S \o D
  BY DEF PlanReminders
<1> HIDE DEF S, D
<1> QED
  BY <1>4, <1>5

LEMMA PlanFacts ==
  ASSUME pass \in OnPlan
  PROVE  /\ ReminderKey \in Reminders
         /\ Onward \in Passing /\ Onward.at \in {"users", "plan"}
         /\ \A step \in {"plan", "queue"} \cup Deciding :
              /\ At(step) \in OnPlan /\ At(step).at = step
              /\ At(step).u = pass.u /\ At(step).plan = pass.plan
<1>1. pass.plan \in Seq(Reminder) /\ pass.plan # <<>> /\ Len(pass.plan) \in Nat /\ pass.u \in Person
  BY DEF OnPlan
<1>2. first \in Reminder
  BY <1>1 DEF first
<1>3. ReminderKey \in Reminders
  BY <1>1, <1>2 DEF ReminderKey, Reminders, Reminder
<1>4. ASSUME Len(pass.plan) # 1
      PROVE  Tail(pass.plan) \in Seq(Reminder) \ {<<>>}
  <2> DEFINE rest == Tail(pass.plan)
  <2>1. rest \in Seq(Reminder) /\ Len(rest) = Len(pass.plan) - 1
    BY <1>1, HeadTailProperties
  <2>2. Len(pass.plan) # 0
    BY <1>1, EmptySeq
  <2>3. Len(rest) # 0
    BY <1>1, <1>4, <2>1, <2>2
  <2> HIDE DEF rest
  <2>4. rest # <<>>
    BY <2>3
  <2> QED
    BY <2>1, <2>4 DEF rest
<1>5. Onward \in Passing /\ Onward.at \in {"users", "plan"}
  <2>1. CASE Len(pass.plan) = 1
    BY <2>1 DEF Onward, OnPlan, Passing
  <2>2. CASE Len(pass.plan) # 1
    BY <2>2, <1>4 DEF Onward, OnPlan, Passing
  <2> QED
    BY <2>1, <2>2
<1>6. ASSUME NEW step \in {"plan", "queue"} \cup Deciding
      PROVE  /\ At(step) \in OnPlan /\ At(step).at = step
             /\ At(step).u = pass.u /\ At(step).plan = pass.plan
  BY DEF At, OnPlan, Deciding
<1> QED
  BY <1>3, <1>5, <1>6

(* Where the pass is says what it has in hand.                             *)
LEMMA PassShape ==
  ASSUME pass \in Passing
  PROVE  /\ pass.at \in {"plan", "queue"} \cup Deciding => pass \in OnPlan
         /\ pass.at = "users" => pass \in [at : {"users"}, now : Nat, left : SUBSET Person]
         /\ pass.at = "rules" => pass \in [at : {"rules"}, now : Nat]
         /\ pass.at = "dated" => pass \in [at : {"dated"}, now : Nat, copy : Drafts]
         /\ pass.at = "spool" => pass.jobs \subseteq RuleSlips
BY DEF Passing, NoPass, OnPlan, Deciding

-----------------------------------------------------------------------------
(* The jobs of a handler's event, and those of the clock, are slips of     *)
(* rules without a mark.                                                   *)
LEMMA FireJobs ==
  ASSUME NEW t \in Drafts, NEW R \in SUBSET t.rules
  PROVE  UNION {QueueRule(r, t, CreatedAt) : r \in R} \subseteq RuleSlips \ sent
BY QueueRuleSlips DEF Anchors

LEMMA DatedJobs ==
  ASSUME NEW t \in Drafts, NEW R \in SUBSET t.rules
  PROVE  UNION {QueueRule(r, t, SentAnchor(r, t)) : r \in R} \subseteq RuleSlips \ sent
<1>1. ASSUME NEW r \in R
      PROVE  SentAnchor(r, t) \in Anchors /\ (r.when = "onStart" => SentAnchor(r, t) = CreatedAt)
  BY DEF SentAnchor, Anchors
<1> QED
  BY <1>1, QueueRuleSlips

LEMMA TypeInit == SlipsInit => TypeOK
<1> SUFFICES ASSUME SlipsInit PROVE TypeOK
  OBVIOUS
<1>1. PICK w \in Worker :
        work = [x \in Worker |-> IF x = w THEN [at |-> "print", copy |-> task, trigger |-> "AddedToBoard"]
                                 ELSE NoWork]
  BY DEF SlipsInit
<1>2. task \in Drafts
  BY DEF SlipsInit
<1>3. [at |-> "print", copy |-> task, trigger |-> "AddedToBoard"] \in Handling /\ NoWork \in Handling
  BY <1>2 DEF Handling
<1>4. work \in [Worker -> Handling]
  BY <1>1, <1>3
<1> QED
  BY <1>2, <1>4 DEF SlipsInit, TypeOK, Passing

(* What a step leaves alone keeps its type.                                *)
LEMMA SameTypes ==
  ASSUME TypeOK
  PROVE  /\ UNCHANGED clock => clock' \in Nat
         /\ UNCHANGED rows => task' \in Drafts
         /\ UNCHANGED autoprinted => autoprinted' \subseteq Person
         /\ UNCHANGED sent => sent' \subseteq RuleSlips \cup Reminders
         /\ UNCHANGED pass => pass' \in Passing
         /\ UNCHANGED work => work' \in [Worker -> Handling]
         /\ UNCHANGED papers => handed' \subseteq RuleSlips \cup Reminders \cup AutoSlips
BY DEF TypeOK, rows, papers

LEMMA HandlerTypes ==
  ASSUME TypeOK, NEW w \in Worker, HandlerStep(w)
  PROVE  TypeOK'
<1> USE SameTypes
<1> DEFINE t == work[w].copy
<1>0. work \in [Worker -> Handling] /\ NoWork \in Handling
  BY DEF TypeOK, Handling
<1>1. CASE Fire(w)
  <2> DEFINE when == IF work[w].trigger = "AddedToBoard" THEN "onCreate" ELSE "onStart"
             jobs == UNION {QueueRule(r, t, CreatedAt) :
                              r \in {r \in t.rules : r.when = when /\ r.slip # "sheet"}}
             next == ToSpool(jobs)
  <2>1. t \in Drafts
    BY <1>0, <1>1 DEF Fire, Handling, NoWork
  <2>2. jobs \subseteq RuleSlips \ sent
    BY <2>1, FireJobs
  <2>3. sent' = sent \cup jobs /\ work' = [work EXCEPT ![w] = next]
    BY <1>1 DEF Fire
  <2> HIDE DEF jobs
  <2>4. next \in Handling
    BY <2>2 DEF Handling, ToSpool, NoWork
  <2> HIDE DEF next
  <2>5. work' \in [Worker -> Handling]
    BY <1>0, <2>3, <2>4
  <2>6. sent' \subseteq RuleSlips \cup Reminders
    BY <2>2, <2>3 DEF TypeOK
  <2>7. UNCHANGED <<clock, rows, autoprinted, pass, papers>>
    BY <1>1 DEF Fire
  <2> QED
    BY <2>5, <2>6, <2>7 DEF TypeOK
<1>2. CASE Autoprint(w)
  <2> DEFINE wanting == {u \in (Person \cap Member) \ autoprinted :
                           WantsAutoprint(Prefs[u], work[w].trigger, t, u)}
             jobs == {<<u, <<"autoprint", "task">>, CreatedAt>> : u \in wanting}
             next == ToSpool(jobs)
  <2>1. wanting \subseteq Person
    OBVIOUS
  <2>2. autoprinted' = autoprinted \cup wanting /\ work' = [work EXCEPT ![w] = next]
    BY <1>2 DEF Autoprint
  <2> HIDE DEF wanting
  <2>3. jobs \subseteq AutoSlips
    BY <2>1 DEF AutoSlips, AutoSlip
  <2> HIDE DEF jobs
  <2>4. next \in Handling
    BY <2>3 DEF Handling, ToSpool, NoWork
  <2> HIDE DEF next
  <2>5. work' \in [Worker -> Handling]
    BY <1>0, <2>2, <2>4
  <2>6. autoprinted' \subseteq Person
    BY <2>1, <2>2 DEF TypeOK
  <2>7. UNCHANGED <<clock, rows, sent, pass, papers>>
    BY <1>2 DEF Autoprint
  <2> QED
    BY <2>5, <2>6, <2>7 DEF TypeOK
<1>3. CASE Spool(w)
  <2>1. PICK j \in work[w].jobs :
          Enqueue(j) /\ work' = [work EXCEPT ![w] = ToSpool(work[w].jobs \ {j})]
    BY <1>0, <1>3 DEF Spool
  <2>2. work[w] \in [at : {"spool"}, jobs : SUBSET (RuleSlips \cup AutoSlips)]
    BY <1>0, <1>3 DEF Spool, Handling, NoWork
  <2>3. ToSpool(work[w].jobs \ {j}) \in Handling
    BY <2>2 DEF Handling, ToSpool, NoWork
  <2>4. work' \in [Worker -> Handling]
    BY <1>0, <2>1, <2>3
  <2>5. j \in RuleSlips \cup Reminders \cup AutoSlips
    BY <2>1, <2>2
  <2>6. handed' \subseteq RuleSlips \cup Reminders \cup AutoSlips
    BY <2>1, <2>5, Kinds DEF Enqueue, TypeOK
  <2>7. UNCHANGED <<clock, rows, autoprinted, sent, pass>>
    BY <1>3 DEF Spool
  <2> QED
    BY <2>4, <2>6, <2>7 DEF TypeOK
<1> QED
  BY <1>1, <1>2, <1>3 DEF HandlerStep

LEMMA PassTypes ==
  ASSUME TypeOK, SchedulerStep
  PROVE  TypeOK'
<1> USE SameTypes
<1>0. /\ pass \in Passing /\ clock \in Nat /\ task \in Drafts /\ autoprinted \subseteq Person
      /\ sent \subseteq RuleSlips \cup Reminders
  BY DEF TypeOK
<1> USE PassShape, PlanFacts
<1>1. CASE PassBegins
  <2>1. pass' \in Passing
    BY <1>0, <1>1 DEF PassBegins, Passing
  <2> QED
    BY <1>1, <2>1 DEF PassBegins, TypeOK
<1>2. CASE NextUser
  <2>1. pass \in [at : {"users"}, now : Nat, left : SUBSET Person]
    BY <1>0, <1>2 DEF NextUser
  <2>2. CASE pass.left = {}
    <3>1. pass' \in Passing
      BY <1>2, <2>1, <2>2 DEF NextUser, Passing
    <3> QED
      BY <1>2, <3>1 DEF NextUser, TypeOK
  <2>3. CASE pass.left # {}
    <3> DEFINE u == CHOOSE u \in pass.left : \A v \in pass.left : u <= v
               plan == IF ReminderCandidate(u) /\ u \in Member /\ task.rules = {}
                       THEN PlanReminders(task, Prefs[u]) ELSE <<>>
               rest == [pass EXCEPT !.left = @ \ {u}]
    <3>1. u \in pass.left
      BY <2>1, <2>3, PersonAssumption
    <3>2. u \in Person
      BY <2>1, <3>1
    <3>3. pass' = IF plan = <<>> THEN rest
                  ELSE [at |-> "plan", now |-> pass.now, left |-> rest.left, u |-> u, plan |-> plan]
      BY <1>2, <2>3 DEF NextUser
    <3> HIDE DEF u
    <3>4. plan \in Seq(Reminder)
      BY <1>0, <3>2, Plans, EmptySeq
    <3> HIDE DEF plan
    <3>5. rest \in [at : {"users"}, now : Nat, left : SUBSET Person]
      BY <2>1
    <3>6. pass' \in Passing
      BY <2>1, <3>2, <3>3, <3>4, <3>5 DEF Passing, OnPlan
    <3> QED
      BY <1>2, <3>6 DEF NextUser, TypeOK
  <2> QED
    BY <2>2, <2>3
<1>3. ASSUME NEW step \in {"plan", "queue"} \cup Deciding, pass \in OnPlan
      PROVE  At(step) \in Passing
  BY <1>3 DEF Passing
<1>4. CASE Planned
  <2>1. pass' \in Passing
    BY <1>0, <1>3, <1>4 DEF Planned, Deciding
  <2> QED
    BY <1>4, <2>1 DEF Planned, TypeOK
<1>5. CASE EverStarted
  <2>1. pass' \in Passing
    BY <1>0, <1>3, <1>5 DEF EverStarted, Deciding
  <2> QED
    BY <1>5, <2>1 DEF EverStarted, TypeOK
<1>6. CASE Already
  <2>1. pass' \in Passing
    BY <1>0, <1>3, <1>6 DEF Already, Deciding
  <2> QED
    BY <1>6, <2>1 DEF Already, TypeOK
<1>7. CASE Take
  <2>1. pass' \in Passing /\ pass.u \in Person
    BY <1>0, <1>3, <1>7 DEF Take, Deciding, OnPlan
  <2>2. autoprinted' \subseteq Person
    BY <1>0, <1>7, <2>1 DEF Take
  <2> QED
    BY <1>7, <2>1, <2>2 DEF Take, TypeOK
<1>8. CASE Mark
  <2>1. pass' \in Passing /\ ReminderKey \in Reminders
    BY <1>0, <1>3, <1>8 DEF Mark, Deciding
  <2>2. sent' \subseteq RuleSlips \cup Reminders
    BY <1>0, <1>8, <2>1 DEF Mark
  <2> QED
    BY <1>8, <2>1, <2>2 DEF Mark, TypeOK
<1>9. CASE QueueReminder
  <2>1. pass' \in Passing /\ ReminderKey \in Reminders
    BY <1>0, <1>9 DEF QueueReminder, Deciding
  <2>2. handed' \subseteq RuleSlips \cup Reminders \cup AutoSlips
    BY <1>9, <2>1, Kinds DEF QueueReminder, Enqueue, TypeOK
  <2> QED
    BY <1>9, <2>1, <2>2 DEF QueueReminder, TypeOK
<1>10. CASE DatedRuleTasks
  <2>1. pass' \in Passing
    BY <1>0, <1>10 DEF DatedRuleTasks, Passing
  <2> QED
    BY <1>10, <2>1 DEF DatedRuleTasks, TypeOK
<1>11. CASE PrintDated
  <2> DEFINE t == pass.copy
             R == {r \in PlanRulePrints(t, pass.now) : ~Late(r, t, pass.now)}
             jobs == UNION {QueueRule(r, t, SentAnchor(r, t)) : r \in R}
  <2>1. t \in Drafts
    BY <1>0, <1>11 DEF PrintDated
  <2>2. R \subseteq t.rules
    BY DEF PlanRulePrints
  <2>3. sent' = sent \cup jobs /\ pass' = ToSpool(jobs)
    BY <1>11 DEF PrintDated
  <2> HIDE DEF R
  <2>4. jobs \subseteq RuleSlips
    BY <2>1, <2>2, DatedJobs
  <2> HIDE DEF jobs
  <2>5. pass' \in Passing /\ sent' \subseteq RuleSlips \cup Reminders
    BY <1>0, <2>3, <2>4 DEF Passing, ToSpool, NoPass
  <2> QED
    BY <1>11, <2>5 DEF PrintDated, TypeOK
<1>12. CASE SpoolDated
  <2>1. PICK j \in pass.jobs :
          Enqueue(j) /\ pass' = ToSpool(pass.jobs \ {j})
    BY <1>12 DEF SpoolDated
  <2>2. pass \in [at : {"spool"}, jobs : SUBSET RuleSlips]
    BY <1>0, <1>12 DEF SpoolDated, Passing, NoPass, OnPlan, Deciding
  <2>3. pass' \in Passing
    BY <2>1, <2>2 DEF Passing, ToSpool, NoPass
  <2>4. handed' \subseteq RuleSlips \cup Reminders \cup AutoSlips
    BY <2>1, <2>2, Kinds DEF Enqueue, TypeOK
  <2> QED
    BY <1>12, <2>3, <2>4 DEF SpoolDated, TypeOK
<1> QED
  BY <1>1, <1>2, <1>4, <1>5, <1>6, <1>7, <1>8, <1>9, <1>10, <1>11, <1>12 DEF SchedulerStep

LEMMA TypeStep == TypeOK /\ [SlipsNext]_slipVars => TypeOK'
<1> SUFFICES ASSUME TypeOK, [SlipsNext]_slipVars
             PROVE  TypeOK'
  OBVIOUS
<1> USE SameTypes
<1>1. CASE SchedulerStep
  BY <1>1, PassTypes
<1>2. ASSUME NEW w \in Worker, HandlerStep(w)
      PROVE  TypeOK'
  BY <1>2, HandlerTypes
<1>3. ASSUME NEW w \in Worker, NEW to \in {"todo", "started", "finished"}, Move(w, to)
      PROVE  TypeOK'
  <2>1. [at |-> "print", copy |-> task, trigger |-> "MovedToStarted"] \in Handling
    BY DEF TypeOK, Handling
  <2>2. work' \in [Worker -> Handling]
    BY <1>3, <2>1 DEF Move, TypeOK
  <2> QED
    BY <1>3, <2>2 DEF Move, TypeOK
<1>4. CASE Edit
  BY <1>4 DEF Edit, TypeOK
<1>5. ASSUME NEW u \in Person, PrintTask(u)
      PROVE  TypeOK'
  BY <1>5 DEF PrintTask, TypeOK
<1>6. CASE Tick
  BY <1>6 DEF Tick, TypeOK
<1>7. CASE Crash
  BY <1>7 DEF Crash, TypeOK, Passing, Handling
<1>8. CASE UNCHANGED slipVars
  BY <1>8 DEF slipVars, TypeOK
<1> QED
  BY <1>1, <1>2, <1>3, <1>4, <1>5, <1>6, <1>7, <1>8 DEF SlipsNext

-----------------------------------------------------------------------------
(* A handler decides jobs that have no mark, and marks them in the same    *)
(* lock hold: nobody holds them and they were never queued.                *)
LEMMA NewJobs ==
  ASSUME Remembered, OneHolder, NEW w \in Worker, NEW jobs,
         jobs \cap Marked = {}, jobs \subseteq Marked', Marked \subseteq Marked',
         Held(w)' = jobs, \A v \in Worker \ {w} : Held(v)' = Held(v),
         HeldByPass' = HeldByPass, handed' = handed
  PROVE  Remembered' /\ OneHolder'
<1>1. Remembered'
  BY DEF Remembered
<1>2. jobs \cap handed = {} /\ jobs \cap HeldByPass = {}
  BY DEF Remembered
<1>3. \A v \in Worker \ {w} : Held(v) \cap jobs = {}
  BY DEF Remembered
<1>4. OneHolder'
  BY <1>2, <1>3 DEF OneHolder
<1> QED
  BY <1>1, <1>4

(* The same for the pass.                                                  *)
LEMMA NewPassJobs ==
  ASSUME Remembered, OneHolder, NEW jobs,
         jobs \cap Marked = {}, jobs \subseteq Marked', Marked \subseteq Marked',
         HeldByPass' = jobs, \A v \in Worker : Held(v)' = Held(v), handed' = handed
  PROVE  Remembered' /\ OneHolder'
<1>1. Remembered'
  BY DEF Remembered
<1>2. jobs \cap handed = {} /\ \A v \in Worker : Held(v) \cap jobs = {}
  BY DEF Remembered
<1>3. OneHolder'
  BY <1>2 DEF OneHolder
<1> QED
  BY <1>1, <1>3

(* Whoever queues a job queues one that was not queued before.             *)
LEMMA QueuedOnce ==
  ASSUME HandedOnce, NEW j \in RuleSlips \cup Reminders \cup AutoSlips, j \notin handed, Enqueue(j)
  PROVE  HandedOnce' /\ handed' = handed \cup {j}
BY Kinds DEF HandedOnce, Enqueue

LEMMA HandlerKeeps ==
  ASSUME IInv, NEW w \in Worker, HandlerStep(w)
  PROVE  IInv'
<1> DEFINE t == work[w].copy
<1>0. /\ TypeOK /\ Remembered /\ OneHolder /\ Undecided /\ HandedOnce
      /\ work \in [Worker -> Handling] /\ pass \in Passing
      /\ sent \subseteq RuleSlips \cup Reminders /\ autoprinted \subseteq Person
  BY DEF IInv, TypeOK
<1>a. TypeOK'
  BY <1>0, HandlerTypes
<1>b. pass.at \in Deciding => ReminderKey \in Reminders /\ ReminderKey \notin sent
  BY <1>0, PassShape, PlanFacts DEF Undecided
<1>c. UNCHANGED pass
  BY DEF HandlerStep, Fire, Autoprint, Spool
<1>d. HeldByPass' = HeldByPass /\ ReminderKey' = ReminderKey
  BY <1>c DEF HeldByPass, ReminderKey, first
<1>1. CASE Fire(w)
  <2> DEFINE when == IF work[w].trigger = "AddedToBoard" THEN "onCreate" ELSE "onStart"
             jobs == UNION {QueueRule(r, t, CreatedAt) :
                              r \in {r \in t.rules : r.when = when /\ r.slip # "sheet"}}
  <2>1. t \in Drafts
    BY <1>0, <1>1 DEF Fire, Handling, NoWork
  <2>2. jobs \subseteq RuleSlips \ sent
    BY <2>1, FireJobs
  <2>3. /\ sent' = sent \cup jobs /\ work' = [work EXCEPT ![w] = ToSpool(jobs)]
        /\ UNCHANGED <<autoprinted, papers>>
    BY <1>1 DEF Fire
  <2> HIDE DEF jobs
  <2>4. Held(w)' = jobs /\ \A v \in Worker \ {w} : Held(v)' = Held(v)
    BY <1>0, <2>3 DEF Held, ToSpool
  <2>5. jobs \cap Marked = {}
    BY <2>2, Kinds DEF Marked, Moment
  <2>6. Marked' = Marked \cup jobs
    BY <2>3 DEF Marked
  <2>7. Remembered' /\ OneHolder'
    BY <1>0, <1>d, <2>3, <2>4, <2>5, <2>6, NewJobs DEF papers
  <2>8. Undecided'
    BY <1>b, <1>c, <1>d, <2>2, <2>3, Kinds DEF Undecided, Moment
  <2>9. HandedOnce'
    BY <1>0, <2>3 DEF HandedOnce, papers
  <2> QED
    BY <1>a, <2>7, <2>8, <2>9 DEF IInv
<1>2. CASE Autoprint(w)
  <2> DEFINE wanting == {u \in (Person \cap Member) \ autoprinted :
                           WantsAutoprint(Prefs[u], work[w].trigger, t, u)}
             jobs == {<<u, <<"autoprint", "task">>, CreatedAt>> : u \in wanting}
  <2>1. wanting \subseteq Person \ autoprinted
    OBVIOUS
  <2>2. /\ autoprinted' = autoprinted \cup wanting /\ work' = [work EXCEPT ![w] = ToSpool(jobs)]
        /\ UNCHANGED <<sent, papers>>
    BY <1>2 DEF Autoprint
  <2> HIDE DEF wanting
  <2>3. jobs = {AutoSlip(u) : u \in wanting}
    BY DEF AutoSlip
  <2> HIDE DEF jobs
  <2>4. Held(w)' = jobs /\ \A v \in Worker \ {w} : Held(v)' = Held(v)
    BY <1>0, <2>2 DEF Held, ToSpool
  <2>5. jobs \cap Marked = {}
    BY <1>0, <2>1, <2>3, Kinds DEF Marked, Moment
  <2>6. Marked' = Marked \cup jobs
    BY <2>2, <2>3 DEF Marked
  <2>7. Remembered' /\ OneHolder'
    BY <1>0, <1>d, <2>2, <2>4, <2>5, <2>6, NewJobs DEF papers
  <2>8. Undecided'
    BY <1>0, <1>c, <1>d, <2>2 DEF Undecided
  <2>9. HandedOnce'
    BY <1>0, <2>2 DEF HandedOnce, papers
  <2> QED
    BY <1>a, <2>7, <2>8, <2>9 DEF IInv
<1>3. CASE Spool(w)
  <2>1. PICK j \in work[w].jobs :
          Enqueue(j) /\ work' = [work EXCEPT ![w] = ToSpool(work[w].jobs \ {j})]
    BY <1>0, <1>3 DEF Spool
  <2>2. work[w].at = "spool" /\ work[w].jobs \subseteq RuleSlips \cup AutoSlips
    BY <1>0, <1>3 DEF Spool, Handling, NoWork
  <2>3. j \in Held(w) /\ Held(w)' = Held(w) \ {j} /\ \A v \in Worker \ {w} : Held(v)' = Held(v)
    BY <1>0, <2>1, <2>2 DEF Held, ToSpool
  <2>4. HandedOnce' /\ handed' = handed \cup {j}
    BY <1>0, <2>1, <2>2, <2>3, QueuedOnce DEF OneHolder
  <2>5. Marked' = Marked /\ UNCHANGED sent
    BY <1>3 DEF Spool, Marked
  <2>6. Remembered'
    BY <1>0, <1>d, <2>3, <2>4, <2>5 DEF Remembered
  <2>7. OneHolder'
    BY <1>0, <1>d, <2>3, <2>4 DEF OneHolder
  <2>8. Undecided'
    BY <1>0, <1>c, <1>d, <2>5 DEF Undecided
  <2> QED
    BY <1>a, <2>4, <2>6, <2>7, <2>8 DEF IInv
<1> QED
  BY <1>1, <1>2, <1>3 DEF HandlerStep

(* A step of the pass that queues nothing and marks nothing.               *)
LEMMA PassMoves ==
  ASSUME IInv, TypeOK', HeldByPass = {}, HeldByPass' = {}, UNCHANGED <<sent, work, papers>>,
         Marked \subseteq Marked', Undecided'
  PROVE  IInv'
<1>1. \A w \in Worker : Held(w)' = Held(w)
  BY DEF Held
<1>2. handed' = handed /\ HandedOnce'
  BY DEF papers, IInv, HandedOnce
<1>3. Remembered' /\ OneHolder'
  BY <1>1, <1>2, NewPassJobs DEF IInv
<1> QED
  BY <1>2, <1>3 DEF IInv

LEMMA PassKeeps ==
  ASSUME IInv, SchedulerStep
  PROVE  IInv'
<1>0. /\ TypeOK /\ Remembered /\ OneHolder /\ Undecided /\ HandedOnce
      /\ pass \in Passing /\ autoprinted \subseteq Person
      /\ sent \subseteq RuleSlips \cup Reminders
  BY DEF IInv, TypeOK
<1>a. TypeOK'
  BY <1>0, PassTypes
<1>b. pass \in OnPlan =>
        /\ \A step \in {"plan", "queue"} \cup Deciding :
             pass' = At(step) => ReminderKey' = ReminderKey /\ pass'.at = step
        /\ pass' = Onward => HeldByPass' = {} /\ Undecided'
        /\ ReminderKey \in Reminders
  BY PlanFacts DEF ReminderKey, first, HeldByPass, Undecided, Deciding
<1> USE PassShape
<1>1. CASE PassBegins
  <2>1. HeldByPass = {} /\ HeldByPass' = {} /\ Undecided'
    BY <1>1 DEF PassBegins, HeldByPass, Undecided, NoPass, Deciding
  <2>2. UNCHANGED <<sent, work, papers>> /\ Marked' = Marked
    BY <1>1 DEF PassBegins, Marked
  <2> QED
    BY <1>a, <2>1, <2>2, PassMoves
<1>2. CASE NextUser
  <2>1. pass'.at \in {"users", "rules", "plan"}
    BY <1>0, <1>2 DEF NextUser
  <2>2. HeldByPass = {} /\ HeldByPass' = {} /\ Undecided'
    BY <1>2, <2>1 DEF NextUser, HeldByPass, Undecided, Deciding
  <2>3. UNCHANGED <<sent, work, papers>> /\ Marked' = Marked
    BY <1>2 DEF NextUser, Marked
  <2> QED
    BY <1>a, <2>2, <2>3, PassMoves
<1>3. CASE Planned
  <2>1. pass \in OnPlan /\ UNCHANGED <<autoprinted, sent, work, papers>>
    BY <1>0, <1>3 DEF Planned
  <2>2. CASE pass' = Onward
    BY <1>3, <1>a, <1>b, <2>1, <2>2, PassMoves DEF Planned, HeldByPass, Marked
  <2>3. CASE pass' # Onward
    <3>1. /\ ReminderKey \notin sent
          /\ \E step \in {"started", "already", "mark"} : pass' = At(step)
      BY <1>3, <2>3 DEF Planned
    <3>2. Undecided' /\ HeldByPass = {} /\ HeldByPass' = {}
      BY <1>3, <1>b, <2>1, <3>1 DEF Planned, Undecided, HeldByPass, Deciding
    <3> QED
      BY <1>a, <2>1, <3>2, PassMoves DEF Marked
  <2> QED
    BY <2>2, <2>3
<1>4. CASE EverStarted \/ Already \/ Take
  <2>1. pass \in OnPlan /\ UNCHANGED <<sent, work, papers>> /\ pass.at \in Deciding
    BY <1>0, <1>4 DEF EverStarted, Already, Take, Deciding
  <2>2. ReminderKey \notin sent /\ HeldByPass = {} /\ Marked \subseteq Marked'
    BY <1>0, <1>4, <2>1 DEF Undecided, EverStarted, Already, Take, HeldByPass, Marked
  <2>3. CASE pass' = Onward
    BY <1>a, <1>b, <2>1, <2>2, <2>3, PassMoves
  <2>4. CASE pass' # Onward
    <3>1. \E step \in Deciding : pass' = At(step)
      BY <1>4, <2>4 DEF EverStarted, Already, Take, Deciding
    <3>2. Undecided' /\ HeldByPass' = {}
      BY <1>b, <2>1, <2>2, <3>1 DEF Undecided, HeldByPass, Deciding
    <3> QED
      BY <1>a, <2>1, <2>2, <3>2, PassMoves
  <2> QED
    BY <2>3, <2>4
<1>5. CASE Mark
  <2>1. pass \in OnPlan /\ pass.at \in Deciding /\ pass.at # "queue" /\ pass.at # "spool"
    BY <1>0, <1>5 DEF Mark, Deciding
  <2>2. /\ sent' = sent \cup {ReminderKey} /\ UNCHANGED <<autoprinted, work, papers>>
        /\ pass' = At("queue") \/ pass' = Onward
    BY <1>5 DEF Mark
  <2>3. ReminderKey \in Reminders /\ ReminderKey \notin sent
    BY <1>0, <1>b, <2>1 DEF Undecided
  <2>4. ReminderKey \notin Marked /\ Marked' = Marked \cup {ReminderKey}
    BY <2>2, <2>3, Kinds DEF Marked
  <2>5. /\ HeldByPass' = {} \/ HeldByPass' = {ReminderKey}
        /\ Undecided'
    BY <1>b, <2>1, <2>2 DEF HeldByPass, Undecided, Deciding
  <2>6. \A w \in Worker : Held(w)' = Held(w)
    BY <2>2 DEF Held
  <2>7. handed' = handed /\ HandedOnce'
    BY <1>0, <2>2 DEF papers, HandedOnce
  <2>8. Remembered' /\ OneHolder'
    <3>1. CASE HeldByPass' = {}
      BY <1>0, <2>4, <2>6, <2>7, <3>1, NewPassJobs
    <3>2. CASE HeldByPass' = {ReminderKey}
      BY <1>0, <2>4, <2>6, <2>7, <3>2, NewPassJobs
    <3> QED
      BY <2>5, <3>1, <3>2
  <2> QED
    BY <1>a, <2>5, <2>7, <2>8 DEF IInv
<1>6. CASE QueueReminder
  <2>1. pass \in OnPlan /\ ReminderKey \in Reminders /\ HeldByPass = {ReminderKey}
    BY <1>0, <1>6, <1>b DEF QueueReminder, HeldByPass
  <2>2. HandedOnce' /\ handed' = handed \cup {ReminderKey}
    BY <1>0, <1>6, <2>1, QueuedOnce DEF QueueReminder, OneHolder
  <2>3. HeldByPass' = {} /\ Undecided'
    BY <1>6, <1>b, <2>1 DEF QueueReminder
  <2>4. /\ \A w \in Worker : Held(w)' = Held(w)
        /\ Marked' = Marked
    BY <1>6 DEF QueueReminder, Held, Marked
  <2>5. Remembered'
    BY <1>0, <2>1, <2>2, <2>3, <2>4 DEF Remembered
  <2>6. OneHolder'
    BY <1>0, <2>1, <2>2, <2>3, <2>4 DEF OneHolder
  <2> QED
    BY <1>a, <2>2, <2>3, <2>5, <2>6 DEF IInv
<1>7. CASE DatedRuleTasks
  <2>1. HeldByPass = {} /\ HeldByPass' = {} /\ Undecided'
    BY <1>7 DEF DatedRuleTasks, HeldByPass, Undecided, NoPass, Deciding
  <2>2. UNCHANGED <<sent, work, papers>> /\ Marked' = Marked
    BY <1>7 DEF DatedRuleTasks, Marked
  <2> QED
    BY <1>a, <2>1, <2>2, PassMoves
<1>8. CASE PrintDated
  <2> DEFINE t == pass.copy
             R == {r \in PlanRulePrints(t, pass.now) : ~Late(r, t, pass.now)}
             jobs == UNION {QueueRule(r, t, SentAnchor(r, t)) : r \in R}
  <2>1. t \in Drafts /\ R \subseteq t.rules
    BY <1>0, <1>8 DEF PrintDated, PlanRulePrints
  <2>2. /\ sent' = sent \cup jobs /\ pass' = ToSpool(jobs)
        /\ UNCHANGED <<autoprinted, work, papers>>
    BY <1>8 DEF PrintDated
  <2> HIDE DEF R
  <2>3. jobs \subseteq RuleSlips \ sent
    BY <2>1, DatedJobs
  <2> HIDE DEF jobs
  <2>4. jobs \cap Marked = {} /\ Marked' = Marked \cup jobs
    BY <2>2, <2>3, Kinds DEF Marked, Moment
  <2>5. HeldByPass' = jobs /\ Undecided'
    BY <2>2 DEF HeldByPass, ToSpool, Undecided, Deciding
  <2>6. \A w \in Worker : Held(w)' = Held(w)
    BY <2>2 DEF Held
  <2>7. handed' = handed /\ HandedOnce'
    BY <1>0, <2>2 DEF papers, HandedOnce
  <2>8. Remembered' /\ OneHolder'
    BY <1>0, <2>4, <2>5, <2>6, <2>7, NewPassJobs
  <2> QED
    BY <1>a, <2>5, <2>7, <2>8 DEF IInv
<1>9. CASE SpoolDated
  <2>1. PICK j \in pass.jobs : Enqueue(j) /\ pass' = ToSpool(pass.jobs \ {j})
    BY <1>9 DEF SpoolDated
  <2>2. pass.at = "spool" /\ pass.jobs \subseteq RuleSlips
    BY <1>0, <1>9 DEF SpoolDated
  <2>3. j \in HeldByPass /\ HeldByPass' = HeldByPass \ {j} /\ Undecided'
    BY <2>1, <2>2 DEF HeldByPass, ToSpool, Undecided, Deciding
  <2>4. HandedOnce' /\ handed' = handed \cup {j}
    BY <1>0, <2>1, <2>2, <2>3, QueuedOnce DEF OneHolder
  <2>5. /\ \A w \in Worker : Held(w)' = Held(w)
        /\ Marked' = Marked
    BY <1>9 DEF SpoolDated, Held, Marked
  <2>6. Remembered'
    BY <1>0, <2>3, <2>4, <2>5 DEF Remembered
  <2>7. OneHolder'
    BY <1>0, <2>3, <2>4, <2>5 DEF OneHolder
  <2> QED
    BY <1>a, <2>3, <2>4, <2>6, <2>7 DEF IInv
<1> QED
  BY <1>1, <1>2, <1>3, <1>4, <1>5, <1>6, <1>7, <1>8, <1>9 DEF SchedulerStep

-----------------------------------------------------------------------------
LEMMA InvInit == SlipsInit => IInv
<1> SUFFICES ASSUME SlipsInit PROVE IInv
  OBVIOUS
<1>1. \A w \in Worker : Held(w) = {}
  BY DEF SlipsInit, Held, NoWork
<1>2. HeldByPass = {} /\ Undecided
  BY DEF SlipsInit, HeldByPass, Undecided, NoPass, Deciding
<1> QED
  BY <1>1, <1>2, TypeInit DEF SlipsInit, IInv, Remembered, OneHolder, HandedOnce

LEMMA InvStep == IInv /\ [SlipsNext]_slipVars => IInv'
<1> SUFFICES ASSUME IInv, [SlipsNext]_slipVars
             PROVE  IInv'
  OBVIOUS
<1>0. TypeOK' /\ work \in [Worker -> Handling] /\ HandedOnce
  BY TypeStep DEF IInv, TypeOK
<1>a. ASSUME UNCHANGED <<sent, pass, papers>>, Marked \subseteq Marked',
             \A w \in Worker : Held(w)' = Held(w)
      PROVE  IInv'
  <2>1. HeldByPass' = HeldByPass /\ (Undecided => Undecided') /\ handed' = handed /\ HandedOnce'
    BY <1>0, <1>a DEF HeldByPass, Undecided, ReminderKey, first, papers, HandedOnce
  <2>2. Remembered'
    BY <1>a, <2>1 DEF IInv, Remembered
  <2>3. OneHolder'
    BY <1>a, <2>1 DEF IInv, OneHolder
  <2> QED
    BY <1>0, <2>1, <2>2, <2>3 DEF IInv
<1>1. CASE SchedulerStep
  BY <1>1, PassKeeps
<1>2. ASSUME NEW w \in Worker, HandlerStep(w)
      PROVE  IInv'
  BY <1>2, HandlerKeeps
<1>3. ASSUME NEW w \in Worker, NEW to \in {"todo", "started", "finished"}, Move(w, to)
      PROVE  IInv'
  <2>1. \A v \in Worker : Held(v)' = Held(v)
    BY <1>0, <1>3 DEF Move, Held, NoWork
  <2>2. UNCHANGED <<sent, pass, papers>> /\ Marked' = Marked
    BY <1>3 DEF Move, Marked
  <2> QED
    BY <1>a, <2>1, <2>2
<1>4. CASE Edit
  BY <1>4, <1>a DEF Edit, Held, Marked
<1>5. ASSUME NEW u \in Person, PrintTask(u)
      PROVE  IInv'
  BY <1>5, <1>a DEF PrintTask, Held, Marked
<1>6. CASE Tick
  BY <1>6, <1>a DEF Tick, Held, Marked
<1>7. CASE Crash
  <2>1. \A w \in Worker : Held(w)' = {}
    BY <1>7 DEF Crash, Held, NoWork
  <2>2. HeldByPass' = {} /\ Undecided'
    BY <1>7 DEF Crash, HeldByPass, Undecided, NoPass, Deciding
  <2>3. UNCHANGED <<autoprinted, sent, handed, twice>>
    BY <1>7 DEF Crash
  <2> QED
    BY <1>0, <2>1, <2>2, <2>3 DEF IInv, Remembered, OneHolder, HandedOnce, Marked
<1>8. CASE UNCHANGED slipVars
  BY <1>8, <1>a DEF slipVars, Held, Marked, papers
<1> QED
  BY <1>1, <1>2, <1>3, <1>4, <1>5, <1>6, <1>7, <1>8 DEF SlipsNext

(* Type correctness: every job under way is a slip of a rule of some draft *)
(* or an autoprint, every mark one of a rule or a reminder, and the pass   *)
(* holds a plan whenever it looks at one (print_reminders, slips.rs).      *)
THEOREM TypeCorrect == SlipsSpec => []TypeOK
<1>1. IInv => TypeOK
  BY DEF IInv
<1> QED
  BY <1>1, InvInit, InvStep, PTL DEF SlipsSpec

(* Nobody is queued the same slip of a rule, the same reminder or a second *)
(* autoprint, whatever handlers, the scheduler and a restart do in between *)
(* (slips.rs: "so nobody is handed the same paper twice").                 *)
THEOREM HandedCorrect == SlipsSpec => []HandedOnce
<1>1. IInv => HandedOnce
  BY DEF IInv
<1> QED
  BY <1>1, InvInit, InvStep, PTL DEF SlipsSpec

-----------------------------------------------------------------------------
(* The repetitions.  Types of what the helpers make.                       *)
LEMMA RepetitionsMade ==
  ASSUME spent \subseteq FixedDate
  PROVE  /\ \A rule \in Rule \cup {Absent} : SetRepeat(rule) \in Repetition \cup {Absent}
         /\ \A rule : \A rep \in Repetition \cup {Absent} : AdvanceRepeat(rep, NextFireAfter(rule)) \in Repetition \cup {Absent}
         /\ \A rep \in Repetition \cup {Absent} : AdvanceRepeat(rep, Absent) \in Repetition \cup {Absent}
         /\ \A rule \in Rule : SetRepeat(rule) # Absent /\ SetRepeat(rule).active /\ SetRepeat(rule).rule = rule
<1>1. \A rule : NextFireAfter(rule) \in {"future", Absent}
  BY DEF NextFireAfter
<1>2. \A rule \in Rule : /\ SetRepeat(rule) = [rule |-> rule, active |-> TRUE, next |-> NextFireAfter(rule)]
                         /\ SetRepeat(rule) \in Repetition
  BY <1>1, AbsentAssumption DEF SetRepeat, Repetition
<1>3. \A rule \in Rule : SetRepeat(rule) # Absent /\ SetRepeat(rule).active /\ SetRepeat(rule).rule = rule
  BY <1>2, AbsentAssumption
<1>4. \A rule \in Rule \cup {Absent} : SetRepeat(rule) \in Repetition \cup {Absent}
  BY <1>2 DEF SetRepeat
<1>5. ASSUME NEW rep \in Repetition, NEW next \in {"future", Absent}
      PROVE  AdvanceRepeat(rep, next) \in Repetition \cup {Absent}
  <2>1. rep # Absent
    BY AbsentAssumption
  <2>2. CASE next = Absent
    BY <2>1, <2>2 DEF AdvanceRepeat, Repetition
  <2>3. CASE next = "future" /\ next # Absent
    BY <2>1, <2>3 DEF AdvanceRepeat, Repetition
  <2> QED
    BY <2>2, <2>3
<1>6. \A next : AdvanceRepeat(Absent, next) = Absent
  BY DEF AdvanceRepeat
<1> QED
  BY <1>1, <1>3, <1>4, <1>5, <1>6

(* What is advanced keeps its rule and turns active on nothing.            *)
LEMMA AdvancedKeeps ==
  ASSUME NEW rep \in Repetition, NEW next \in {"future", Absent}
  PROVE  /\ AdvanceRepeat(rep, next) # Absent /\ AdvanceRepeat(rep, next).rule = rep.rule
         /\ AdvanceRepeat(rep, next).active => rep.active
         /\ next # Absent => (AdvanceRepeat(rep, next).active <=> rep.active)
         /\ next = Absent => ~AdvanceRepeat(rep, next).active
<1>1. rep # Absent
  BY AbsentAssumption
<1>2. CASE next = Absent
  <2> DEFINE adv == [rep EXCEPT !.active = FALSE, !.next = Absent]
  <2>1. AdvanceRepeat(rep, next) = adv
    BY <1>1, <1>2 DEF AdvanceRepeat
  <2>2. adv \in Repetition /\ adv.rule = rep.rule /\ adv.active = FALSE
    BY DEF Repetition
  <2> QED
    BY <1>2, <2>1, <2>2, AbsentAssumption
<1>3. CASE next # Absent
  <2> DEFINE adv == [rep EXCEPT !.next = next]
  <2>1. AdvanceRepeat(rep, next) = adv
    BY <1>1, <1>3 DEF AdvanceRepeat
  <2>2. adv \in Repetition /\ adv.rule = rep.rule /\ adv.active = rep.active
    BY DEF Repetition
  <2>3. adv # Absent
    BY <2>2, AbsentAssumption
  <2> QED
    BY <1>3, <2>1, <2>2, <2>3
<1> QED
  BY <1>2, <1>3

-----------------------------------------------------------------------------
(* Rows and repetitions belong to ids that were handed out, and so does    *)
(* what the tick has on its list: an instance that is new to the chain is  *)
(* new to all three, and takes nothing from another.                       *)
Known ==
  /\ \A t \in Instance : Exists(t) \/ repeats[t] # Absent => t \in made
  /\ DOMAIN due \subseteq made

ChainInv == ChainTypes /\ Known

LEMMA Saved ==
  ASSUME NEW r \in TaskRow
  PROVE  /\ Bumped(r) \in TaskRow
         /\ \A b \in BOOLEAN : Bumped([r EXCEPT !.names = b]) \in TaskRow
         /\ \A b \in BOOLEAN : /\ Bumped([r EXCEPT !.done = b]) \in TaskRow
                             /\ Bumped([r EXCEPT !.done = b]).shelf = r.shelf
         /\ \A s \in {"live", "archived", "deleted"} :
              Bumped([r EXCEPT !.shelf = s]) \in TaskRow /\ Bumped([r EXCEPT !.shelf = s]).shelf = s
<1>1. \A q \in TaskRow : Bumped(q) \in TaskRow /\ Bumped(q).shelf = q.shelf
  BY DEF Bumped, TaskRow
<1>2. \A b \in BOOLEAN : [r EXCEPT !.names = b] \in TaskRow
  BY DEF TaskRow
<1>3. \A b \in BOOLEAN : [r EXCEPT !.done = b] \in TaskRow /\ [r EXCEPT !.done = b].shelf = r.shelf
  BY DEF TaskRow
<1>4. \A s \in {"live", "archived", "deleted"} :
        [r EXCEPT !.shelf = s] \in TaskRow /\ [r EXCEPT !.shelf = s].shelf = s
  BY DEF TaskRow
<1> QED
  BY <1>1, <1>2, <1>3, <1>4

(* What a save, a move, a delete, a restore, a stop writes: one row of     *)
(* each table, of a task that is there.                                    *)
LEMMA WriteKeeps ==
  ASSUME ChainInv, NEW w \in Client, open[w] # Absent,
         NEW row \in TaskRow, NEW rep \in Repetition \cup {Absent}, Write(w, row, rep)
  PROVE  ChainInv'
<1>1. open[w] \in Opened /\ open[w].task \in Instance
  BY DEF ChainInv, ChainTypes, Opened
<1>2. store' \in [Instance -> TaskRow \cup {Absent}] /\ repeats' \in [Instance -> Repetition \cup {Absent}]
  BY <1>1 DEF ChainInv, ChainTypes, Write
<1>3. open' \in [Client -> Opened \cup {Absent}]
  BY DEF ChainInv, ChainTypes, Write, Closes
<1>4. Known'
  BY <1>1 DEF ChainInv, ChainTypes, Known, Exists, Write
<1> QED
  BY <1>2, <1>3, <1>4 DEF ChainInv, ChainTypes, Write

(* The saves, one by one: what they write.                                 *)
LEMMA Writes ==
  ASSUME ChainInv, NEW w \in Client,
         Update(w) \/ MoveInstance(w) \/ Delete(w) \/ Restore(w) \/ StopRepeat(w)
  PROVE  \E row \in TaskRow, rep \in Repetition \cup {Absent} :
           /\ open[w] # Absent /\ Write(w, row, rep)
           /\ \/ open[w].op \in {"UpdateTask", "RestoreTask"}
              \/ RepOf(w) # Absent /\ rep # Absent /\ (rep.active => RepOf(w).active)
              \/ rep = Absent
           /\ \/ open[w].op \in {"UpdateTask", "StopRepeat"} /\ (rep = Absent \/ rep.active)
              \/ rep = RepOf(w) /\ row.shelf = RowOf(w).shelf
              \/ RepOf(w) # Absent /\ rep # Absent /\ rep.rule = RepOf(w).rule
                   /\ (rep.active \/ row.shelf = "deleted")
              \/ RepOf(w) = Absent /\ rep = Absent
<1>1. open[w] # Absent /\ open[w].task \in Instance /\ Exists(open[w].task)
  BY DEF ChainInv, ChainTypes, Opened, Update, MoveInstance, Delete, Restore, StopRepeat, Serving
<1>2. RowOf(w) \in TaskRow /\ RepOf(w) \in Repetition \cup {Absent}
  BY <1>1 DEF ChainInv, ChainTypes, Exists, RowOf, RepOf
<1>3. spent \subseteq FixedDate
  BY DEF ChainInv, ChainTypes
<1>4. CASE Update(w)
  <2>1. PICK rule \in Rule \cup {Absent}, names \in Names :
          Write(w, Bumped([RowOf(w) EXCEPT !.names = names]), SetRepeat(rule))
    BY <1>4 DEF Update
  <2>2. SetRepeat(rule) \in Repetition \cup {Absent} /\ (SetRepeat(rule) = Absent \/ SetRepeat(rule).active)
    <3>1. CASE rule \in Rule
      BY <1>3, <3>1, RepetitionsMade
    <3>2. CASE rule = Absent
      BY <3>2 DEF SetRepeat
    <3> QED
      BY <3>1, <3>2
  <2>3. Bumped([RowOf(w) EXCEPT !.names = names]) \in TaskRow
    BY <1>2, Saved, RuleAssumption
  <2> QED
    BY <1>1, <1>4, <2>1, <2>2, <2>3 DEF Update, Serving
<1>5. CASE MoveInstance(w)
  <2>1. PICK done \in BOOLEAN : Write(w, Bumped([RowOf(w) EXCEPT !.done = done]), RepOf(w))
    BY <1>5 DEF MoveInstance
  <2>2. /\ Bumped([RowOf(w) EXCEPT !.done = done]) \in TaskRow
        /\ Bumped([RowOf(w) EXCEPT !.done = done]).shelf = RowOf(w).shelf
    BY <1>2, Saved
  <2> QED
    BY <1>1, <1>2, <2>1, <2>2
<1>6. CASE Delete(w)
  <2> DEFINE rep == IF RepOf(w) = Absent THEN Absent ELSE [RepOf(w) EXCEPT !.active = FALSE]
             row == Bumped([RowOf(w) EXCEPT !.shelf = "deleted"])
  <2>1. Write(w, row, rep)
    BY <1>6 DEF Delete
  <2>2. row \in TaskRow /\ row.shelf = "deleted"
    <3>1. "deleted" \in {"live", "archived", "deleted"}
      OBVIOUS
    <3> QED
      BY <1>2, <3>1, Saved
  <2>3. RepOf(w) # Absent =>
          rep \in Repetition /\ rep.rule = RepOf(w).rule /\ rep.active = FALSE
    BY <1>2 DEF Repetition
  <2> HIDE DEF row
  <2> QED
    BY <1>1, <2>1, <2>2, <2>3, AbsentAssumption
<1>7. CASE Restore(w)
  <2> DEFINE rep == IF RepOf(w) = Absent THEN Absent ELSE SetRepeat(RepOf(w).rule)
             row == Bumped([RowOf(w) EXCEPT !.shelf = "live"])
  <2>1. Write(w, row, rep) /\ open[w].op = "RestoreTask"
    BY <1>7 DEF Restore, Serving
  <2>2. row \in TaskRow
    BY <1>2, Saved
  <2>3. RepOf(w) # Absent => RepOf(w).rule \in Rule
    BY <1>2 DEF Repetition
  <2>4. RepOf(w) # Absent => rep \in Repetition /\ rep # Absent /\ rep.rule = RepOf(w).rule /\ rep.active
    BY <1>3, <2>3, RepetitionsMade
  <2> HIDE DEF row
  <2> QED
    BY <1>1, <2>1, <2>2, <2>4
<1>8. CASE StopRepeat(w)
  <2>1. Write(w, Bumped(RowOf(w)), Absent) /\ open[w].op = "StopRepeat"
    BY <1>8 DEF StopRepeat, Serving
  <2> QED
    BY <1>1, <1>2, <2>1, Saved
<1> QED
  BY <1>4, <1>5, <1>6, <1>7, <1>8

LEMMA ChainInvInit == ChainInit => ChainInv
BY DEF ChainInit, Nothing, ChainInv, ChainTypes, Known, Exists

Saves(w) == Update(w) \/ MoveInstance(w) \/ Delete(w) \/ Restore(w) \/ StopRepeat(w)

LEMMA ChainInvNext == ChainInv /\ [ChainNext]_chainVars => ChainInv'
<1> SUFFICES ASSUME ChainInv, [ChainNext]_chainVars PROVE ChainInv'
  OBVIOUS
<1>0. /\ store \in [Instance -> TaskRow \cup {Absent}] /\ repeats \in [Instance -> Repetition \cup {Absent}]
      /\ made \subseteq Instance /\ open \in [Client -> Opened \cup {Absent}]
      /\ phase \in {"sleep", "fire", "rest"}
      /\ DOMAIN due \subseteq Instance /\ due \in [DOMAIN due -> Hydrated]
      /\ spent \subseteq FixedDate /\ onBoard \in BOOLEAN
      /\ (\A t \in Instance : Exists(t) \/ repeats[t] # Absent => t \in made) /\ DOMAIN due \subseteq made
  BY DEF ChainInv, ChainTypes, Known
<1>h. \A t \in Instance : Exists(t) => Hydrate(t) \in Hydrated
  <2> SUFFICES ASSUME NEW t \in Instance, Exists(t) PROVE Hydrate(t) \in Hydrated
    OBVIOUS
  <2>1. store[t] \in TaskRow
    BY <1>0 DEF Exists
  <2>2. (IF Active(t) THEN repeats[t].rule ELSE Absent) \in Rule \cup {Absent}
    BY <1>0 DEF Active, Repetition
  <2> QED
    BY <2>1, <2>2 DEF Hydrate, Hydrated
<1>1. ASSUME NEW w \in Client, CreateTask(w) PROVE ChainInv'
  <2>1. PICK t \in Instance, rule \in Rule, names \in Names :
          /\ store' = [store EXCEPT ![t] = [done |-> FALSE, shelf |-> "live", names |-> names, version |-> 1]]
          /\ repeats' = [repeats EXCEPT ![t] = SetRepeat(rule)]
          /\ made' = {t}
    BY <1>1 DEF CreateTask
  <2>2. made = {} /\ UNCHANGED <<open, phase, due, spent, onBoard>>
    BY <1>1 DEF CreateTask
  <2>3. [done |-> FALSE, shelf |-> "live", names |-> names, version |-> 1] \in TaskRow
    BY RuleAssumption DEF TaskRow
  <2>4. SetRepeat(rule) \in Repetition \cup {Absent}
    BY <1>0, RepetitionsMade
  <2>5. ChainTypes'
    BY <1>0, <2>1, <2>2, <2>3, <2>4 DEF ChainTypes
  <2>6. Known'
    BY <1>0, <2>1, <2>2 DEF Known, Exists
  <2> QED
    BY <2>5, <2>6 DEF ChainInv
<1>2. ASSUME NEW w \in Client, Open(w) PROVE ChainInv'
  <2>1. PICK t \in Instance, op \in ClientOps :
          Exists(t) /\ open' = [open EXCEPT ![w] = [op |-> op, task |-> t, copy |-> Hydrate(t)]]
    BY <1>2 DEF Open
  <2>2. [op |-> op, task |-> t, copy |-> Hydrate(t)] \in Opened
    BY <1>h, <2>1 DEF Opened
  <2>3. open' \in [Client -> Opened \cup {Absent}]
    BY <1>0, <2>1, <2>2
  <2> QED
    BY <1>0, <1>2, <2>3 DEF Open, ChainInv, ChainTypes, Known, Exists
<1>3. ASSUME NEW w \in Client, Saves(w) PROVE ChainInv'
  <2>1. PICK row \in TaskRow, rep \in Repetition \cup {Absent} :
          open[w] # Absent /\ Write(w, row, rep)
    BY <1>3, Writes DEF Saves
  <2> QED
    BY <2>1, WriteKeeps
<1>4. ASSUME NEW w \in Client, Purge(w) PROVE ChainInv'
  <2>1. open[w] # Absent /\ open[w].task \in Instance
    BY <1>0, <1>4 DEF Purge, Serving, Opened
  <2>2. /\ store' \in [Instance -> TaskRow \cup {Absent}] /\ repeats' \in [Instance -> Repetition \cup {Absent}]
        /\ open' \in [Client -> Opened \cup {Absent}]
    BY <1>0, <1>4, <2>1 DEF Purge, Closes
  <2>3. \A t \in Instance : Exists(t)' \/ repeats'[t] # Absent => t \in made
    BY <1>0, <1>4, <2>1 DEF Purge, Exists
  <2> QED
    BY <1>0, <1>4, <2>2, <2>3 DEF Purge, ChainInv, ChainTypes, Known
<1>5. ASSUME NEW w \in Client, GiveUp(w) PROVE ChainInv'
  BY <1>0, <1>5 DEF GiveUp, Closes, ChainInv, ChainTypes, Known, Exists
<1>6. CASE MemberChanged
  BY <1>0, <1>6 DEF MemberChanged, ChainInv, ChainTypes, Known, Exists
<1>7. CASE ArchiveFinished
  <2>1. PICK t \in Instance :
          Exists(t) /\ store' = [store EXCEPT ![t] = Bumped([store[t] EXCEPT !.shelf = "archived"])]
    BY <1>7 DEF ArchiveFinished
  <2>2. store[t] \in TaskRow /\ "archived" \in {"live", "archived", "deleted"}
    BY <1>0, <2>1 DEF Exists
  <2>3. Bumped([store[t] EXCEPT !.shelf = "archived"]) \in TaskRow
    BY <2>2, Saved
  <2>4. store' \in [Instance -> TaskRow \cup {Absent}]
    BY <1>0, <2>1, <2>3
  <2> QED
    BY <1>0, <1>7, <2>4 DEF ArchiveFinished, ChainInv, ChainTypes, Known, Exists
<1>8. CASE ReadDue
  <2>1. DueRepeats \subseteq made /\ \A t \in DueRepeats : Hydrate(t) \in Hydrated
    BY <1>0, <1>h DEF DueRepeats, Active
  <2>2. due' = Nothing \/ due' = [t \in DueRepeats |-> Hydrate(t)]
    BY <1>8 DEF ReadDue
  <2>3. DOMAIN due' \subseteq made /\ due' \in [DOMAIN due' -> Hydrated]
    BY <2>1, <2>2 DEF Nothing
  <2> QED
    BY <1>0, <1>8, <2>3 DEF ReadDue, ChainInv, ChainTypes, Known, Exists
<1>9. CASE FireRepeats
  <2>1. PICK t \in DOMAIN due : NotDone(t) \/ Spawn(t) \/ SpawnRefused(t)
    BY <1>9 DEF FireRepeats
  <2>2. due' \in {Without(t), Nothing} => DOMAIN due' \subseteq DOMAIN due /\ due' \in [DOMAIN due' -> Hydrated]
    BY <1>0 DEF Without, Nothing
  <2>3. t \in Instance /\ t \in made /\ due[t] \in Hydrated
    BY <1>0
  <2>4. CASE NotDone(t)
    <3>1. repeats' = [repeats EXCEPT ![t] = AdvanceRepeat(repeats[t], NextFireAfter(due[t].rule))]
      BY <2>4 DEF NotDone
    <3>2. AdvanceRepeat(repeats[t], NextFireAfter(due[t].rule)) \in Repetition \cup {Absent}
      BY <1>0, <2>3, RepetitionsMade
    <3>3. repeats' \in [Instance -> Repetition \cup {Absent}]
      BY <1>0, <3>1, <3>2
    <3>4. \A x \in Instance : Exists(x)' \/ repeats'[x] # Absent => x \in made
      BY <1>0, <2>3, <2>4, <3>1 DEF NotDone, Exists
    <3> QED
      BY <1>0, <2>2, <2>4, <3>3, <3>4 DEF NotDone, ChainInv, ChainTypes, Known, Exists
  <2>5. CASE Spawn(t)
    <3>1. PICK n \in Instance \ made :
            /\ store' = [store EXCEPT ![n] = [done |-> FALSE, shelf |-> "live",
                                             names |-> due[t].row.names, version |-> 1]]
            /\ repeats' = [repeats EXCEPT ![n] = SetRepeat(due[t].rule), ![t] = AdvanceRepeat(@, Absent)]
            /\ made' = made \cup {n}
      BY <2>5 DEF Spawn
    <3>2. [done |-> FALSE, shelf |-> "live", names |-> due[t].row.names, version |-> 1] \in TaskRow
      BY <2>3 DEF Hydrated, TaskRow
    <3>3. n # t
      BY <2>3
    <3>4. repeats' = [[repeats EXCEPT ![n] = SetRepeat(due[t].rule)] EXCEPT ![t] = AdvanceRepeat(repeats[t], Absent)]
      BY <1>0, <2>3, <3>1, <3>3
    <3>5. /\ SetRepeat(due[t].rule) \in Repetition \cup {Absent}
          /\ AdvanceRepeat(repeats[t], Absent) \in Repetition \cup {Absent}
      BY <1>0, <2>3, RepetitionsMade DEF Hydrated
    <3>6. repeats' \in [Instance -> Repetition \cup {Absent}] /\ store' \in [Instance -> TaskRow \cup {Absent}]
      BY <1>0, <3>1, <3>2, <3>4, <3>5
    <3>7. \A x \in Instance : Exists(x)' \/ repeats'[x] # Absent => x \in made'
      BY <1>0, <2>3, <3>1, <3>4 DEF Exists
    <3>8. DOMAIN due' \subseteq made' /\ made' \subseteq Instance
      BY <1>0, <2>2, <2>5, <3>1 DEF Spawn
    <3> QED
      BY <1>0, <2>2, <2>5, <3>6, <3>7, <3>8 DEF Spawn, ChainInv, ChainTypes, Known
  <2>6. CASE SpawnRefused(t)
    BY <1>0, <2>2, <2>6 DEF SpawnRefused, ChainInv, ChainTypes, Known, Exists
  <2> QED
    BY <2>1, <2>4, <2>5, <2>6
<1>10. CASE RestOfTick \/ Sleep
  BY <1>0, <1>10 DEF RestOfTick, Sleep, ChainInv, ChainTypes, Known, Exists
<1>11. CASE TimePasses
  <2>1. PICK t \in Instance :
          /\ repeats[t] # Absent /\ repeats' = [repeats EXCEPT ![t].next = "due"]
          /\ spent' = spent \cup ({repeats[t].rule} \cap FixedDate)
    BY <1>11 DEF TimePasses
  <2>2. repeats[t] \in Repetition
    BY <1>0, <2>1
  <2>3. repeats' = [repeats EXCEPT ![t] = [repeats[t] EXCEPT !.next = "due"]]
    BY <2>1
  <2>4. [repeats[t] EXCEPT !.next = "due"] \in Repetition
    BY <2>2 DEF Repetition
  <2>5. repeats' \in [Instance -> Repetition \cup {Absent}] /\ spent' \subseteq FixedDate
    BY <1>0, <2>1, <2>3, <2>4
  <2>6. \A x \in Instance : Exists(x)' \/ repeats'[x] # Absent => x \in made
    BY <1>0, <1>11, <2>1, <2>3 DEF TimePasses, Exists
  <2> QED
    BY <1>0, <1>11, <2>5, <2>6 DEF TimePasses, ChainInv, ChainTypes, Known, Exists
<1>12. CASE UNCHANGED chainVars
  BY <1>0, <1>12 DEF chainVars, ChainInv, ChainTypes, Known, Exists
<1> QED
  BY <1>1, <1>2, <1>3, <1>4, <1>5, <1>6, <1>7, <1>8, <1>9, <1>10, <1>11, <1>12
     DEF ChainNext, Handle, Scheduler, Saves

-----------------------------------------------------------------------------
(* Counting carriers.                                                      *)
LEMMA AtMostOne ==
  ASSUME NEW A \in SUBSET Instance, NEW B \in SUBSET Instance
  PROVE  /\ Cardinality(A) <= 1 /\ B \subseteq A => Cardinality(B) <= 1
         /\ \A x \in A : Cardinality(A) <= 1 => A = {x}
         /\ \A x : B \subseteq {x} => Cardinality(B) <= 1
<1>1. IsFiniteSet(A) /\ IsFiniteSet(B)
  BY InstanceAssumption, FS_Subset
<1>2. Cardinality(A) \in Nat /\ Cardinality(B) \in Nat
  BY <1>1, FS_CardinalityType
<1>3. ASSUME Cardinality(A) <= 1, B \subseteq A PROVE Cardinality(B) <= 1
  <2>1. Cardinality(B) <= Cardinality(A)
    BY <1>1, <1>3, FS_Subset
  <2> QED
    BY <1>2, <1>3, <2>1
<1>4. ASSUME NEW x \in A, Cardinality(A) <= 1 PROVE A = {x}
  <2>1. IsFiniteSet(A \ {x}) /\ Cardinality(A \ {x}) = Cardinality(A) - 1
    BY <1>1, FS_RemoveElement
  <2>2. Cardinality(A \ {x}) \in Nat
    BY <2>1, FS_CardinalityType
  <2>3. Cardinality(A \ {x}) = 0
    BY <1>2, <1>4, <2>1, <2>2
  <2>4. A \ {x} = {}
    BY <2>1, <2>3, FS_EmptySet
  <2> QED
    BY <2>4
<1>5. ASSUME NEW x, B \subseteq {x} PROVE Cardinality(B) <= 1
  <2>1. IsFiniteSet({x}) /\ Cardinality({x}) = 1
    BY FS_Singleton
  <2>2. Cardinality(B) <= Cardinality({x})
    BY <1>5, <2>1, FS_Subset
  <2> QED
    BY <1>2, <2>1, <2>2
<1> QED
  BY <1>3, <1>4, <1>5

(* Who carries after a step carried before it, but for a restore, a save,  *)
(* the task somebody makes and the copy of an instance.                    *)
Handing ==
  OneCarrier => \/ OneCarrier' \/ Outrun
                \/ \E w \in Client : CommitOf(w, {"RestoreTask", "UpdateTask"})

LEMMA NoneMore ==
  ASSUME Carriers' \subseteq Carriers
  PROVE  Handing
<1>1. Carriers \in SUBSET Instance /\ Carriers' \in SUBSET Instance
  BY DEF Carriers
<1>2. OneCarrier => Cardinality(Carriers') <= 1
  BY <1>1, AtMostOne DEF OneCarrier
<1> QED
  BY <1>2 DEF Handing, OneCarrier

LEMMA StepHands == ChainInv /\ [ChainNext]_chainVars => [Handing]_chainVars
<1> SUFFICES ASSUME ChainInv, [ChainNext]_chainVars PROVE Handing
  OBVIOUS
<1>0. /\ repeats \in [Instance -> Repetition \cup {Absent}] /\ spent \subseteq FixedDate
      /\ made \subseteq Instance /\ open \in [Client -> Opened \cup {Absent}]
      /\ due \in [DOMAIN due -> Hydrated]
      /\ (\A t \in Instance : repeats[t] # Absent => t \in made) /\ DOMAIN due \subseteq made
  BY DEF ChainInv, ChainTypes, Known
<1>1. ASSUME NEW w \in Client, CreateTask(w) PROVE Handing
  <2>1. PICK t \in Instance : \E rep : repeats' = [repeats EXCEPT ![t] = rep]
    BY <1>1 DEF CreateTask
  <2>2. \A x \in Instance : repeats[x] = Absent
    BY <1>0, <1>1 DEF CreateTask
  <2>3. Carriers' \subseteq {t} /\ Carriers' \in SUBSET Instance
    BY <1>0, <2>1, <2>2 DEF Carriers, Active
  <2>4. Cardinality(Carriers') <= 1
    BY <2>3, AtMostOne
  <2> QED
    BY <2>4 DEF Handing, OneCarrier
<1>2. CASE UNCHANGED repeats
  BY <1>2, NoneMore DEF Carriers, Active
<1>3. ASSUME NEW w \in Client, Saves(w) PROVE Handing
  <2>1. PICK row \in TaskRow, rep \in Repetition \cup {Absent} :
          /\ open[w] # Absent /\ Write(w, row, rep)
          /\ \/ open[w].op \in {"UpdateTask", "RestoreTask"}
             \/ RepOf(w) # Absent /\ rep # Absent /\ (rep.active => RepOf(w).active)
             \/ rep = Absent
    BY <1>3, Writes DEF Saves
  <2>2. repeats' = [repeats EXCEPT ![open[w].task] = rep] /\ open'[w] = Absent /\ open[w].task \in Instance
    BY <1>0, <2>1 DEF Write, Closes, Opened
  <2>3. CASE open[w].op \in {"UpdateTask", "RestoreTask"}
    BY <1>2, <2>1, <2>2, <2>3 DEF Handing, CommitOf
  <2>4. CASE rep = Absent
    BY <1>0, <2>2, <2>4, NoneMore DEF Carriers, Active
  <2>5. CASE RepOf(w) # Absent /\ rep # Absent /\ (rep.active => RepOf(w).active)
    BY <1>0, <2>2, <2>5, NoneMore DEF Carriers, Active, RepOf
  <2> QED
    BY <2>1, <2>3, <2>4, <2>5
<1>4. ASSUME NEW w \in Client, Purge(w) PROVE Handing
  <2>1. open[w].task \in Instance /\ repeats' = [repeats EXCEPT ![open[w].task] = Absent]
    BY <1>0, <1>4 DEF Purge, Serving, Opened
  <2> QED
    BY <1>0, <2>1, NoneMore DEF Carriers, Active
<1>5. CASE FireRepeats
  <2>1. PICK t \in DOMAIN due : NotDone(t) \/ Spawn(t) \/ SpawnRefused(t)
    BY <1>5 DEF FireRepeats
  <2>2. t \in Instance /\ t \in made
    BY <1>0
  <2>3. CASE NotDone(t)
    <3> DEFINE next == NextFireAfter(due[t].rule)
    <3>1. repeats' = [repeats EXCEPT ![t] = AdvanceRepeat(repeats[t], next)]
      BY <2>3 DEF NotDone
    <3>2. AdvanceRepeat(repeats[t], next) # Absent /\ AdvanceRepeat(repeats[t], next).active => Active(t)
      <4>1. next \in {"future", Absent}
        BY DEF NextFireAfter
      <4>2. CASE repeats[t] = Absent
        BY <4>2 DEF AdvanceRepeat
      <4>3. CASE repeats[t] \in Repetition
        BY <4>1, <4>3, AbsentAssumption, AdvancedKeeps DEF Active
      <4> QED
        BY <1>0, <2>2, <4>2, <4>3
    <3> HIDE DEF next
    <3>3. Carriers' \subseteq Carriers
      BY <1>0, <2>2, <3>1, <3>2 DEF Carriers, Active
    <3> QED
      BY <3>3, NoneMore
  <2>4. CASE Spawn(t)
    <3>1. PICK n \in Instance \ made :
            /\ repeats' = [repeats EXCEPT ![n] = SetRepeat(due[t].rule), ![t] = AdvanceRepeat(@, Absent)]
            /\ made' = made \cup {n}
      BY <2>4 DEF Spawn
    <3>2. t \in DOMAIN due \ DOMAIN due' /\ made' # made
      BY <2>4, <3>1 DEF Spawn, Without
    <3>3. CASE ~Active(t)
      BY <3>2, <3>3 DEF Handing, Outrun
    <3>4. CASE Active(t) /\ OneCarrier
      <4>1. Carriers \in SUBSET Instance /\ t \in Carriers
        BY <2>2, <3>4 DEF Carriers
      <4>2. Carriers = {t}
        BY <3>4, <4>1, AtMostOne DEF OneCarrier
      <4>3. n # t /\ repeats' = [[repeats EXCEPT ![n] = SetRepeat(due[t].rule)] EXCEPT ![t] = AdvanceRepeat(repeats[t], Absent)]
        BY <1>0, <2>2, <3>1
      <4>4. repeats[t] \in Repetition
        BY <1>0, <2>2, <3>4 DEF Active
      <4>5. ~AdvanceRepeat(repeats[t], Absent).active
        BY <4>4, AdvancedKeeps
      <4>6. ~Active(t)' /\ \A x \in Instance \ {n, t} : Active(x)' => Active(x)
        BY <1>0, <2>2, <4>3, <4>5 DEF Active
      <4>7. Carriers' \subseteq {n} /\ Carriers' \in SUBSET Instance
        BY <4>2, <4>6 DEF Carriers
      <4>8. Cardinality(Carriers') <= 1
        BY <4>7, AtMostOne
      <4> QED
        BY <4>8 DEF Handing, OneCarrier
    <3> QED
      BY <3>3, <3>4 DEF Handing
  <2>5. CASE SpawnRefused(t)
    BY <1>2, <2>5 DEF SpawnRefused
  <2> QED
    BY <2>1, <2>3, <2>4, <2>5
<1>6. CASE TimePasses
  <2>1. PICK t \in Instance : repeats[t] # Absent /\ repeats' = [repeats EXCEPT ![t].next = "due"]
    BY <1>6 DEF TimePasses
  <2>2. repeats' = [repeats EXCEPT ![t] = [repeats[t] EXCEPT !.next = "due"]]
    BY <2>1
  <2>3. [repeats[t] EXCEPT !.next = "due"].active = repeats[t].active
    BY <1>0, <2>1 DEF Repetition
  <2> QED
    BY <1>0, <2>1, <2>2, <2>3, NoneMore DEF Carriers, Active
<1>7. ASSUME NEW w \in Client, Open(w) \/ GiveUp(w) PROVE Handing
  BY <1>2, <1>7 DEF Open, GiveUp
<1>8. CASE MemberChanged \/ ArchiveFinished \/ ReadDue \/ RestOfTick \/ Sleep \/ UNCHANGED chainVars
  BY <1>2, <1>8 DEF MemberChanged, ArchiveFinished, ReadDue, RestOfTick, Sleep, chainVars
<1> QED
  BY <1>1, <1>3, <1>4, <1>5, <1>6, <1>7, <1>8 DEF ChainNext, Handle, Scheduler, Saves

-----------------------------------------------------------------------------
(* A task that carries the chain, or has it paused by a delete.            *)
Carries(t) ==
  /\ t \in made /\ Exists(t) /\ repeats[t] # Absent /\ repeats[t].rule \notin FixedDate
  /\ Active(t) \/ store[t].shelf = "deleted"

Surviving ==
  Carried => \/ Carried' \/ Replaced
             \/ \E w \in Client : CommitOf(w, {"StopRepeat", "UpdateTask", "PurgeTask"})

LEMMA StepSurvives == ChainInv /\ [ChainNext]_chainVars => [Surviving]_chainVars
<1> SUFFICES ASSUME ChainInv, [ChainNext]_chainVars, Carried, ~Replaced,
                    ~\E w \in Client : CommitOf(w, {"StopRepeat", "UpdateTask", "PurgeTask"})
             PROVE  Carried'
  BY DEF Surviving
<1>0. /\ store \in [Instance -> TaskRow \cup {Absent}] /\ repeats \in [Instance -> Repetition \cup {Absent}]
      /\ made \subseteq Instance /\ open \in [Client -> Opened \cup {Absent}]
      /\ due \in [DOMAIN due -> Hydrated] /\ spent \subseteq FixedDate
      /\ DOMAIN due \subseteq made
  BY DEF ChainInv, ChainTypes, Known
<1>p. PICK s \in made : Carries(s)
  BY DEF Carried, Carries
<1>s. /\ s \in Instance /\ store[s] \in TaskRow /\ repeats[s] \in Repetition
      /\ repeats[s] # Absent /\ repeats[s].rule \notin FixedDate
      /\ repeats[s].active \/ store[s].shelf = "deleted"
  BY <1>0, <1>p DEF Carries, Exists, Active
<1>c. ASSUME s \in made', store'[s] # Absent, repeats'[s] # Absent, repeats'[s].rule = repeats[s].rule,
             repeats'[s].active \/ store'[s].shelf = "deleted"
      PROVE  Carried'
  BY <1>s, <1>c DEF Carried, Exists, Active
<1>1. ASSUME NEW w \in Client, CreateTask(w) PROVE Carried'
  BY <1>1, <1>p DEF CreateTask
<1>2. CASE store'[s] = store[s] /\ repeats'[s] = repeats[s] /\ s \in made'
  BY <1>2, <1>c, <1>s, AbsentAssumption
<1>3. ASSUME NEW w \in Client, Saves(w) PROVE Carried'
  <2>1. PICK row \in TaskRow, rep \in Repetition \cup {Absent} :
          /\ open[w] # Absent /\ Write(w, row, rep)
          /\ \/ open[w].op \in {"UpdateTask", "StopRepeat"} /\ (rep = Absent \/ rep.active)
             \/ rep = RepOf(w) /\ row.shelf = RowOf(w).shelf
             \/ RepOf(w) # Absent /\ rep # Absent /\ rep.rule = RepOf(w).rule
                  /\ (rep.active \/ row.shelf = "deleted")
             \/ RepOf(w) = Absent /\ rep = Absent
    BY <1>3, Writes DEF Saves
  <2>2. /\ store' = [store EXCEPT ![open[w].task] = row] /\ repeats' = [repeats EXCEPT ![open[w].task] = rep]
        /\ open' = [open EXCEPT ![w] = Absent] /\ made' = made /\ open[w].task \in Instance
    BY <1>0, <2>1 DEF Write, Closes, Opened
  <2>3. CASE open[w].task # s
    BY <1>0, <1>2, <1>s, <1>p, <2>2, <2>3
  <2>4. CASE open[w].task = s
    <3>1. store'[s] = row /\ repeats'[s] = rep /\ RepOf(w) = repeats[s] /\ RowOf(w) = store[s]
      BY <1>0, <1>s, <2>2, <2>4 DEF RepOf, RowOf
    <3>2. CASE open[w].op \in {"UpdateTask", "StopRepeat"} /\ repeats' # repeats
      <4>1. open'[w] = Absent
        BY <1>0, <2>2
      <4>2. CommitOf(w, {"StopRepeat", "UpdateTask", "PurgeTask"})
        BY <2>1, <3>2, <4>1 DEF CommitOf
      <4> QED
        BY <4>2
    <3>3. CASE /\ open[w].op \in {"UpdateTask", "StopRepeat"} /\ (rep = Absent \/ rep.active)
               /\ repeats' = repeats
      <4>1. rep = repeats[s] /\ repeats[s].active
        BY <1>s, <3>1, <3>3
      <4> QED
        BY <1>c, <1>p, <1>s, <2>2, <3>1, <4>1, AbsentAssumption
    <3>4. CASE rep = RepOf(w) /\ row.shelf = RowOf(w).shelf
      BY <1>c, <1>p, <1>s, <2>2, <3>1, <3>4, AbsentAssumption
    <3>5. CASE RepOf(w) # Absent /\ rep # Absent /\ rep.rule = RepOf(w).rule /\ (rep.active \/ row.shelf = "deleted")
      BY <1>c, <1>p, <1>s, <2>2, <3>1, <3>5, AbsentAssumption
    <3> QED
      BY <1>s, <2>1, <3>1, <3>2, <3>3, <3>4, <3>5
  <2> QED
    BY <2>3, <2>4
<1>4. ASSUME NEW w \in Client, Purge(w) PROVE Carried'
  <2>1. /\ open[w] # Absent /\ open[w].task \in Instance /\ open[w].op = "PurgeTask"
        /\ store' = [store EXCEPT ![open[w].task] = Absent] /\ repeats' = [repeats EXCEPT ![open[w].task] = Absent]
        /\ open'[w] = Absent /\ made' = made
    BY <1>0, <1>4 DEF Purge, Serving, Opened, Closes
  <2>2. CASE open[w].task # s
    BY <1>0, <1>2, <1>s, <1>p, <2>1, <2>2
  <2>3. CASE open[w].task = s
    <3>1. repeats' # repeats
      BY <1>0, <1>s, <2>1, <2>3
    <3> QED
      BY <2>1, <3>1 DEF CommitOf
  <2> QED
    BY <2>2, <2>3
<1>5. CASE FireRepeats
  <2>1. PICK t \in DOMAIN due : NotDone(t) \/ Spawn(t) \/ SpawnRefused(t)
    BY <1>5 DEF FireRepeats
  <2>2. t \in Instance /\ t \in made /\ due[t] \in Hydrated
    BY <1>0
  <2>3. t \notin DOMAIN due' /\ t = s => due[t].rule = repeats[s].rule
    BY <1>s, <2>2 DEF Replaced
  <2>4. CASE NotDone(t)
    <3> DEFINE next == NextFireAfter(due[t].rule)
    <3>1. /\ repeats' = [repeats EXCEPT ![t] = AdvanceRepeat(repeats[t], next)]
          /\ store' = store /\ made' = made /\ t \notin DOMAIN due'
      BY <2>4 DEF NotDone, Without
    <3>2. CASE t # s
      BY <1>0, <1>2, <1>s, <1>p, <3>1, <3>2
    <3>3. CASE t = s
      <4>1. due[t].rule \notin spent
        BY <1>0, <1>s, <2>3, <3>1, <3>3
      <4>2. next = "future"
        BY <4>1 DEF NextFireAfter
      <4>3. repeats'[s] = AdvanceRepeat(repeats[s], "future")
        BY <1>0, <1>s, <3>1, <3>3, <4>2
      <4> HIDE DEF next
      <4>4. CASE "future" # Absent
        <5>1. repeats'[s] # Absent /\ repeats'[s].rule = repeats[s].rule /\ (repeats'[s].active <=> repeats[s].active)
          BY <1>s, <4>3, <4>4, AdvancedKeeps
        <5> QED
          BY <1>c, <1>p, <1>s, <3>1, <5>1, AbsentAssumption
      <4>5. CASE "future" = Absent
        BY <4>5, AbsentAssumption
      <4> QED
        BY <4>4, <4>5
    <3> QED
      BY <3>2, <3>3
  <2>5. CASE Spawn(t)
    <3>1. PICK n \in Instance \ made :
            /\ store' = [store EXCEPT ![n] = [done |-> FALSE, shelf |-> "live",
                                             names |-> due[t].row.names, version |-> 1]]
            /\ repeats' = [repeats EXCEPT ![n] = SetRepeat(due[t].rule), ![t] = AdvanceRepeat(@, Absent)]
            /\ made' = made \cup {n}
      BY <2>5 DEF Spawn
    <3>2. n # t /\ n # s /\ t \notin DOMAIN due'
      BY <1>p, <2>2, <2>5 DEF Spawn, Without
    <3>3. repeats' = [[repeats EXCEPT ![n] = SetRepeat(due[t].rule)] EXCEPT ![t] = AdvanceRepeat(repeats[t], Absent)]
      BY <1>0, <2>2, <3>1, <3>2
    <3>4. CASE t # s
      BY <1>0, <1>2, <1>s, <1>p, <3>1, <3>2, <3>3, <3>4
    <3>5. CASE t = s
      <4>1. due[t].rule \in Rule /\ due[t].rule \notin FixedDate
        BY <1>s, <2>3, <3>2, <3>5 DEF Repetition
      <4>2. repeats'[n] = SetRepeat(due[t].rule)
        BY <1>0, <2>2, <3>2, <3>3
      <4>3. repeats'[n] # Absent /\ repeats'[n].active /\ repeats'[n].rule = due[t].rule
        BY <1>0, <4>1, <4>2, RepetitionsMade
      <4>4. [done |-> FALSE, shelf |-> "live", names |-> due[t].row.names, version |-> 1] \in TaskRow
        BY <2>2 DEF Hydrated, TaskRow
      <4>5. store'[n] # Absent
        BY <1>0, <3>1, <4>4, AbsentAssumption
      <4> QED
        BY <3>1, <4>1, <4>3, <4>5 DEF Carried, Exists, Active
    <3> QED
      BY <3>4, <3>5
  <2>6. CASE SpawnRefused(t)
    BY <1>2, <1>p, <2>6 DEF SpawnRefused
  <2> QED
    BY <2>1, <2>4, <2>5, <2>6
<1>6. CASE TimePasses
  <2>1. PICK t \in Instance : repeats[t] # Absent /\ repeats' = [repeats EXCEPT ![t].next = "due"]
    BY <1>6 DEF TimePasses
  <2>2. repeats' = [repeats EXCEPT ![t] = [repeats[t] EXCEPT !.next = "due"]]
    BY <2>1
  <2>3. /\ [repeats[t] EXCEPT !.next = "due"].active = repeats[t].active
        /\ [repeats[t] EXCEPT !.next = "due"].rule = repeats[t].rule
        /\ [repeats[t] EXCEPT !.next = "due"] \in Repetition
    BY <1>0, <2>1 DEF Repetition
  <2>4. /\ repeats'[s] # Absent /\ repeats'[s].rule = repeats[s].rule
        /\ repeats'[s].active = repeats[s].active
    BY <1>0, <1>s, <2>2, <2>3, AbsentAssumption
  <2> QED
    BY <1>6, <1>c, <1>p, <1>s, <2>4, AbsentAssumption DEF TimePasses
<1>7. CASE ArchiveFinished
  <2>1. PICK t \in Instance :
          /\ Exists(t) /\ store[t].shelf = "live"
          /\ store' = [store EXCEPT ![t] = Bumped([store[t] EXCEPT !.shelf = "archived"])]
    BY <1>7 DEF ArchiveFinished
  <2>2. UNCHANGED <<repeats, made>>
    BY <1>7 DEF ArchiveFinished
  <2>3. CASE t # s
    BY <1>0, <1>2, <1>s, <1>p, <2>1, <2>2, <2>3
  <2>4. CASE t = s
    <3>1. repeats[s].active
      BY <1>s, <2>1, <2>4
    <3>2. "archived" \in {"live", "archived", "deleted"}
      OBVIOUS
    <3>3. Bumped([store[s] EXCEPT !.shelf = "archived"]) \in TaskRow
      BY <1>s, <3>2, Saved
    <3>4. store'[s] \in TaskRow
      BY <1>0, <1>s, <2>1, <2>4, <3>3
    <3> QED
      BY <1>c, <1>p, <1>s, <2>2, <3>1, <3>4, AbsentAssumption
  <2> QED
    BY <2>3, <2>4
<1>8. ASSUME NEW w \in Client, Open(w) \/ GiveUp(w) PROVE Carried'
  BY <1>2, <1>p, <1>8 DEF Open, GiveUp
<1>9. CASE MemberChanged \/ ReadDue \/ RestOfTick \/ Sleep \/ UNCHANGED chainVars
  BY <1>2, <1>p, <1>9 DEF MemberChanged, ReadDue, RestOfTick, Sleep, chainVars
<1> QED
  BY <1>1, <1>3, <1>4, <1>5, <1>6, <1>7, <1>8, <1>9 DEF ChainNext, Handle, Scheduler, Saves

-----------------------------------------------------------------------------
(* Type correctness of the chain: rows, repetitions, what editors hold and *)
(* what the tick has on its list (repo.rs, fire_repeats).                  *)
THEOREM ChainTypeCorrect == ChainSpec => []ChainTypes
<1>1. ChainInv => ChainTypes
  BY DEF ChainInv
<1> QED
  BY <1>1, ChainInvInit, ChainInvNext, PTL DEF ChainSpec

(* "the old instance stops repeating, the new one carries it": handing a   *)
(* repetition on makes no second carrier, whatever is moved, archived,     *)
(* deleted, stopped or purged meanwhile (fire_repeats).                    *)
THEOREM HandedOnCorrect == ChainSpec => HandedOnToOne
<1>1. ChainInv /\ [ChainNext]_chainVars => [Handing]_chainVars
  BY StepHands
<1> QED
  BY <1>1, ChainInvInit, ChainInvNext, PTL DEF ChainSpec, HandedOnToOne, Handing

(* A repetition that fires again and again survives every step but a stop, *)
(* a save and a purge, and the tick that advances a rule replaced since it *)
(* read its list (fire_repeats, soft_delete_task, restore_task).           *)
THEOREM SurvivesCorrect == ChainSpec => ChainSurvives
<1>1. ChainInv /\ [ChainNext]_chainVars => [Surviving]_chainVars
  BY StepSurvives
<1> QED
  BY <1>1, ChainInvInit, ChainInvNext, PTL DEF ChainSpec, ChainSurvives, Surviving
=============================================================================
