------------------------------ MODULE Repeats -------------------------------
(***************************************************************************)
(* Repeating tasks: one chain of instances, from the task somebody made    *)
(* with a repetition through the copies the scheduler makes of it          *)
(* (fire_repeats in crates/taskologicd/src/scheduler.rs, the repeats table *)
(* in db/repo.rs, the handlers that touch it).                             *)
(*                                                                         *)
(* As in TaskStore a handler loads its task in one lock hold and commits   *)
(* in another, and the scheduler works through a list it read earlier.     *)
(* Here a client's editor is a third copy: what it saves is what it was    *)
(* opened with, guarded by the version.  A task is open or done, and live, *)
(* archived or deleted; its repetition is a row of its own.  The moments a *)
(* rule fires at are RepeatRule's business: here the next one is still to  *)
(* come, has come, or is not there any more.                               *)
(***************************************************************************)
EXTENDS Naturals, FiniteSets

CONSTANTS
  Instance, Client,
  Rule,         \* repetitions a draft may carry
  FixedDate,    \* those of them that fire once
  Names,        \* may a print rule name a person: a subset of BOOLEAN
  ClientOps,    \* what clients send
  MaxSaved,     \* bound: clients load no row whose version is this high
  Absent

VARIABLES
  store,     \* the tasks table
  repeats,   \* the repeats table
  made,      \* ids handed out
  open,      \* per client: an open editor or a request in progress
  phase,     \* where the scheduler's tick is
  due,       \* what is left of the list fire_repeats read
  spent,     \* fixed dates that are past
  onBoard    \* the person the print rules name belongs to the board

chainVars == <<store, repeats, made, open, phase, due, spent, onBoard>>

TaskRow == [done : BOOLEAN, shelf : {"live", "archived", "deleted"},
            names : BOOLEAN, version : Nat]
Repetition == [rule : Rule, active : BOOLEAN, next : {"future", "due", Absent}]

\* A hydrated task: the repetition shows only while it is active.
Hydrated == [row : TaskRow, rule : Rule \cup {Absent}]
Opened == [op : ClientOps, task : Instance, copy : Hydrated]

\* There are finitely many ids; a row that is missing is none, nor is a rule.
ASSUME InstanceAssumption == IsFiniteSet(Instance)
ASSUME RuleAssumption == FixedDate \subseteq Rule /\ Names \subseteq BOOLEAN
ASSUME AbsentAssumption ==
  Absent \notin Rule /\ Absent \notin TaskRow /\ Absent \notin Repetition /\ Absent # "future"

ChainTypes ==
  /\ store \in [Instance -> TaskRow \cup {Absent}]
  /\ repeats \in [Instance -> Repetition \cup {Absent}]
  /\ made \subseteq Instance
  /\ open \in [Client -> Opened \cup {Absent}]
  /\ phase \in {"sleep", "fire", "rest"}
  /\ DOMAIN due \subseteq Instance /\ due \in [DOMAIN due -> Hydrated]
  /\ spent \subseteq FixedDate
  /\ onBoard \in BOOLEAN

Nothing == [t \in {} |-> Absent]

ChainInit ==
  /\ store = [t \in Instance |-> Absent]
  /\ repeats = [t \in Instance |-> Absent]
  /\ made = {}
  /\ open = [w \in Client |-> Absent]
  /\ phase = "sleep" /\ due = Nothing
  /\ spent = {}
  /\ onBoard = TRUE

Exists(t) == store[t] # Absent
Active(t) == repeats[t] # Absent /\ repeats[t].active
IsFinished(r) == r.done \/ r.shelf # "live"
Hydrate(t) == [row |-> store[t], rule |-> IF Active(t) THEN repeats[t].rule ELSE Absent]

NextFireAfter(rule) == IF rule \in spent THEN Absent ELSE "future"

\* Faulty variant: a draft without a repetition still gets a row.
SetRepeatAnyway(rule) == [rule |-> rule, active |-> TRUE, next |-> NextFireAfter(rule)]

SetRepeat(rule) ==
  IF rule = Absent THEN Absent
  ELSE [rule |-> rule, active |-> TRUE, next |-> NextFireAfter(rule)]

\* Faulty variant: an instance that is not finished gives the chain up.
AdvanceRepeatAlways(rep, next) ==
  IF rep = Absent THEN Absent ELSE [rep EXCEPT !.active = FALSE, !.next = Absent]

\* Faulty variant: the old instance goes on repeating.
AdvanceRepeatKeeps(rep, next) ==
  IF rep = Absent THEN Absent ELSE [rep EXCEPT !.next = "future"]

\* An UPDATE of a row that may not be there.
AdvanceRepeat(rep, next) ==
  IF rep = Absent THEN Absent
  ELSE IF next = Absent THEN [rep EXCEPT !.active = FALSE, !.next = Absent]
  ELSE [rep EXCEPT !.next = next]

\* validate_draft: the named recipient has to be on the board.
ValidDraft(names) == names => onBoard

-----------------------------------------------------------------------------
(* The handlers.                                                           *)

Bumped(r) == [r EXCEPT !.version = @ + 1]

\* One chain is watched: its first task is made once.
CreateTask(w) ==
  /\ open[w] = Absent /\ made = {}
  /\ \E t \in Instance, rule \in Rule, names \in Names :
       /\ ValidDraft(names)
       /\ store' = [store EXCEPT ![t] = [done |-> FALSE, shelf |-> "live",
                                         names |-> names, version |-> 1]]
       /\ repeats' = [repeats EXCEPT ![t] = SetRepeat(rule)]
       /\ made' = {t}
  /\ UNCHANGED <<open, phase, due, spent, onBoard>>

Permits(op, copy) ==
  CASE op = "MoveTask"    -> copy.row.shelf = "live"
    [] op = "DeleteTask"  -> copy.row.shelf = "live"
    [] op = "RestoreTask" -> copy.row.shelf # "live"
    [] op = "PurgeTask"   -> copy.row.shelf # "live"
    [] op = "StopRepeat"  -> copy.rule # Absent
    [] OTHER              -> TRUE

\* A handler loads its task, or an editor is opened on it ("UpdateTask").
Open(w) ==
  /\ open[w] = Absent
  /\ \E t \in Instance, op \in ClientOps :
       /\ Exists(t) /\ store[t].version < MaxSaved
       /\ Permits(op, Hydrate(t))
       /\ open' = [open EXCEPT ![w] = [op |-> op, task |-> t, copy |-> Hydrate(t)]]
  /\ UNCHANGED <<store, repeats, made, phase, due, spent, onBoard>>

Serving(w, op) == open[w] # Absent /\ open[w].op = op

Closes(w) == open' = [open EXCEPT ![w] = Absent]

Write(w, row, rep) ==
  /\ Exists(open[w].task)
  /\ store' = [store EXCEPT ![open[w].task] = row]
  /\ repeats' = [repeats EXCEPT ![open[w].task] = rep]
  /\ Closes(w)
  /\ UNCHANGED <<made, phase, due, spent, onBoard>>

RowOf(w) == store[open[w].task]
RepOf(w) == repeats[open[w].task]

\* The person leaves the repetition as the editor showed it (open[w].copy.rule,
\* which may be long gone), or takes another one or none.  The whole save is one
\* action: TaskStore has its load and its commit apart.
Update(w) ==
  /\ Serving(w, "UpdateTask")
  /\ Exists(open[w].task) /\ RowOf(w).version = open[w].copy.row.version
  /\ \E rule \in Rule \cup {Absent}, names \in Names :
       /\ ValidDraft(names)
       /\ Write(w, Bumped([RowOf(w) EXCEPT !.names = names]), SetRepeat(rule))

MoveInstance(w) ==
  /\ Serving(w, "MoveTask")
  /\ \E done \in BOOLEAN : Exists(open[w].task)
       /\ Write(w, Bumped([RowOf(w) EXCEPT !.done = done]), RepOf(w))

Delete(w) ==
  /\ Serving(w, "DeleteTask")
  /\ Exists(open[w].task)
  /\ Write(w, Bumped([RowOf(w) EXCEPT !.shelf = "deleted"]),
           IF RepOf(w) = Absent THEN Absent ELSE [RepOf(w) EXCEPT !.active = FALSE])

\* "A repeat paused by a delete picks up again from now."  Any row does.
Restore(w) ==
  /\ Serving(w, "RestoreTask")
  /\ Exists(open[w].task)
  /\ Write(w, Bumped([RowOf(w) EXCEPT !.shelf = "live"]),
           IF RepOf(w) = Absent THEN Absent ELSE SetRepeat(RepOf(w).rule))

StopRepeat(w) ==
  /\ Serving(w, "StopRepeat")
  /\ Exists(open[w].task)
  /\ Write(w, Bumped(RowOf(w)), Absent)

Purge(w) ==
  /\ Serving(w, "PurgeTask")
  /\ store' = [store EXCEPT ![open[w].task] = Absent]
  /\ repeats' = [repeats EXCEPT ![open[w].task] = Absent]
  /\ Closes(w)
  /\ UNCHANGED <<made, phase, due, spent, onBoard>>

\* The row is gone, the version is not the editor's, the draft is refused,
\* or the editor is closed.
GiveUp(w) ==
  /\ open[w] # Absent
  /\ open[w].op = "UpdateTask" \/ ~ Exists(open[w].task)
  /\ Closes(w)
  /\ UNCHANGED <<store, repeats, made, phase, due, spent, onBoard>>

\* RemoveMember, AddMember: nothing looks at the print rules.
MemberChanged ==
  /\ TRUE \in Names
  /\ onBoard' = ~ onBoard
  /\ UNCHANGED <<store, repeats, made, open, phase, due, spent>>

-----------------------------------------------------------------------------
(* The scheduler's tick, from fire_repeats on.                             *)

\* archive_finished, which comes first in the tick.
ArchiveFinished ==
  /\ phase = "sleep"
  /\ \E t \in Instance :
       /\ Exists(t) /\ store[t].done /\ store[t].shelf = "live"
       /\ store' = [store EXCEPT ![t] = Bumped([@ EXCEPT !.shelf = "archived"])]
  /\ UNCHANGED <<repeats, made, open, phase, due, spent, onBoard>>

\* Faulty variant: an instance already archived is not looked at.
DueRepeatsLive == {t \in Instance : /\ Exists(t) /\ Active(t) /\ repeats[t].next = "due"
                                /\ store[t].shelf = "live"}

DueRepeats == {t \in Instance : Exists(t) /\ Active(t) /\ repeats[t].next = "due"}

\* Bound: when fewer ids are left than the list may need, it is taken empty.
IdsShort == Cardinality(DueRepeats) > Cardinality(Instance \ made)

ReadDue ==
  /\ phase = "sleep"
  /\ phase' = "fire"
  /\ due' = IF IdsShort THEN Nothing ELSE [t \in DueRepeats |-> Hydrate(t)]
  /\ UNCHANGED <<store, repeats, made, open, spent, onBoard>>

Without(t) == [x \in DOMAIN due \ {t} |-> due[x]]

\* "Not finished yet: nothing happens, try again next occurrence."
NotDone(t) ==
  /\ ~ IsFinished(due[t].row)
  /\ repeats' = [repeats EXCEPT ![t] = AdvanceRepeat(@, NextFireAfter(due[t].rule))]
  /\ due' = Without(t)
  /\ UNCHANGED <<store, made, open, phase, spent, onBoard>>

\* The copy carries the repetition, the old instance lets go of it.
Spawn(t) ==
  /\ IsFinished(due[t].row) /\ ValidDraft(due[t].row.names)
  /\ \E n \in Instance \ made :
       /\ store' = [store EXCEPT ![n] = [done |-> FALSE, shelf |-> "live",
                                         names |-> due[t].row.names, version |-> 1]]
       /\ repeats' = [repeats EXCEPT ![n] = SetRepeat(due[t].rule),
                                     ![t] = AdvanceRepeat(@, Absent)]
       /\ made' = made \cup {n}
  /\ due' = Without(t)
  /\ UNCHANGED <<open, phase, spent, onBoard>>

\* create_task refuses the draft: the error leaves tick_once.
SpawnRefused(t) ==
  /\ IsFinished(due[t].row) /\ ~ ValidDraft(due[t].row.names)
  /\ phase' = "sleep" /\ due' = Nothing
  /\ UNCHANGED <<store, repeats, made, open, spent, onBoard>>

FireRepeats == phase = "fire" /\ \E t \in DOMAIN due : NotDone(t) \/ Spawn(t) \/ SpawnRefused(t)

\* auto_start, the reminders, the dated slips, the print queue.
RestOfTick ==
  /\ phase = "fire" /\ DOMAIN due = {}
  /\ phase' = "rest"
  /\ UNCHANGED <<store, repeats, made, open, due, spent, onBoard>>

Sleep ==
  /\ phase = "rest"
  /\ phase' = "sleep"
  /\ UNCHANGED <<store, repeats, made, open, due, spent, onBoard>>

\* The moment a repetition waits for comes.
TimePasses ==
  /\ \E t \in Instance :
       /\ repeats[t] # Absent /\ repeats[t].next = "future"
       /\ repeats' = [repeats EXCEPT ![t].next = "due"]
       /\ spent' = spent \cup ({repeats[t].rule} \cap FixedDate)
  /\ UNCHANGED <<store, made, open, phase, due, onBoard>>

-----------------------------------------------------------------------------
Handle(w) ==
  \/ Update(w) \/ MoveInstance(w) \/ Delete(w) \/ Restore(w) \/ StopRepeat(w)
  \/ Purge(w) \/ GiveUp(w)

Scheduler == ArchiveFinished \/ ReadDue \/ FireRepeats \/ RestOfTick \/ Sleep

ChainNext ==
  \/ \E w \in Client : CreateTask(w) \/ Open(w) \/ Handle(w)
  \/ MemberChanged \/ Scheduler \/ TimePasses

ChainSpec == ChainInit /\ [][ChainNext]_chainVars

\* The scheduler loops for ever, and the moments rules wait for come.
FairChainSpec ==
  /\ ChainSpec
  /\ WF_chainVars(ReadDue) /\ WF_chainVars(FireRepeats)
  /\ WF_chainVars(RestOfTick) /\ WF_chainVars(Sleep) /\ WF_chainVars(TimePasses)

-----------------------------------------------------------------------------
Carriers == {t \in Instance : Active(t)}

\* fire_repeats: "the old instance stops repeating, the new one carries it":
\* there are never two instances that both repeat.
OneCarrier == Cardinality(Carriers) <= 1

CommitOf(w, ops) ==
  open[w] # Absent /\ open[w].op \in ops /\ open'[w] = Absent /\ repeats' # repeats

\* The scheduler makes a copy of an instance that has let go by then.
Outrun == \E t \in DOMAIN due \ DOMAIN due' : made' # made /\ ~ Active(t)

\* "The chain moves on: the old instance stops repeating, the new one carries
\* it."  While an instance still carries its repetition, handing it on, and
\* moving, archiving, deleting, stopping or purging instances meanwhile, makes
\* no second carrier.  (A restore and a save do, and a list that was outrun.)
HandedOnToOne ==
  [][OneCarrier => \/ OneCarrier' \/ Outrun
                   \/ \E w \in Client : CommitOf(w, {"RestoreTask", "UpdateTask"})]_chainVars

Carried == \E t \in made : /\ Exists(t) /\ repeats[t] # Absent
                           /\ repeats[t].rule \notin FixedDate
                           /\ Active(t) \/ store[t].shelf = "deleted"

\* The scheduler advances a repetition by a rule that was replaced since.
Replaced == \E t \in DOMAIN due \ DOMAIN due' : repeats[t] # Absent /\ repeats[t].rule # due[t].rule

\* A repetition that fires again and again is not lost by accident: some
\* instance carries it, or has it paused by a delete and ready to be
\* restored, until it is stopped, edited away or purged with its task.  (A
\* rule that is replaced while the tick works through its list may be lost.)
ChainSurvives ==
  [][Carried => \/ Carried' \/ Replaced
                \/ \E w \in Client :
                     CommitOf(w, {"StopRepeat", "UpdateTask", "PurgeTask"})]_chainVars

OwedACopy(t) == Exists(t) /\ Active(t) /\ repeats[t].next = "due" /\ IsFinished(store[t])

\* A finished instance whose moment has come is followed by the next one:
\* it is copied and lets go of the repetition, unless somebody reopens it,
\* deletes it, takes the repetition away or saves it anew (which counts the
\* next moment from the save), the person its print rules name is off the
\* board, or the ids of the instance are used up.
Followed(t) == OwedACopy(t) ~> (~ OwedACopy(t) \/ ~ onBoard \/ IdsShort)
=============================================================================
