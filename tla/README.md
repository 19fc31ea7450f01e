# Taskologic in TLA+

TLA+ models of the parts of Taskologic that are hard to test: request handlers that
work on stale copies, a scheduler that works through lists it read earlier, printers
that vanish with a job in hand, a terminal client that acts on answers which come
late, forms that must not lose what nobody touched, files that carry boards between
servers. Each module is a translation of the Rust code under `src/`, checked by TLC on
small instances and, for the core of the daemon, proved with TLAPS for instances of
every size.

`PROJECT.json` lists the runs, which lines every definition models (`map`), the
mutated definitions that show each property can fail (`mutants`), the disagreements
between code and documentation (`findings`), and the hazards the properties are for.

## 1. The system

`taskologicd` is a daemon that owns one SQLite database. `taskologic` is a terminal
client and the login shell of its users; it also owns the user's receipt printer and
barcode scanner. They speak JSON lines over a Unix socket.

| component | source | state | operations | modules |
|---|---|---|---|---|
| dependency rules | `core/deps.rs`, `core/template.rs` | none | `creates_cycle`, `first_cycle` | `Deps`, `DepsSearch` |
| task store and its handlers | `handlers.rs`, `db/repo.rs`, `core/task.rs`, `core/transition.rs` | tables `tasks`, `deps`, `events` | create, update, move, scan, tick, delete, restore, purge | `TaskStore` |
| scheduler | `scheduler.rs` | none between ticks | `archive_finished`, `purge_deleted`, `fire_repeats`, `auto_start`, `print_reminders`, `print_queue_housekeeping` | `TaskStore`, `Repeats`, `Slips`, `PrintQueue` |
| repetitions | `core/repeat.rs`, `db/repo.rs`, `scheduler.rs` | table `repeats` | set, advance, stop, pause on delete, resume on restore; `next_fire_after` | `Repeats`, `RepeatRule` |
| print queue | `state.rs`, `bus.rs`, `server.rs`, `db/repo.rs`, client `printing.rs` | table `print_queue`, the registry of clients, channels | enqueue, hand out, acknowledge, expire, release, register, unregister | `PrintQueue`, `PrintJobs` |
| slips and reminders | `slips.rs`, `scheduler.rs`, `handlers.rs` | sent marks and the autoprint mark of a task | print on create, start, finish, at a date, by hand | `Slips` |
| boards and columns | `core/board.rs`, `handlers.rs`, `db/repo.rs` | tables `boards`, `columns`, `members` | create, update, add, rename, reorder, sort, remove a column, membership | `BoardColumns`, `Access` |
| permissions and the event bus | `core/permission.rs`, `bus.rs`, `handlers.rs` | a broadcast channel per daemon, a subscription per connection | a decision per operation; publish to an audience, lag | `Access`, `ClientBoard` |
| programs | `core/program.rs`, `programs.rs` | tables `program_runs`, `program_tasks` | start, react to start, finish, delete, restore and answer, cancel | `ProgramRun` |
| templates | `core/template.rs`, `handlers.rs`, `transfer.rs` | table `templates` | save, delete, expand and stamp out, export and import | `Templates` |
| transfer | `transfer.rs` | files | export, remap and import of a board or a server | `Transfer` |
| client: open board, windows, lists | `app.rs`, `ui/`, `forms/` | a copy of the board, one open window, one open panel | requests, answers, events, keys | `ClientBoard`, `ClientScreens`, `ClientPanels` |
| client: control codes | `app.rs`, `control.rs`, `core/control.rs` | the armed command, what waits, the undo stack | arm, use, resolve, undo, time out | `ClientControl` |
| barcodes and scanning | `core/barcode.rs`, client `scan.rs`, `forms/codes.rs` | the detector's buffers; the codes panel | encode, print, detect, hand back | `ScanDetector`, `CodesPanel` |
| client: forms | `forms/task.rs`, `repeats.rs`, `print_rules.rs`, `program.rs`, `step.rs`, `start_program.rs`, `board.rs`, `settings.rs`, `colors.rs`, `printer.rs` | fields, cursors, the window in front | open, type, refresh, save | `TaskForm`, `ProgramEditor`, `BoardForm`, `ClientSettings` |
| statistics | `core/stats.rs`, `forms/analytics.rs` | none | aggregation for display | not modelled |
| slip rendering | `taskologic-print` | none | layout, raster, ESC/POS | not modelled |
| configuration, authentication, start-up, protocol types | `config.rs`, `server.rs`, `core/protocol.rs` | none | TOML, groups, sockets, serde | not modelled |

How they interact. Every connection is a tokio task of the daemon; a request is
handled on it from beginning to end. The database is one connection behind a mutex
(`Db`, `db/mod.rs`): a handler calls `with` or `tx` several times, and between two
calls everybody else may run. The usual shape is *load the task and the board, check
permissions and the version on the copies, then open a transaction and write*. Changes
are published on the bus. The scheduler is one more tokio task that every tick runs
its passes in order; each pass reads a list in one lock hold and writes per element in
others. A slip is a row of `print_queue`; whoever queues one, a client that connects
and the scheduler all call `dispatch_print_jobs`, which picks the user's best
connected client and sends it what is pending. The client prints and acknowledges.

The client sends a request per key or code and goes on; answers come in the order of
the requests, everybody's events between them, and both find whatever is open by then.
A connection handles one line to its end and writes the answer before it forwards the
events that came meanwhile.

What is hard here:

* **Interleaving with stale copies.** Nothing is decided inside the transaction except
  what the transaction itself reads again. A move is planned on an old column, an old
  finished stamp and an old archive mark; a version is compared with an old version.
* **Lists that age.** `archive_finished`, `purge_deleted`, `fire_repeats` and
  `auto_start` act on tasks that may have been moved, restored, stopped or purged
  since the list was read.
* **Ordering inside one tick.** Every pass propagates its errors with `?`, so one task
  that fails in one pass stops the passes after it.
* **Unreliable delivery.** A job may be handed to a client that is gone, the
  acknowledgement may be lost, late or repeated, and the daemon may stop at any point;
  only the table survives.
* **Liveness.** The archive and retention clocks, a repetition whose moment has come,
  a queued slip: each has to be answered eventually.
* **Answers that come late.** The client keeps the armed command, the form that saves,
  the panel that loads and the cursor's row; any of them may have changed when the
  answer comes, and answers overtake events.
* **Marks that are set apart from what they mark.** A slip is decided on in one lock
  hold, marked as sent in another, queued in a third.
* **Audiences that age.** Who hears of a change to a private board is read with the
  board, before the change and before the publication.
* **Editors as copies.** A form is a third copy of its record, with windows in front
  of it that hold a fourth; a save sends back everything, touched or not.
* **Data that refers.** Ids in files, uids of another server, dependencies, steps
  named by other steps: each is exchanged or dropped in every place or it is wrong.
* **One keyboard for two.** A scanner and a person type into the same stream, and only
  the characters tell them apart.
* **Graph conditions.** Dependencies form a DAG through any sequence of edits.

What makes each component correct is stated as properties in its module; section 3
lists them.

## 2. Modules

| module | what it is | run by |
|---|---|---|
| `Deps`, `DepsTheorems` | the dependency rules as operators, and facts about them for every graph | |
| `DepsSearch`, `DepsSearch_proofs` | the loop of `first_cycle`/`creates_cycle`; it decides what `Deps` defines | `MCData` |
| `TaskStore`, `TaskStore_proofs` | the tasks of one board, handlers as load and commit, three scheduler passes, time | `MCTaskStore` |
| `Repeats` | one chain of repeating instances, handlers and `fire_repeats` | `MCFollowUps` |
| `RepeatRule` | the calendar arithmetic of `next_fire_after` | `MCData` |
| `BoardColumns` | the columns of one board, their roles, and the tasks in them | `MCEditing` |
| `ProgramRun`, `ProgramRun_proofs` | one run of a program: its steps' tasks, the engine, every request on them | `MCFollowUps` |
| `Templates` | task templates of two boards: saved, deleted, stamped out, carried over as files | `MCData` |
| `Transfer` | boards that travel between two servers as files | `MCData` |
| `PrintJobs`, `PrintQueue`, `PrintQueue_proofs` | what the queue promises about a slip; the queue, the hand-outs, the connections, restarts | `MCPrintQueue`, `MCDelivery` |
| `Slips` | what is printed for one task without anybody asking, and by hand | `MCDelivery` |
| `Scheduler_proofs` | theorems about `Slips` and `Repeats` | |
| `Access` | who may see a board, who is told, and what one client still shows | `MCData` |
| `ClientControl` | control codes that wait for the task scanned next, and undo | `MCClient` |
| `Client_proofs` | theorems about `ClientControl`, `Access` and `ClientScreens` | |
| `ClientBoard` | the copy of the open board, its cursor and carried card, the bus that feeds it | `MCClient` |
| `ClientScreens` | the windows, what opens from what, and whose answer closes them | `MCClient` |
| `ClientPanels` | the list panels: what they show, and the row a key acts on | `MCClient` |
| `ScanDetector` | codes on paper, and the detector in the stream of keys | `MCClient` |
| `CodesPanel` | the panel that prints control codes | `MCClient` |
| `TaskForm` | the form for tasks and templates, with the print rules window | `MCEditing` |
| `ProgramEditor` | the program form with its step, print rules and start windows | `MCEditing` |
| `BoardForm` | the form for boards, and its question about going private | `MCEditing` |
| `ClientSettings` | the settings form with the colours, and the printer panels | `MCEditing` |
| `Editing_proofs` | theorems about `BoardColumns`, `BoardForm`, `ProgramEditor` and `ClientSettings` | |

An `MC` module of several components puts them side by side: a variable `lane` says
which machine takes the steps of a behaviour, and the others stay where they start.
That is a way to check them in one run, not a composition; where components interact,
the interaction is inside a module (the queue with the connections, the client with
the daemon that answers it, the panel with the detector that reads what it printed:
`CodesPanel` and `ScanDetector` share the paper).

### Deps and DepsSearch

A graph is a function from tasks to the set of tasks they depend on. Reachability is
defined without recursion, as membership in every closed set, so that it can be used
in proofs. `DepsSearch` keeps the variables of the code (`graph`, `seen`, `stack`, the
proposed list) and starts on every graph, cyclic ones included: the graph the code
searches need not be a DAG, because a program run adds dependencies without asking
(`add_dep`). The lists are sets: the order in which the stack is popped does not
change the answer.

### TaskStore

`store` is the `tasks` table, `deps` the `deps` table, `held[w]` the copy that
connection `w` has loaded, `phase` and `due` the scheduler's pass and what is left of
its list. `Load` is the first lock hold of every handler with the checks made on the
copy (`Accepts`); `Update`, `Move`, `Tick`, `Delete`, `Restore`, `Purge` are the
committing transactions, and `UpdateRefused`, `MoveRefused`, `CommitLost` their error
paths. What the code takes from the copy is taken from the copy (`PlanFinished`, the
checklist, the archive mark, the column to restore to); what it reads again is read
again (`OpenDeps`, the dependency graph, the row the version is added to). `Target`
gives the columns a request may ask for: any for a move from the screen, what
`scan_target` says for a scan.

A stamp is its age, saturating at the delay it is compared with; copies age too. Left
out: positions inside a column, `SetExcludeFromStats`, permissions, events other than
"was started once", and the tasks of programs.

### Repeats

One chain is watched from the task somebody made. A task is reduced to done or open,
and live, archived or deleted; its repetition is a row of its own that is active or
not, with a next moment that is still to come, has come, or is gone (`NextFireAfter`:
a fixed date that is past has none). `open` with `UpdateTask` is an open editor: it
saves the repetition it was opened with, another one or none, guarded by the version;
with any other operation it is a handler between its load and its commit. `Spawn`, `NotDone` and
`SpawnRefused` are the three ends of the loop body of `fire_repeats`; `SpawnRefused`
leaves the whole tick, as the `?` does. `Names` stands for print rules with a named
recipient, which `validate_draft` checks against the members of the board.

### RepeatRule

A state is a rule, a time of day and a moment; the only action moves on to the next
moment, as `fire_repeats` does. `NextFireAfter` translates the search day by day with
its horizon, `LocalToUtc` the two ways a wall clock can be ambiguous, `DateOf` the
lengths of months. `NextIsNext` compares with `Firings`, the set of all moments of the
rule. A day has a few steps, the zone one summer; a gap or a fold is an hour.
`next_instance`, which shifts the dates of a copy, is left out.

### BoardColumns

`column` and `born` are the `columns` table, `role` the three role columns of
`boards`, `place` and `stamped` the column and the finished stamp of each task,
`held[w]` the copies connection `w` has loaded. `Load` is the reads of a handler in
one step; a move reads its task and then its board, and nothing that the properties
tell apart depends on a change between the two. `CountTasks` is the second lock hold
of `RemoveColumn`, and everything else commits in one transaction with what the copy
says (`Fresh`, `Plan`, `PlanFinished`) and with the foreign key, which is all that
looks at the table again (`KeyHolds`). `Refused` is any of the error returns; the
roles are not foreign keys. Any number of managers and members act at once, each on a
connection of its own. `crossed` observes a commit that was decided on a copy which
another commit had overtaken in what matters to it: a column gone or a role moved
since (`"roles"`), a name given since (`"names"`). The names are members of a small
set. Left out: the order of columns, membership and the
other settings, and the archive.

### ProgramRun

`task` holds the tasks of one run joined with their rows of `program_tasks`, `run` the
row of `program_runs`, `held[w]` the copy that connection `w` has loaded. The engine
`react` is the group of operators from `EndsRun` to `FinishesRoot`, each one question
that it asks about an event; `Apply` is what the daemon does with the answers, in the
transaction of the request. The request decides from its copy whether the task changes
column (`held[w].column`), and the engine reads everything else again. `Fired` is a
set of triggers, so one step goes once per event. A new task's id is the next one, its
go the step's latest and one (`NextGo`). `Refused` is every error return. A program is
validated when it is saved and again when it starts (`Valid`, an assumption on
`Programs`).

A column is *started*, *finished* or another one; entering *started* means something
for the root only, so the tasks of steps have two. The root's dependencies are left
out: whoever finishes it by hand may override them, and the engine does not ask. Left
out too: dates, time limits, the sheets of a fan-out group, and the narrowing of its
list, which only gives another program.

### Templates and Transfer

`Templates` keeps of a draft its name, the lead of its prefilled start and its
dependencies. A save reads the board's templates in the transaction that writes, so
each request is one action. `ExpansionOrder` and `PrefillAnchors` are the order and
the dates of `CreateFromTemplate`; `StampedRight` says what they should be without an
order of visits. `ExportTemplate`, `ImportTemplate` carry a template with its
dependencies to another board.

`Transfer` keeps rows by their ids and of a row what refers to others or to people.
The export drops what the file does not hold; `RemapUsers` exchanges uids by name in
the file; `ImportBoards` gives every row a new id and rewires columns, roles,
dependencies, runs, templates and repetitions. `Login` adds people to the target,
`MakeRoom` makes its ids differ from the source's.

### PrintQueue and PrintJobs

`queue` is the table; `registry`, `conn`, `inbox`, `acks` the connections; `asked` and
`agent` the threads that hand out jobs: handlers that queued a slip, connections that
were just welcomed, and the scheduler. `BeginHandOut` is `printer_for` and the read of
the pending jobs; `HandNext` marks one and sends it. `Register`, `Greet`,
`GreetFails`, `Unregister` are the life of a connection in `server.rs`; `GreetFails`
is the early return that skips `unregister`. `ExpirePrintJobs`,
`ReleaseStaleInFlight`, `DispatchPending` are the scheduler's housekeeping. `Restart`
keeps the table and nothing else.

A row of `print_queue` has no foreign key, so a job outlives its task. `Purge` takes the
tasks of jobs in `Doomed`; after a `Restart`, which may be an upgrade, the JSON of some
of them may not parse (`garbled`). A job that is refused or expires is deleted either
way; `RecordPrintDrop` writes the event of it when there is still a task and the job can
be read, and nothing otherwise (`Traceless`; `record_print_drop` returns early).
`untold` are the jobs that went that way.

`PrintJobs` is the promise, in three variables: a slip is new, queued, done, dropped or
lost, is or is not on paper, and leaves a trace or not. Done needs paper, dropped needs
an event, and there is no way back; a slip may be lost, deleted without a word, only
while it is traceless: its task is purged, or it cannot be read. The refinement mapping
`Outcome` reads this from the table and the event log. Printing a slip twice is allowed
by the promise, because the code allows it.

### Slips

One task with its dates, assignees and print rules; `autoprinted` and `sent` are the
two tables of marks. `Fire` (print rules of an event), `Autoprint` and `Spool` are the
lock holds of a handler; the scheduler's pass decides, marks and queues in three
(`SchedulerStep`). `Move`, `Edit`, `PrintTask` come in between, `Crash` takes what is
decided and not queued. `handed`, `twice` and `lost` observe what reached the queue.
When somebody moves the task into the started column the rules of the start fire at
once, otherwise when the start date comes.

### Access

One board, its members, and who has a task of it assigned. A request loads the board
(`Load`), commits (`Commit`, which checks nothing again) and publishes to the audience
it had loaded (`Publish`), with `Reload` where the handler loads the board once more.
`bus`, `onTheWay`, `wanted`, `listed` and `displayed` are one client: events are
forwarded when no request of the session is handled, and an answer comes before them
(`Forward`, `AnswerWanted`). The client asks to open the board on every Enter, with
answers still on the way (`AskToOpen`). Whoever manages the board (changes its
settings, adds and removes members, deletes it) does so at the same time as everybody
else; `crossed` observes that a change of the board was made by a request that had
loaded it before another change. `LosesSight` is about the behaviours without that; with
it, it fails, see section 3.

### ClientControl, ClientBoard, ClientScreens, ClientPanels

Each has the daemon's rows as the client's requests meet them, the requests under way
in order, and the state of `App` that they concern.

`ClientControl`: `Scan` is every key and code, `OnAnswer` the client's side of an
answer, `OtherEdit` and `Hear` other people. The daemon's side of a request that writes
a task is three steps: `LoadTask` loads it with the checks made on the copy (`Accepts`,
the version among them), `WriteTask` is the transaction, which asks for the version of
nothing, `Respond` the answer; `held` is the copy in between. What only reads is
answered in one. `armed`, `waiting`, `undo` and `afterOpen` are the fields of the same
names; `spent`, `lastBy` and `acted` observe which arming acted and who wrote a row
last.

`ClientBoard`: a change is committed (`OtherChange`, `HandleRequest`), published later
(`PublishEvent`) and forwarded when the connection is idle (`ForwardEvent`), or skipped when the
queue is full; the client takes answers and events from `wire` in order (`Receive`).
`OnTask`, `OnTaskChanged`, `OnRefresh` are what `on_response` and `on_event` do with
`upsert`, `remove` and a new list. `overtaken` and `dropped` observe what the bus did.

`ClientScreens`: one variable `window` with the window it goes back to inside. `asked`
is `App::pending`. Codes are heard under any window (`ScanCode`): `Resolve` for a task
while a command is armed, `Lookup` for a board, a program or a template. `TaskNamed`,
`BoardOpened` and `TargetNamed` are what the client does with the answers:
`ArmedWindow` puts a column pick, the task or its form in the place of whatever is
open, a code that opens a form does so only under no window, and one that uses a
template or a program unseen sends the same save a form would. `CodeSelected` is an
armed command on the task under the cursor. `lost` observes a form that an answer took
away with something typed in it. What is in a form is the forms' business; here it is
typed or not.

`ClientPanels`: archive, repetitions, members, templates, programs, runs, columns and
users, one kind in a behaviour. `Serve` is the daemon, `Forward` the connection,
`Other` other people; `OnAnswer` puts a list in a panel, whatever is open.

### ScanDetector and CodesPanel

`detector` is the detector's two buffers and ages. `Push` is one key of whoever typed
it, `Expire` and `ReleaseWith` what happens to a code that stops looking like one.
Characters are single values; `Payload`, `Chunks`, `Body`, `ParseFrame` and
`ParseSystem` are the formats, `VerifyCheck` the check character. `scanned` is the
scanner, which types a prefix, the code, piece by piece, and Enter. `owed` observes
keys that were typed and have not reached the application.

`CodesPanel` adds codes to the same `paper`: categories, values that are asked for, a
value combined with a command, and the two ticks that arm.

### The forms

A text field that is read as a number or a date holds a set: blank, what it shows, or
unreadable. `TaskForm` shows instants as minutes and keeps them to half a minute, so
that the loss is visible; its window of print rules takes the form and gives it back.
`ProgramEditor` has the form, the window of a step, its print rules and the window that
starts a program, each a copy of part of the one behind it. The steps it is opened with
(`Given`) are what `validate` passes and the types of a step leave to it (`IsProgram`,
`IsStep`). `BoardForm` compares with the board it knows and sends what differs, while
others change the board; a card is the set of parts it shows, and what the form reads
back never shows the short id (`Value`), so the boards it is opened on are those that
forms and defaults write, which do not show it either (`IsBoard`). The delays of its
boards are whole days, as this form and the defaults write them; a delay from a file
edited by hand need not be, and any save would round it down. `ClientSettings` keeps
preferences, the printer's profile and what the printer panels were told (`meant`);
answers about queues and paper come whenever they come, in millimetres that `PaperFor`
reads as a roll, as a width of its own or as nothing a receipt printer has. Preferences
and profiles to start from (`KeptPrefs`, `KeptProfiles`), colours, fields of a card,
filters and words are constants. `touched` and the like observe what was changed by
hand; the properties say that nothing else changed.

## 3. Runs

| run | instance | shows |
|---|---|---|
| `row` | 1 task, 2 clients, 4 columns, 1 item | races on one row, the scheduler's two clocks |
| `links` | 2 tasks, 2 clients, lists of at most one | DAG, no dangling link, a scan respects open dependencies |
| `follow_ups` | 3 programs (a loop with a question, a fan-out with a step after it, a question with a default), up to 4 tasks, 2 people; a chain of 3 instances, 1 client, a weekly rule and a fixed date | the root finishes itself with the last thing that counts and not before, and a run that is over does not react; a repetition that is handed on neither forks nor gets lost, and what is due is followed |
| `data` | all graphs of 3 nodes and all lists; up to 4 templates on 2 boards; files of one or two boards between two servers with up to 2 imports; rules over half a year; 1 board with an owner, a person and an admin, whose 2 requests overlap | the search decides; templates stay a DAG and are stamped out right; boards arrive whole, for the right people; the next moment is the next; who loses a board stops seeing it |
| `editing` | 3 columns, 3 names, 2 roles, 1 task; a manager and a member, or two managers at once; each form with two to five changes and whatever answers | columns, roles and tasks hold together; nothing nobody touched is changed by a save; references hold; the printer is the one that was set |
| `delivery` | 1 task, 3 recipients, 2 handlers, the scheduler, 1 crash; 1 job, 1 printer that may vanish, expiry, 1 restart, and the job's task purged or its JSON unreadable | no slip of a rule twice, start slips come; the queue keeps its promise and settles |
| `reach` | 1 job, 2 printers, no expiry, every client welcomed | a queued job reaches a connected printer |
| `client` | 2 tasks and up to 4 scans; 2 cards and 2 changes by others; windows with up to 5 keys, or 4 with codes; panels with up to 4; scans with keys around them; every code the panel prints | undo takes back only its own, a command acts once, the copy and the panels catch up, a form keeps what was typed, a code arrives as printed, typing is handed back |
| `repeat_restore` | 3 instances | *violation*: restoring an old instance forks the chain |
| `leak` | 1 job, 2 printers | *violation*: a client gone before its welcome takes every job |
| `conflict` | 1 form, 1 save | *violation*: Ctrl-C during a save loses what was typed when the save is refused |
| `text_last` | 1 code | *violation*: a sticky text code is not read as one |

The properties, by module:

* `DepsSearch`: `SearchDecides`.
* `TaskStore`: `ClockOnlyInFinished` (the stamp a move planned from a stale copy never
  disagrees with the column), `PurgedStaysPurged` (no late commit brings a row back),
  `DepsAcyclic`, `DepsExist`, `ScanRespectsDeps`, and the leads-to properties
  `FinishedIsArchived` and `DeletedIsPurged`.
* `Repeats`: `HandedOnToOne` (a chain with one carrier gets a second one only from a
  restore, an editor's save, or a copy of an instance that let go after the tick's
  list was read), `ChainSurvives` (a rule that goes on is carried, or paused by a
  delete, until somebody stops it, edits it away or purges the task, or replaces it
  while the tick has the instance on its list, see below), `DueIsFollowed`.
  `OneCarrier` is the state form of the first; a restore breaks it.
* `RepeatRule`: `NextIsNext` (no moment is skipped and none comes twice, asked at any
  moment the wall clock tells apart).
* `BoardColumns`: `EveryTaskPlaced`; `RolesExist`, for managers at once as long as no
  commit was decided on a copy that another had overtaken (`crossed`).
* `ProgramRun`: `RootEndsRun` (no root that is finished or deleted by hand leaves a
  run that still reacts), `NotBefore` and `NotNever` (the root finishes itself once it
  has started and nothing that counts is open, and in the very step that settles the
  last of it, since no other step would ever look again), `OverIsOver` (a request that
  was under way when the run ended makes, asks and answers nothing).
* `Templates`: `TemplatesStayDag` (through saves, deletions and imports that do not
  replace), `StampedRight` (each template the root needs once, after what it depends
  on, dated from the earliest task that needs it).
* `Transfer`: `ArrivesWhole` (every id exchanged the same way wherever it stands,
  nothing lost but what the file does not hold), `RemapFindsPeople` (also when two
  people exchange their uids, and when it is run twice).
* `PrintQueue`: `KeepsPromise` (refinement; a job goes without paper and without an
  event only if its task is purged or it cannot be read), `JobsSettle`,
  `ReachesAPrinter`.
* `Slips`: `HandedOnce` (no slip of a rule, reminder or autoprint is queued twice,
  over a restart too), `StartSlipComes`.
* `Access`: `LosesSight` (who loses a board, by its going private, a removal or its
  deletion, does not go on showing or listing it once everything has arrived, unless
  the changes of two managers crossed).
* `ClientControl`: `UndoOnlyItsOwn` (an undo replaces what its own code left, or a
  change made between the daemon's look at the version and its write),
  `OnceOrCancelled`. `ClientBoard`: `CopyCatchesUp`. `ClientScreens`: `KeepsWhatWasTyped` (a form goes
  only by an answer to its own save, to something asked before it was opened, to the
  code of a task that an armed command acts on, or to a code that makes something
  unseen); `ConflictKeepsForm` is broken by the quit question. `ClientPanels`: `PanelCatchesUp`.
* `ScanDetector`: `CodeArrives` (what was scanned in time is what the paper says, a
  misread one is noticed, and no key of it reaches the application),
  `TypedIsHandedBack`. `CodesPanel`: `TextIsLast`, broken by its ticks.
* `TaskForm`, `ClientSettings`: `UntouchedSurvives`. `ProgramEditor`:
  `ReferencesHold`, `UntouchedStepSurvives`. `BoardForm`: `UpdateNamesTouched`.
  `ClientSettings`: `ProfileAsMeant`.

Every one has a mutant: a definition changed the way a bug would change it, for which
TLC finds the property violated under the same configuration. The faulty variants
stand before the definition they are variants of.

### The disagreements

* `repeat_restore`: `restore_task` reactivates any repetition row, the one the chain
  left behind included.
* `leak`: `connection` returns with the error of the welcome before it reaches
  `unregister`.
* `conflict`: `on_key` replaces the open window by the quit question whatever it is; a
  form that waits for its save is not there any more when the conflict comes.
* `text_last`: `print_one` appends `STK` and `SEL` to every code, a text included.

Three properties leave out what the code does and a document or comment says it does
not. Each fails without its exception, and TLC finds the trace within a minute:

* `UndoOnlyItsOwn` leaves out what another connection commits between the comparison of
  the versions and the write. `UpdateTask` compares in one lock hold and writes in a
  later one that does not compare (`handlers.rs:444`, `repo.rs:854`), so the undo puts
  the old fields over the change in between, although
  `docs/barcode-commands-cheatsheet.md:134` says that "undoing an edit is refused as a
  conflict and the change stays".
* `RolesExist` leaves out changes made on an overtaken copy. `UpdateBoard` checks a role
  against its copy and writes a plain number; `RemoveColumn` of another manager takes
  the column in between, and the board names a column it does not have, although
  `core/board.rs:224` says that removing one "never leaves a role dangling". Likewise
  `NamesDiffer`: one name given twice.
* `LosesSight` leaves out changes made on an overtaken copy. An event goes to the
  audience of the board as it was loaded, although `bus.rs:3` says it is "addressed to
  the member uids at the moment it happens": `DeleteBoard` loads a private board,
  `AddMember` commits and its client lists and opens the board, the deletion is told to
  the members from before, and the one who was added goes on listing and showing a board
  that is gone.

Other behaviours of the same kind are reachable in the models and are not excluded by
any property.

In `TaskStore`, `BoardColumns`, `Repeats` and `PrintQueue`: two saves made from one
version both succeed, because `UpdateTask` compares versions on a copy loaded before the
transaction, although `task.rs:52` says that "a stale version on save is rejected"; the
scheduler starts a task whose dependencies are open, because `plan_move` asks about them
only on the way into the finished column (`scheduler.rs:155` says it "is left for a
person"); a new finished role leaves the stamps of all tasks as they were, and
`remove_column` moves tasks with one `UPDATE` that does not touch `finished_at`, so
tasks that go to the finished column are never archived (`task.rs:49`: "set when the
task enters the finished column"); a copy that `create_task` refuses ends every tick at
the same place, because its error leaves `tick_once`; two ticks of different checklist items of which one is
undone (`set_checklist_item` writes the whole list from its copy); a task restored after
the purge list was read and purged while it is live; a move that loaded its task before
a delete and moves it inside the archive; a reorder inside the finished column that
finishes a task over its open dependencies because it left the column in between; a
repetition stopped, or its instance reopened, after `fire_repeats` read its list and
carried on by a copy all the same; an editor that saves a repetition back after the
chain has moved on, because advancing it does not bump the version; a repetition that an
editor changes from a date to every week after `fire_repeats` read its list, and that
the tick switches off because the date it read has passed (`advance_repeat` asks nothing
about the rule; `ChainSurvives` fails without `Replaced`); a job handed out twice by two
threads that read the pending jobs before either marked one; a job that expires while a
printer has it; a job whose task is purged, or that cannot be read, deleted by a refusal
or by its expiry without an event (`repo.rs:1758` says only the first of the two).

In `ProgramRun`: a task whose question was answered is moved back and finished once
more, this time without an answer; the engine asks again and holds the root, but the
old answer is still stored, so nothing is pending, nobody can answer, and the run
waits until something else happens to it (`NotNever` leaves out finishes of answered
tasks for this reason). Purging an archived task that the root waits for does not wake
the engine either. Two finishes of one task loaded together both fire its triggers; a
finish loaded before the task was deleted fires them for a step that counts as
skipped; when the last task of a fan-out group is deleted and not finished, what comes
after the step is never made.

`RepeatRule`: asked in the hour the clocks show twice, the search takes the wall clock
for the first showing and may return a moment that is not after it; likewise in the
hour after one that is left out. `NextIsNext` leaves these hours out (`Blurred`).

`Templates` and `Transfer`: an import that replaces a template asks about the id 0, so
it may close a cycle, which `template.rs` takes to be impossible; it validates the
assignees against the named board although the template stays on another. A remap that
is run after more people have come may mix people up; an uid that nobody has here may
be somebody else's.

`Slips`: the slip of the task itself may be handed twice, by an autoprint or by hand
while the scheduler is between its look and its mark, although `scheduler.rs` says
"whoever already has one, by autoprint or by hand, is not handed another"; a stop of
the daemon between a mark and its job loses the slip; a slip is queued from a copy
whose dates or rules were edited meanwhile; a task that gets rules after its autoprint
is printed by both.

`Access`: whoever left a board between its load and its publication hears of what
happened after. Going private
throws members off the open board like everybody else, because `AccessRevoked` goes to
all; going public is told to nobody outside; an admin who removes himself cannot load
the board any more, and the members are not told. A task assigned to somebody while the board
goes private keeps an assignee who cannot see it. A session keeps the `is_admin` it
had when it connected.

`ClientControl`: a code that changes a task, the undo included, writes whatever another
connection wrote between its load and its transaction; the undo of an edit names the
version that edit left behind, and taking back a later change of the same task counts as
a change, so the edit before it is refused, although
`docs/barcode-commands-cheatsheet.md:125` says "Scan it again to walk back further, up
to 3 changes."; a command acts on a task that was scanned for an earlier arming when the
answer comes after the next one. `ClientBoard`: a client that skipped events is told so
by a notice and goes on with the copy it has, although `bus.rs:72` tells it to reload;
moving a card up or down twice before the answer does not always move two places, and a
card that is dragged out of sight is counted in its new place. `ClientScreens`: the code
of a task, scanned with a command armed and a form open, acts wherever one is
(`docs/barcodes.md:44`): the task, its form or the pick of a column comes in the place
of the open form and what was typed is gone, and a code that starts a program or makes a
task of a template unseen closes the form with its answer; an answer to a list that was
asked for before a form was opened replaces the form; so does the dialog about open
dependencies; an answer for one form unlocks or closes another that was opened since; a
conflict pairs the open form with the row of another task. `ClientPanels`: behind its
question an archive panel misses events and a members panel the answer; Enter twice on
the dashboard opens two boards, and a template saved on one may be listed on the other;
two reorders of columns before the answer start from the same order.

`ScanDetector`: two dots that somebody typed are taken for a code, and dropped with
what follows them if it is none, although `app.rs:1751` says that a partial match "is
handed back as typing"; Backspace and the arrows overtake keys that are held; Esc
drops what is held of a control code; a code whose version was misread goes to the
application as keys; a configured prefix ends up inside codes of several pieces.
`CodesPanel`: the keys `/` and `-` and a text with two dashes do not survive the way
to paper and back, and nothing refuses them.

`TaskForm`: a save before the members have come takes every assignee away; dates lose
their seconds; the zone of a repetition becomes the user's; a second answer with the
members undoes ticks. `ProgramEditor`: a step that gets another key leaves its old one
behind in the others; a trigger on an answer has no field, is dropped by an edit of
its own step and outlives the step it names; a reference of a step to itself, which
`validate` admits, is dropped by an edit of that step, and so is the automatic start
of a step that nobody dates. `BoardForm`: a field that others change
while the form is open is sent back with its old value; answering *no* to the question
about going private after leaving it loses the form; in a new board a column put in
before others moves the roles to other columns. `ClientSettings`: a save writes the
whole record, whatever another client saved meanwhile, and what the daemon refuses is
used all the same; a zone that was saved, refused and then set back to the one the
form opened with is not sent, so the refused one stays in use; a save of a printer that
is refused shows the advanced panel with the queue that stood there before, and carries
that over, without asking about its paper when the panel is left.

## 4. Bounds

Every bound is a constant of its module or a condition of its `MC` module.

`row`, `links`: `MaxVersion` stops clients from loading rows that were written
often; the scheduler and requests already loaded go on. With 4, one row can be
created, finished, deleted, restored and changed by two clients at once.
`ArchiveAfter` and `PurgeAfter` are delays in ticks: a stamp saturates at its delay,
so the clock itself is unbounded and one tick distinguishes *not yet* from *due*. In
`row` every task asks to be started: once started it behaves as one that does not,
and `links` has those that do not. Two tasks with at most one dependency each give
self-loops and two-cycles; longer cycles are covered by `data` and by the theorems.
`row` leaves `UpdateTask` and `FinishScan` to `links`.

`follow_ups`: the three programs between them use every trigger, once-only steps and
steps the root does not wait for, and `Most` allows the laundry a second wash before it
hangs up and the two rooms the step after them; `Go` bounds the goes accordingly, and an
event that would need more tasks or goes is not taken. Two people are enough for any one
request to be stale; they are alike, so the second comes when the first is at something,
and in the run with the most tasks only to move one. `Watched` is off: once the run is
over no further request is loaded, those under way still commit, and the behaviour stops
there (which is why deadlock is not checked). `Landing` leaves out programs that are
started in the started or finished column. Three instances of a chain are enough for one
that the chain has left twice; `DueIsFollowed` follows the first of them, ids being
interchangeable. An editor replaces a rule only of the first instance and while the tick
has it on its list (`Retyped`), which is where the rule read and the rule stored may
differ; one of the three instances, whichever of the chain it is, is only moved.

`data`: every graph of three nodes, with every list; four templates with at most two
dependencies each, on one board with leads or on two boards without; three servers of
two boards that refer to each other or to nothing, everything a board has that refers
to something in one of them; on the second server nobody, both people with their uids
exchanged, or one under another uid; two imports, the second of one board. After an
import that has replaced a template, templates are only stamped out. In the
calendar a day has eight steps and half a year is searched; rules of every kind, those
that are refused included, counts of one day and of more than a month, days not every
month has; they are asked at every step of days 0 to 70, with the beginning and the
end of summer time inside. The board has two requests, by whoever may make them and at
the same time, which is what it takes for one to commit between the load and the
publication of the other, and the client has two questions under way (`MaxAsked`), which
is what it takes for an answer to overtake what makes it stale. Machines that are done
stop, so deadlock is not checked.

`editing`: three columns allow one to be removed, one to take the task and one to take a
role, and one of them may have the name of another; `paused` is treated like `started`
and is left out. The board is shared by one manager and the member, or by two managers,
which is where copies are overtaken; names are given and looked for with one manager
(for any number of them `NamesDiffer` is proved). Forms: any two changes to a task or a step, five
when a step is taken out and one is added (each with what the windows in front do);
three changes to a board by hand or by others; two edits of the settings, two of a
printer, whose queues report what is printed on a roll and a width no roll has. Every
form is opened in every mode, on records with every field set. Forms that are closed
stay closed, so deadlock is not checked.

`delivery`: the one job may lose its task or be found unreadable (`Doomed`), at any
moment, so that both ends of it are reached with and without a trace; in `reach` and
`leak` it does not. `MaxAge` is larger than `Stale` as in the configuration, so that a job can
be given back before it expires; `Backlog` holds back the release of stale jobs while
that many messages are under way to one client; two attempts and one restart. The
slips have four drafts (both dates, one, rules of every moment, two rules for one
slip), two people with preferences and one without, times 0 to 3, two handlers, and an
edit and a move, two moves, or a move and a crash. In `reach` there is no expiry
and no restart, and `WelcomedSpec` assumes that no client vanishes between its hello
and the welcome, and that one of the two clients stays: with one that vanishes early,
`leak` shows what happens.

`client`: two tasks on a board each; up to three scans and keys with every kind of
command, up to four on one task with the two whose undo differs (an edit and a move), an
undo stack of one, one change by others; the open board with two cards in two columns, two
changes by others, two keys and two events the queue holds; windows with five keys and
one change by others, without codes; with four keys and codes, but without the new
board, the menu and the lists of runs, repetitions and members; the codes of `Scannable`:
a task's code with a command armed, one that opens a form, one that uses a program
unseen, one that shows a board (a template that opens a form or is used unseen takes
the same ways); panels with four keys and one change by others. Scanning: ids of
two characters (six in the code, the arithmetic is the same per character), pieces of
six, a timeout of one tick and a frame timeout of none or two; one scan with a key
before or inside it, or three keys; a misread code comes alone. `CodeArrives` was also
checked with two keys around the scan (1.4 million states more). One code is printed
from the panel and scanned. Bounds end behaviours, so deadlock is not checked.

Symmetry is used in `links`, over the clients, and in `editing`, over the managers, who
are interchangeable there; neither run has a liveness property.

## 5. Fairness

* `TaskStore`: the scheduler (a loop that never ends), the clock, and each handler
  that has loaded its task (it runs to its end, there is nothing it waits for but the
  mutex). No client has to send anything.
* `Repeats`: the steps of the tick, and the moments rules wait for. The archive pass
  and the clients have no fairness. In `follow_ups` the steps of the tick
  share one fairness condition: they have a phase each, so it says the same.
* `PrintQueue`: the housekeeping, the clock, threads in a hand-out, connections (they
  handle what arrives, and notice a client that is gone), and clients, which print
  what they are sent with either result. Nobody has to connect, to queue anything or
  to have a printer that works.
* `Slips`: the scheduler, and a handler that has begun.
* Tasks are purged, and jobs found unreadable, without fairness: nothing relies on it.
* Everything else, the client in particular: none, only safety is checked. What the
  client should arrive at is stated of the states in which nothing is under way.

There is no strong fairness.

## 6. Proofs

All theorems hold for any number of tasks, clients, columns, jobs, connections,
threads, people and restarts, from the named assumptions on the constants (programs
are valid, roles include the finished one, delays are numbers, print rules name one of
three moments, `None` and the like are none of the values, the windows a key opens
are forms that save or lists, the delays of a board are whole days, the bus holds at
least one event, a program that is opened is one `validate` passes, preferences and
profiles have their types, a queue reports one width or none).

| theorem | statement | argument |
|---|---|---|
| `DepsTheorems!NoFirstCycleAcyclic` | an accepted edit keeps a DAG a DAG | a cycle in the new graph uses a new edge; cut the closed set at the edited task |
| `DepsSearch_proofs!SearchCorrect` | `Spec => []SearchDecides` | invariant `SearchInv`: what was seen and is not on the stack has all its successors seen or stacked (`Frontier`), and the accepted ones do not reach the task (`Verdicts`) |
| `DepsSearch_proofs!AcceptedCorrect` | `Spec => []AcceptedKeepsDag` | the two above |
| `TaskStore_proofs!TypeCorrect` | `Spec => []TypeOK` | one step per action, with a lemma per write |
| `TaskStore_proofs!ClockCorrect` | `Spec => []ClockOnlyInFinished` | every row and copy after a step is one that was there or comes from one by a named write (`StepDerived`); each write keeps the clock condition. Copies are part of the invariant: for the rows alone it is not inductive, since a stale copy's stamp is written back |
| `TaskStore_proofs!MarksCorrect` | `Spec => []ArchiveMarks`: no live task keeps a deletion stamp the scheduler would act on | the same lemma |
| `TaskStore_proofs!AcyclicCorrect`, `LinksCorrect` | `Spec => []DepsAcyclic`, `Spec => []DepsExist` | each step leaves the graph, edits one task's list after `CheckDeps`, or purges a task on both sides (`StepGraph`) |
| `TaskStore_proofs!PurgeIsFinal` | `Spec => PurgedStaysPurged` | only `CreateTask` writes where there is no row, with a new id |
| `TaskStore_proofs!ScanCorrect` | `Spec => ScanRespectsDeps` | a scan's copy was outside the finished column when it was loaded (`ScanCopies`), so `plan_move` asks |
| `Editing_proofs!TypeCorrect` | `Spec => []TypeOK` | one step per action |
| `Editing_proofs!PlacedCorrect` | `Spec => []EveryTaskPlaced` | inductive with `TypeOK`; for any number of managers, from the foreign key |
| `Editing_proofs!RolesCorrect`, `NamesCorrect` | `Spec => []RolesExist`, `Spec => []NamesDiffer`, for any number of managers at once | inductive with `TypeOK`: a commit that is not overtaken in what it decides on decides on the table (`NotCrossed`), and what has crossed stays so (`CrossedGrows`) |
| `Editing_proofs!NamesTouchedCorrect` | `BoardFormSpec => []UpdateNamesTouched` | invariant `BoardFormInv`: in an open form every field that neither was changed by hand nor heard of shows what the form compares with (`Shows`), which for the days is the day count of a delay of whole days; so the delays in the row and in requests have to stay whole days |
| `Editing_proofs!ReferencesAlwaysHold` | `EditorSpec => []ReferencesHold` | invariant `EditorInv`: the program in the form is one that `validate` passes, but for the keys given up, and a window that is open fits it (`Fits`): its index is a step that is still there, the keys it offers are those of the others, what is ticked is on offer. `SetStepHolds`, `RemoveStepHolds` and `ShiftHolds` say what each change of the list keeps |
| `Editing_proofs!UntouchedStepAlwaysSurvives` | `EditorSpec => UntouchedStepSurvives` | invariant `TrackInv`: a field of the window whose target nobody touched holds what it was opened with, the members are ticked as the step picked them once they have come, and the rules are those of the step while their window is open; then field by field (`SavedSurvives`) that `values` turns back what `StepForm::new` did |
| `Editing_proofs!ProfileCorrect` | `SettingsSpec => []ProfileAsMeant` | invariant `HoldsMeant`: the form has the words and the paper that were meant and, until a refused save opens the advanced panel on another queue, the queue; the texts the panels have of their own are those of the form while their panel is open, so that storing one changes nothing (`StoreIsIdle`). A width nobody typed is always valid, so such a refusal means that paper was set by hand, and from then on no answer about paper is taken; that is what keeps the answer for the wrong queue out |
| `Editing_proofs!PrefsCorrect` | `SettingsSpec => []UntouchedPrefsSurvive` | invariant `ShowsOpened`, field by field: what was not changed shows what the form opened with, also where it is hidden; a refused save, the colours and the printer in front leave it so, and `SettingsValues` reads it back |
| `ProgramRun_proofs!TypeCorrect` | `Spec => []TypeOK` | invariant `Inv`: with `Linked` (every task's step is one of the run's, the root is the first task) and `Named`, since what the engine looks up in the run's steps is only there for its own tasks; `Applied` says once what the engine may do, and each request is a write followed by it |
| `ProgramRun_proofs!RootCorrect` | `Spec => []RootEndsRun` | invariant `Ended`: a request that was loaded with the root done commits after the end of the run; without it such a request could archive or move the root of a run that still reacts |
| `ProgramRun_proofs!OverCorrect` | `Spec => OverIsOver` | no request reaches the engine once the run is over, and its own write leaves questions alone |
| `ProgramRun_proofs!NotBeforeCorrect` | `Spec => NotBefore` | `NothingOwed`: what is owed afterwards was owed before the event, or is made, or asked by it, and each of the three keeps the root open |
| `ProgramRun_proofs!NotNeverCorrect` | `Spec => NotNever`, if no step lands in the finished column | with `Landed` and `Listed` (the run keeps the column it was started in; what the scheduler archives was finished when it was listed); whatever stops being owed is settled by an event, and `FinishesRoot` asks the same question the property asks |
| `PrintQueue_proofs!TypeCorrect` | `Spec => []TypeOK` | with `Bookkeeping`: everything under way names a job that was queued, and an answer that says printed is about a job on paper |
| `PrintQueue_proofs!PromiseKept` | `Spec => KeepsPromise` | every step maps to a step of `PrintJobs` or to none, from the same invariant: without `Bookkeeping` an acknowledgement could settle a slip that never came out. A job given up without an event is shown to be one that is purged or unreadable, which is all that `PrintJobs` lets be lost |
| `Scheduler_proofs!TypeCorrect` | `SlipsSpec => []TypeOK` | one step per lock hold |
| `Scheduler_proofs!HandedCorrect` | `SlipsSpec => []HandedOnce` | invariant: what is on its way to the queue, or was there, is marked (`Remembered`); no two of the handlers and the pass hold one slip (`OneHolder`); a reminder the pass looked up and has not marked has no mark, since only the pass sets those (`Undecided`). Any number of edits, moves and crashes: the start slip's key has no date in it, so an edited start does not make it another slip |
| `Scheduler_proofs!ChainTypeCorrect` | `ChainSpec => []ChainTypes` | one step per action, and a lemma for what the five saves write |
| `Scheduler_proofs!HandedOnCorrect` | `ChainSpec => HandedOnToOne` | invariant `Known`: rows, repetitions and the tick's list belong to ids that were handed out. So a copy is new to all three, and a step that is no restore, save or creation lets nothing repeat that did not before, but for the copy, which takes the place of the instance it is made of unless that one was outrun |
| `Scheduler_proofs!SurvivesCorrect` | `ChainSpec => ChainSurvives` | the same invariant: the instance that carries the chain goes on carrying it, is paused by the delete, or is the one that is copied, and then the copy carries the same rule unless it was replaced since |
| `Client_proofs!TypeCorrect` | `Spec => []TypeOK` of `ClientControl` | every answer and every step back has the fields that are read from it |
| `Client_proofs!OnceCorrect` | `Spec => OnceOrCancelled` | `Fresh`: what is armed, and what waits behind an opening board, has a number nobody acted with, unless it is sticky; the two may be the same arming only if it is |
| `Client_proofs!UndoCorrect` | `Spec => UndoOnlyItsOwn` | `Versions`: every step kept, sent, held by the daemon or answered names a version that a code left or that has been left behind since; so a write that overtakes somebody's is one whose row changed after the daemon compared it |
| `Client_proofs!AccessTypeCorrect` | `AccessSpec => []AccessTypes` | one step per action |
| `Client_proofs!SightCorrect` | `AccessSpec => []LosesSight`, with everybody at once | an invariant about everything on its way, as long as no changes have crossed: as long as the person may not see the board, a closing event is in somebody's hands, in the bus or behind the last answer that could open it (`ShownInv`), and likewise for the list (`ListedInv`); `Committing` says that a request publishes nothing before it commits. A commit that does not cross others changes the board that it loaded, so its audience is that of the board before the change |
| `Client_proofs!ScreensTypeCorrect` | `ScreensSpec => []ScreensTypes` | `Windows` spells out which window stands over which, three deep at most; one step per key and answer, with a lemma per way to change the windows (`ScreensKept`) |
| `Client_proofs!KeptCorrect` | `ScreensSpec => []KeepsWhatWasTyped` | invariant `Spared`: where a request is on its way, whatever can be typed into is its own form or was opened after it was sent, but for the requests for members, whose answer leaves every window as it is, and those of codes that act under any window. `Numbered` says that ids only grow, so that a new window is later than all requests |
| `Client_proofs!CopyCorrect` | `BoardSpec => []CopyCatchesUp` | invariant `BoardInv`: an event or answer about a card is in one of three places, not published, in the bus's queue, on the wire. While the first two hold nothing about a card, the last message about it on the wire brings the row as it is, and when there is none the board shows it (`Cards`); the newest event of the queue is the newest row (`Queued`, `Telling`, `Honest`) unless it was overtaken. A reply brings a row that may be old by then; its own event is still behind it, because events are not forwarded while a request is handled (`Answering`). `Sorted` says the same of the whole board, whose event only makes the client ask |

Only model-checked: the liveness properties (out of the prover's reach),
`RepeatRule`, `Templates` (whose walk is a recursive operator), `Transfer`,
`TaskForm`, and of the client everything but its other forms, `ClientControl`,
`Access`, `ClientScreens` and `ClientBoard`. `AcceptedKeepsDag`, `ArchiveMarks` and `NamesDiffer`
are proved and no run checks them; `UntouchedPrefsSurvive` is part of
`UntouchedSurvives` in the run.

## 7. Not modelled, and what is left

* Statistics (`core/stats.rs`, `forms/analytics.rs`): they aggregate recorded events
  for display and change nothing.
* Layout and rendering of slips, drawing of screens and forms, the widgets and their
  cursors: formatting.
* Configuration, authentication, start-up and sockets: plain I/O. The types of the
  protocol and their serialization, which serde derives.
* Of the task store: positions inside a column, `SetExcludeFromStats`. Of boards: the
  order of columns. Of programs: dates and time limits, the dependencies of the root,
  the sheets of a group, storing programs. Of templates: what a draft holds besides
  its dependencies, due prefills, averages. Of transfer: files of programs, the list
  of users, the file itself. Of permissions: the rights on single tasks of locked
  boards, on programs and templates. Of the bus: subscribing boards one by one. Of
  slips: the sheets of a group, and in `PrintTask` the slips other than the one at the
  finish.
* Of the client: the tiles of the dashboard, the help that stands over a window, codes
  for the statistics, the statistics panel, focus and rows of
  the codes panel, refused answers in it, and a client without a printer.

Next would be `next_instance` (`core/repeat.rs`), which shifts the dates of a copy,
next to `RepeatRule`; the tick as one machine over `TaskStore`, `Repeats` and `Slips`,
so that an error in one pass meets the others; and theorems about the lists of the
client (`PanelCatchesUp`) and the form for tasks.
