----------------------------- MODULE PrintQueue ------------------------------
(***************************************************************************)
(* The print queue of one user: the print_queue table (db/repo.rs), the    *)
(* registry of connected clients (bus.rs), the hand-out of jobs to the     *)
(* best connected printer (state.rs), the life of a connection             *)
(* (server.rs), the scheduler's housekeeping (scheduler.rs), and the       *)
(* client that prints and answers (crates/taskologic).                     *)
(*                                                                         *)
(* A hand-out is begun by whoever queues a slip, by a printer client that  *)
(* connects and by the scheduler, each on a thread of its own: it picks    *)
(* the client and reads the pending jobs, then marks and sends them one by *)
(* one.  Picking and reading are one step here, and so are marking and     *)
(* sending: what can come in between (the client goes away) has the same   *)
(* effect when it comes after the first or before the second.              *)
(*                                                                         *)
(* The table survives a restart of the daemon; the registry, the channels  *)
(* and every hand-out in progress do not.  A stamp is kept as its age in   *)
(* ticks, saturating at the delay it is compared with.                     *)
(*                                                                         *)
(* The table has no foreign key to tasks: a job outlives its task, and may *)
(* even be queued after it.  A job is stored as text, which another        *)
(* version of the daemon may not be able to read.                          *)
(***************************************************************************)
EXTENDS Naturals, Sequences

CONSTANTS
  Job,          \* job ids, numbers: AUTOINCREMENT, in order of creation
  Conn,         \* connection ids, numbers, in order of arrival
  Priority,     \* [Conn -> print_priority]
  Handler,      \* threads that queue slips
  Scheduler,    \* the scheduler's thread
  MaxAttempts,  \* MAX_PRINT_ATTEMPTS
  MaxAge,       \* print_job_max_age_secs in ticks; None: longer than we look
  Stale,        \* the two minutes of print_queue_housekeeping, in ticks
  MaxRestarts,  \* bound: restarts of the daemon
  Backlog,      \* bound: messages to and from one client before a job is given back
  Doomed,       \* bound: jobs that may lose their task or be found unreadable
  None

VARIABLES
  queue,     \* the print_queue table
  born,      \* jobs ever queued
  dropped,   \* jobs with a PrintJobDropped event
  untold,    \* jobs that were given up without one
  purged,    \* jobs whose task is purged
  garbled,   \* jobs whose text the running daemon cannot read
  paper,     \* jobs that came out of a printer at least once
  conn,      \* how far each connection is
  alive,     \* connections whose client process still runs
  registry,  \* the registered connections
  inbox,     \* jobs sent to a client and not printed yet
  acks,      \* its answers, not handled yet
  asked,     \* threads about to begin a hand-out
  agent,     \* per thread: the hand-out it is in
  step,      \* the next step of the scheduler's housekeeping
  restarts

vars == <<queue, born, dropped, untold, purged, garbled, paper, conn, alive, registry,
          inbox, acks, asked, agent, step, restarts>>
table == <<queue, born, dropped, untold, purged, garbled>>
clients == <<conn, alive, registry, inbox, acks, paper>>
threads == <<asked, agent>>

Agent == Handler \cup Conn \cup {Scheduler}
Age == IF MaxAge = None THEN {None} ELSE 0..MaxAge
Row == [age : Age, flight : (0..Stale) \cup {None}, attempts : 0..(MaxAttempts - 1)]
HandOut == [client : Conn, jobs : SUBSET Job, since : 0..Stale]

ASSUME IdsAreNumbers == Job \subseteq Nat /\ Conn \subseteq Nat
ASSUME DoomedAreJobs == Doomed \subseteq Job
ASSUME PrioritiesGiven == Priority \in [Conn -> Nat]
ASSUME LimitsAreNumbers ==
  /\ MaxAttempts \in Nat \ {0} /\ Stale \in Nat /\ Backlog \in Nat /\ MaxRestarts \in Nat
  /\ MaxAge \in Nat \cup {None}
ASSUME NoneIsNothing == None \notin Nat /\ None \notin Row /\ None \notin HandOut

TypeOK ==
  /\ queue \in [Job -> Row \cup {None}]
  /\ born \subseteq Job /\ paper \subseteq born
  /\ dropped \subseteq born /\ untold \subseteq born
  /\ purged \subseteq Doomed /\ garbled \subseteq Doomed
  /\ conn \in [Conn -> {"new", "hello", "serving", "ended"}]
  /\ alive \subseteq Conn /\ registry \subseteq Conn
  /\ inbox \in [Conn -> Seq(Job)]
  /\ acks \in [Conn -> Seq([job : Job, ok : BOOLEAN])]
  /\ asked \subseteq Agent
  /\ agent \in [Agent -> HandOut \cup {None}]
  /\ step \in {"expire", "release", "dispatch"}
  /\ restarts \in 0..MaxRestarts

Init ==
  /\ queue = [j \in Job |-> None]
  /\ born = {} /\ paper = {} /\ dropped = {} /\ untold = {} /\ purged = {} /\ garbled = {}
  /\ conn = [c \in Conn |-> "new"]
  /\ alive = {} /\ registry = {}
  /\ inbox = [c \in Conn |-> <<>>]
  /\ acks = [c \in Conn |-> <<>>]
  /\ asked = {} /\ agent = [a \in Agent |-> None]
  /\ step = "expire"
  /\ restarts = 0

Queued(j) == queue[j] # None

-----------------------------------------------------------------------------
(* db/repo.rs                                                              *)

Expired(r) == r.age = MaxAge /\ MaxAge # None

\* What no client has, the text unread, and what of it can be handed out.
Waiting == {j \in Job : Queued(j) /\ ~ Expired(queue[j]) /\ queue[j].flight = None}
Pending == Waiting \ garbled

\* UPDATE ... WHERE id: a row that is gone stays gone.
MarkInFlight(j, since) ==
  [queue EXCEPT ![j] = IF @ = None THEN None ELSE [@ EXCEPT !.flight = since]]

Without(S) == [j \in Job |-> IF j \in S THEN None ELSE queue[j]]

\* "A dropped job leaves a trace in the event log.  Skipped silently when the
\* task is already purged", and when the text cannot be read.
Traceless == purged \cup garbled

RecordPrintDrop(S) ==
  /\ dropped' = dropped \cup (S \ Traceless)
  /\ untold' = untold \cup (S \cap Traceless)

\* AckPrintJob without an error deletes the row, whatever has happened to it.
AckPrintOk(j) ==
  /\ queue' = Without({j})
  /\ UNCHANGED <<dropped, untold>>

LastTry(j) == queue[j].attempts + 1 >= MaxAttempts

Requeued(r) == [r EXCEPT !.attempts = @ + 1, !.flight = None]

\* Faulty variant: a job that fails too often goes without a trace.
AckPrintErrSilent(j) ==
  /\ queue' = IF ~ Queued(j) THEN queue
              ELSE IF LastTry(j) THEN Without({j})
              ELSE [queue EXCEPT ![j] = Requeued(@)]
  /\ UNCHANGED <<dropped, untold>>

\* With an error it goes back to pending, or is dropped at the limit; for a
\* row that is gone the handler answers with an error and changes nothing.
AckPrintErr(j) ==
  \/ ~ Queued(j) /\ UNCHANGED <<queue, dropped, untold>>
  \/ Queued(j) /\ LastTry(j) /\ queue' = Without({j}) /\ RecordPrintDrop({j})
  \/ /\ Queued(j) /\ ~ LastTry(j)
     /\ queue' = [queue EXCEPT ![j] = Requeued(@)]
     /\ UNCHANGED <<dropped, untold>>

-----------------------------------------------------------------------------
(* Queueing and handing out (state.rs, bus.rs).                            *)

\* The highest priority, and the oldest connection among equals.
PrinterFor ==
  {c \in registry : \A d \in registry : \/ Priority[c] > Priority[d]
                                        \/ Priority[c] = Priority[d] /\ c <= d}

First(S) == {x \in S : \A y \in S : x <= y}

Idle(a) == a \notin asked /\ agent[a] = None

EnqueuePrint(h) ==
  /\ Idle(h)
  /\ \E j \in First(Job \ born) :
       /\ queue' = [queue EXCEPT ![j] = [age |-> IF MaxAge = None THEN None ELSE 0,
                                         flight |-> None, attempts |-> 0]]
       /\ born' = born \cup {j}
  /\ asked' = asked \cup {h}
  /\ UNCHANGED <<dropped, untold, purged, garbled, clients, agent, step, restarts>>

\* printer_for and pending_print_jobs; with nobody connected nothing happens.
BeginHandOut(a) ==
  /\ a \in asked
  /\ asked' = asked \ {a}
  /\ \/ registry = {} /\ UNCHANGED agent
     \/ \E c \in PrinterFor :
          agent' = [agent EXCEPT ![a] = [client |-> c, jobs |-> Pending, since |-> 0]]
  /\ UNCHANGED <<table, clients, step, restarts>>

InHandOut(a) == agent[a] # None

\* The channel to a client is there as long as its connection is.
Listening(c) == conn[c] \in {"hello", "serving"}

\* The next job is marked and sent.  When the send fails the rest is left.
HandNext(a) ==
  /\ InHandOut(a)
  /\ \E j \in First(agent[a].jobs) : LET c == agent[a].client IN
       /\ queue' = MarkInFlight(j, agent[a].since)
       /\ IF Listening(c)
          THEN /\ inbox' = [inbox EXCEPT ![c] = Append(@, j)]
               /\ agent' = [agent EXCEPT ![a].jobs = @ \ {j}]
          ELSE /\ UNCHANGED inbox
               /\ agent' = [agent EXCEPT ![a] = None]
  /\ UNCHANGED <<born, dropped, untold, purged, garbled>>
  /\ UNCHANGED <<conn, alive, registry, acks, paper, asked, step, restarts>>

EndHandOut(a) ==
  /\ InHandOut(a) /\ agent[a].jobs = {}
  /\ agent' = [agent EXCEPT ![a] = None]
  /\ UNCHANGED <<table, clients, asked, step, restarts>>

-----------------------------------------------------------------------------
(* A connection (server.rs) and the client at its other end.               *)

\* The loop of serve runs: the drain at the start is over.
Served(c) == conn[c] = "serving" /\ Idle(c)

\* Hello is accepted: the client is registered before it is welcomed.
Register(c) ==
  /\ conn[c] = "new" /\ \A d \in Conn : d < c => conn[d] # "new"
  /\ conn' = [conn EXCEPT ![c] = "hello"]
  /\ alive' = alive \cup {c}
  /\ registry' = registry \cup {c}
  /\ UNCHANGED <<table, inbox, acks, paper, threads, step, restarts>>

\* The welcome is written and the queue drained to the best printer.
Greet(c) ==
  /\ conn[c] = "hello"
  /\ conn' = [conn EXCEPT ![c] = "serving"]
  /\ asked' = asked \cup {c}
  /\ UNCHANGED <<table, alive, registry, inbox, acks, paper, agent, step, restarts>>

\* The welcome cannot be written: connection returns with the error.
GreetFails(c) ==
  /\ conn[c] = "hello" /\ c \notin alive
  /\ conn' = [conn EXCEPT ![c] = "ended"]
  /\ inbox' = [inbox EXCEPT ![c] = <<>>]
  /\ UNCHANGED <<table, alive, registry, acks, paper, threads, step, restarts>>

\* A printed or failed job is answered; prints run side by side.
PrintSlip(c, ok) ==
  /\ c \in alive /\ Served(c)
  /\ \E i \in DOMAIN inbox[c] :
       /\ acks' = [acks EXCEPT ![c] = Append(@, [job |-> inbox[c][i], ok |-> ok])]
       /\ inbox' = [inbox EXCEPT ![c] = SubSeq(@, 1, i - 1) \o SubSeq(@, i + 1, Len(@))]
       /\ paper' = IF ok THEN paper \cup {inbox[c][i]} ELSE paper
  /\ UNCHANGED <<table, conn, alive, registry, threads, step, restarts>>

\* Answers a client wrote before it went away are still read.
AckPrintJob(c) ==
  /\ Served(c) /\ acks[c] # <<>>
  /\ LET a == Head(acks[c]) IN IF a.ok THEN AckPrintOk(a.job) ELSE AckPrintErr(a.job)
  /\ acks' = [acks EXCEPT ![c] = Tail(@)]
  /\ UNCHANGED <<born, purged, garbled, conn, alive, registry, inbox, paper, threads, step, restarts>>

\* The client quits, is killed or loses its terminal.
ClientGone(c) ==
  /\ c \in alive
  /\ alive' = alive \ {c}
  /\ UNCHANGED <<table, conn, registry, inbox, acks, paper, threads, step, restarts>>

\* serve returns, at the end of the stream or at a write that fails.
Unregister(c) ==
  /\ Served(c) /\ c \notin alive
  /\ conn' = [conn EXCEPT ![c] = "ended"]
  /\ registry' = registry \ {c}
  /\ inbox' = [inbox EXCEPT ![c] = <<>>]
  /\ acks' = [acks EXCEPT ![c] = <<>>]
  /\ UNCHANGED <<table, alive, paper, threads, step, restarts>>

-----------------------------------------------------------------------------
(* print_queue_housekeeping (scheduler.rs), three lock holds and a hand-out.*)

OutOfTime == {j \in Job : Queued(j) /\ Expired(queue[j])}

\* Faulty variant: only what no printer ever tried runs out of time.
ExpirePrintJobsUntried ==
  /\ step = "expire" /\ Idle(Scheduler)
  /\ LET S == {j \in OutOfTime : queue[j].attempts = 0} IN
       queue' = Without(S) /\ RecordPrintDrop(S)
  /\ step' = "release"
  /\ UNCHANGED <<born, purged, garbled, clients, threads, restarts>>

ExpirePrintJobs ==
  /\ step = "expire" /\ Idle(Scheduler)
  /\ queue' = Without(OutOfTime) /\ RecordPrintDrop(OutOfTime)
  /\ step' = "release"
  /\ UNCHANGED <<born, purged, garbled, clients, threads, restarts>>

\* Faulty variant: nothing is ever given back.
ReleaseNothing ==
  /\ step = "release"
  /\ step' = "dispatch"
  /\ UNCHANGED <<table, clients, threads, restarts>>

Stalled == {j \in Job : Queued(j) /\ queue[j].flight = Stale}

\* Bound: nothing is given back while so much is under way to one client.
Crowded == \E c \in Conn : Len(inbox[c]) + Len(acks[c]) >= Backlog

\* "A client that took a job and vanished without an ack: give it back."
ReleaseStaleInFlight ==
  /\ step = "release"
  /\ queue' = [j \in Job |-> IF j \in Stalled /\ ~ Crowded
                             THEN [queue[j] EXCEPT !.flight = None] ELSE queue[j]]
  /\ step' = "dispatch"
  /\ UNCHANGED <<born, dropped, untold, purged, garbled, clients, threads, restarts>>

\* The pass ends with a hand-out for everybody who has a job waiting.
DispatchPending ==
  /\ step = "dispatch"
  /\ asked' = IF Waiting = {} THEN asked ELSE asked \cup {Scheduler}
  /\ step' = "expire"
  /\ UNCHANGED <<table, clients, agent, restarts>>

Older(age, limit) == IF age = None \/ age = limit THEN age ELSE age + 1

TimePasses ==
  /\ queue' = [j \in Job |-> IF Queued(j)
                             THEN [queue[j] EXCEPT !.age = Older(@, MaxAge),
                                                   !.flight = Older(@, Stale)]
                             ELSE None]
  /\ agent' = [a \in Agent |-> IF InHandOut(a)
                               THEN [agent[a] EXCEPT !.since = Older(@, Stale)]
                               ELSE agent[a]]
  /\ UNCHANGED <<born, dropped, untold, purged, garbled, clients, asked, step, restarts>>

\* Tasks are purged, or deleted with their board, whatever is queued for them.
Purge ==
  /\ \E S \in SUBSET (Doomed \ purged) : S # {} /\ purged' = purged \cup S
  /\ UNCHANGED <<queue, born, dropped, untold, garbled, clients, threads, step, restarts>>

\* The daemon stops or crashes and comes back with its database, perhaps in
\* another version.
Restart ==
  /\ restarts < MaxRestarts
  /\ restarts' = restarts + 1
  /\ conn' = [c \in Conn |-> IF conn[c] = "new" THEN "new" ELSE "ended"]
  /\ alive' = {} /\ registry' = {}
  /\ inbox' = [c \in Conn |-> <<>>]
  /\ acks' = [c \in Conn |-> <<>>]
  /\ asked' = {} /\ agent' = [a \in Agent |-> None]
  /\ step' = "expire"
  /\ garbled' \in SUBSET (born \cap Doomed)
  /\ UNCHANGED <<queue, born, dropped, untold, purged, paper>>

-----------------------------------------------------------------------------
Housekeeping == ExpirePrintJobs \/ ReleaseStaleInFlight \/ DispatchPending

HandingOut(a) == BeginHandOut(a) \/ HandNext(a) \/ EndHandOut(a)

Serving(c) == Greet(c) \/ GreetFails(c) \/ AckPrintJob(c) \/ Unregister(c)

Next ==
  \/ \E h \in Handler : EnqueuePrint(h)
  \/ \E a \in Agent : HandingOut(a)
  \/ \E c \in Conn : Register(c) \/ Serving(c) \/ ClientGone(c)
  \/ \E c \in Conn, ok \in BOOLEAN : PrintSlip(c, ok)
  \/ Housekeeping \/ TimePasses \/ Purge \/ Restart

Spec == Init /\ [][Next]_vars

(* The scheduler ticks for ever, a thread in a hand-out goes on, a         *)
(* connection handles what arrives and notices a client that is gone, a    *)
(* client prints what it is sent, time passes.  Nobody has to connect, to  *)
(* queue anything, or to have a printer that works.                        *)
Fairness ==
  /\ WF_vars(Housekeeping) /\ WF_vars(TimePasses)
  /\ \A a \in Agent : WF_vars(HandingOut(a))
  /\ \A c \in Conn : WF_vars(Serving(c)) /\ WF_vars(\E ok \in BOOLEAN : PrintSlip(c, ok))

FairSpec == Spec /\ Fairness

-----------------------------------------------------------------------------
Outcome == [j \in Job |->
  IF j \notin born THEN "new" ELSE IF Queued(j) THEN "queued"
  ELSE IF j \in dropped THEN "dropped" ELSE IF j \in untold THEN "lost" ELSE "done"]

Promise == INSTANCE PrintJobs WITH outcome <- Outcome, traceless <- Traceless

\* The queue keeps its promise: with several hand-outs at once, answers that
\* come late or twice, clients that vanish, tasks that are purged and a daemon
\* that restarts, a job leaves the table only printed, or with its
\* PrintJobDropped event, or without one when its task is purged or its text
\* cannot be read.
KeepsPromise == Promise!Spec

\* No slip waits for ever: every job is printed and acknowledged, or dropped.
JobsSettle == \A j \in Job : Queued(j) ~> ~ Queued(j)

\* A printer that can be reached: its connection is served and its client
\* runs.
Ready(c) == conn[c] = "serving" /\ c \in alive

\* dispatch_print_jobs: "Hand every pending job for `uid` to their best
\* connected printer client, if there is one."  While the job stays queued
\* and legible and some printer is connected, it reaches a connected printer
\* (again and again, if that printer does not answer).
ReachesAPrinter ==
  \A j \in Job : <>[](Queued(j) /\ j \notin garbled /\ \E c \in Conn : Ready(c))
     => []<>(\E c \in Conn : Ready(c) /\ \E i \in DOMAIN inbox[c] : inbox[c][i] = j)
=============================================================================
