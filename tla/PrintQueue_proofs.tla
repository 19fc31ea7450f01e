-------------------------- MODULE PrintQueue_proofs --------------------------
(***************************************************************************)
(* The print queue keeps its promise for any number of jobs, connections   *)
(* and threads, any limits and any number of restarts.                     *)
(*                                                                         *)
(* Why a row may be deleted on a positive answer: every positive answer    *)
(* that is under way is for a slip that came out.  That is the invariant;  *)
(* whether the job is in flight, to whom, and how often does not matter.   *)
(***************************************************************************)
EXTENDS PrintQueue, SequenceTheorems, TLAPS

\* Answers a client may have written.
Answer == {a \in [job : born, ok : BOOLEAN] : a.ok => a.job \in paper}

\* A job in the table was queued and is not given up; whatever is under way
\* was queued, and positive answers are true.
Bookkeeping ==
  /\ \A j \in Job : Queued(j) => j \in born /\ j \notin dropped /\ j \notin untold
  /\ inbox \in [Conn -> Seq(born)]
  /\ acks \in [Conn -> Seq(Answer)]
  /\ \A a \in Agent : InHandOut(a) => agent[a].jobs \subseteq born

IInv == TypeOK /\ Bookkeeping

(* Rows.                                                                   *)
LEMMA RowWrites ==
  ASSUME NEW r \in Row
  PROVE  /\ \A f \in (0..Stale) \cup {None} : [r EXCEPT !.flight = f] \in Row
         /\ r.attempts + 1 < MaxAttempts => Requeued(r) \in Row
         /\ [r EXCEPT !.age = Older(@, MaxAge), !.flight = Older(@, Stale)] \in Row
<1>1. r.attempts \in 0..(MaxAttempts - 1) /\ r.flight \in (0..Stale) \cup {None} /\ r.age \in Age
  BY DEF Row
<1>2. \A f \in (0..Stale) \cup {None} : [r EXCEPT !.flight = f] \in Row
  BY DEF Row
<1>3. ASSUME r.attempts + 1 < MaxAttempts
      PROVE  Requeued(r) \in Row
  <2>1. r.attempts + 1 \in 0..(MaxAttempts - 1)
    BY <1>1, <1>3, LimitsAreNumbers
  <2>2. [r EXCEPT !.attempts = @ + 1] \in Row
    BY <2>1 DEF Row
  <2>3. Requeued(r) = [[r EXCEPT !.attempts = @ + 1] EXCEPT !.flight = None]
    BY DEF Requeued
  <2> QED
    BY <2>2, <2>3 DEF Row
<1>4. [r EXCEPT !.age = Older(@, MaxAge), !.flight = Older(@, Stale)] \in Row
  <2>1. Older(r.age, MaxAge) \in Age
    BY <1>1, LimitsAreNumbers, NoneIsNothing DEF Older, Age
  <2>2. Older(r.flight, Stale) \in (0..Stale) \cup {None}
    BY <1>1, LimitsAreNumbers, NoneIsNothing DEF Older
  <2>3. [r EXCEPT !.age = Older(@, MaxAge)] \in Row
    BY <2>1 DEF Row
  <2>4. [r EXCEPT !.age = Older(@, MaxAge), !.flight = Older(@, Stale)]
          = [[r EXCEPT !.age = Older(r.age, MaxAge)] EXCEPT !.flight = Older(r.flight, Stale)]
    OBVIOUS
  <2> QED
    BY <2>2, <2>3, <2>4 DEF Row
<1> QED
  BY <1>2, <1>3, <1>4

(* Sequences.                                                              *)
LEMMA SeqWithout ==
  ASSUME NEW S, NEW s \in Seq(S), NEW i \in DOMAIN s
  PROVE  /\ s[i] \in S
         /\ SubSeq(s, 1, i - 1) \o SubSeq(s, i + 1, Len(s)) \in Seq(S)
<1>1. Len(s) \in Nat /\ i \in 1..Len(s) /\ \A k \in 1..Len(s) : s[k] \in S
  BY LenProperties, ElementOfSeq
<1>2. SubSeq(s, 1, i - 1) \in Seq(S)
  <2>1. \A k \in 1..(i - 1) : s[k] \in S
    BY <1>1
  <2> QED
    BY <1>1, <2>1, SubSeqProperties
<1>3. SubSeq(s, i + 1, Len(s)) \in Seq(S)
  <2>1. \A k \in (i + 1)..Len(s) : s[k] \in S
    BY <1>1
  <2> QED
    BY <1>1, <2>1, SubSeqProperties
<1> QED
  BY <1>1, <1>2, <1>3, ConcatProperties

(* Nothing under way is affected when jobs are queued or slips come out.   *)
LEMMA Monotonic ==
  ASSUME IInv, born \subseteq born', paper \subseteq paper'
  PROVE  /\ inbox \in [Conn -> Seq(born')]
         /\ acks \in [Conn -> Seq(Answer')]
         /\ Answer \subseteq Answer'
<1>1. Answer \subseteq Answer'
  BY DEF Answer
<1>2. inbox \in [Conn -> Seq(born)] /\ acks \in [Conn -> Seq(Answer)]
  BY DEF IInv, Bookkeeping
<1>3. ASSUME NEW c \in Conn
      PROVE  inbox[c] \in Seq(born') /\ acks[c] \in Seq(Answer')
  BY <1>1, <1>2, SeqMonotonic
<1> QED
  BY <1>1, <1>2, <1>3

LEMMA InitHolds == Init => IInv
<1> SUFFICES ASSUME Init PROVE IInv
  OBVIOUS
<1>1. TypeOK
  BY LimitsAreNumbers, EmptySeq DEF Init, TypeOK
<1>2. Bookkeeping
  BY EmptySeq DEF Init, Bookkeeping, Queued, InHandOut
<1> QED
  BY <1>1, <1>2 DEF IInv

LEMMA EnqueueStep ==
  ASSUME IInv, NEW h \in Handler, EnqueuePrint(h)
  PROVE  IInv'
<1> USE DEF IInv, table, clients, threads
<1>1. PICK j \in Job \ born :
        /\ queue' = [queue EXCEPT ![j] = [age |-> IF MaxAge = None THEN None ELSE 0,
                                         flight |-> None, attempts |-> 0]]
        /\ born' = born \cup {j}
  BY DEF EnqueuePrint, First
<1>2. [age |-> IF MaxAge = None THEN None ELSE 0, flight |-> None, attempts |-> 0] \in Row
  BY LimitsAreNumbers DEF Row, Age
<1>3. TypeOK'
  BY <1>1, <1>2 DEF TypeOK, EnqueuePrint, Agent
<1>4. Bookkeeping'
  <2>1. born \subseteq born' /\ paper \subseteq paper' /\ inbox' = inbox /\ acks' = acks
    BY <1>1 DEF EnqueuePrint
  <2>2. inbox' \in [Conn -> Seq(born')] /\ acks' \in [Conn -> Seq(Answer')]
    BY <2>1, Monotonic
  <2>3. \A k \in Job : Queued(k)' => k \in born' /\ k \notin dropped' /\ k \notin untold'
    BY <1>1 DEF Bookkeeping, Queued, EnqueuePrint, TypeOK
  <2>4. \A a \in Agent : InHandOut(a)' => agent'[a].jobs \subseteq born'
    BY <1>1 DEF Bookkeeping, InHandOut, EnqueuePrint
  <2> QED
    BY <2>2, <2>3, <2>4 DEF Bookkeeping
<1> QED
  BY <1>3, <1>4

(* Steps that leave the table and the paper alone.                         *)
LEMMA QuietStep ==
  ASSUME IInv, UNCHANGED <<table, paper>>,
         TypeOK',
         inbox' \in [Conn -> Seq(born)], acks' \in [Conn -> Seq(Answer)],
         \A a \in Agent : InHandOut(a)' => agent'[a].jobs \subseteq born
  PROVE  IInv'
<1>1. Answer' = Answer
  BY DEF Answer, table
<1> QED
  BY <1>1 DEF IInv, Bookkeeping, Queued, table

LEMMA BeginStep ==
  ASSUME IInv, NEW a \in Agent, BeginHandOut(a)
  PROVE  IInv'
<1> USE DEF table, clients
<1>1. Pending \subseteq Job /\ Pending \subseteq born
  BY DEF Pending, Waiting, IInv, Bookkeeping
<1>2. \A c \in PrinterFor : [client |-> c, jobs |-> Pending, since |-> 0] \in HandOut
  BY <1>1, LimitsAreNumbers DEF PrinterFor, HandOut, IInv, TypeOK
<1>3. TypeOK'
  BY <1>2 DEF IInv, TypeOK, BeginHandOut
<1>4. \A b \in Agent : InHandOut(b)' => agent'[b].jobs \subseteq born
  BY <1>1 DEF IInv, TypeOK, Bookkeeping, InHandOut, BeginHandOut
<1>5. inbox' \in [Conn -> Seq(born)] /\ acks' \in [Conn -> Seq(Answer)]
  BY DEF IInv, Bookkeeping, BeginHandOut
<1>6. UNCHANGED <<table, paper>>
  BY DEF BeginHandOut
<1> QED
  BY <1>3, <1>4, <1>5, <1>6, QuietStep

LEMMA HandStep ==
  ASSUME IInv, NEW a \in Agent, HandNext(a)
  PROVE  IInv'
<1> USE DEF table, clients
<1>1. agent[a] \in HandOut /\ agent[a].jobs \subseteq born /\ agent[a].client \in Conn
        /\ agent[a].since \in 0..Stale /\ agent[a].jobs \subseteq Job
  BY DEF HandNext, InHandOut, IInv, TypeOK, Bookkeeping, HandOut
<1>2. PICK j \in agent[a].jobs :
        /\ queue' = MarkInFlight(j, agent[a].since)
        /\ IF Listening(agent[a].client)
           THEN /\ inbox' = [inbox EXCEPT ![agent[a].client] = Append(@, j)]
                /\ agent' = [agent EXCEPT ![a].jobs = @ \ {j}]
           ELSE /\ UNCHANGED inbox
                /\ agent' = [agent EXCEPT ![a] = None]
  BY DEF HandNext, First
<1>3. queue' \in [Job -> Row \cup {None}] /\ \A k \in Job : Queued(k)' <=> Queued(k)
  <2>1. queue \in [Job -> Row \cup {None}] /\ j \in Job
    BY <1>1, <1>2 DEF IInv, TypeOK
  <2>2. queue[j] # None => [queue[j] EXCEPT !.flight = agent[a].since] \in Row
    BY <1>1, <2>1, RowWrites
  <2> QED
    BY <1>2, <2>1, <2>2, NoneIsNothing DEF MarkInFlight, Queued
<1>4. agent' \in [Agent -> HandOut \cup {None}]
        /\ \A b \in Agent : InHandOut(b)' => agent'[b].jobs \subseteq born
  <2>1. [agent[a] EXCEPT !.jobs = @ \ {j}] \in HandOut
    BY <1>1 DEF HandOut
  <2>2. [agent[a] EXCEPT !.jobs = @ \ {j}].jobs \subseteq born
    BY <1>1 DEF HandOut
  <2>3. \/ agent' = [agent EXCEPT ![a] = [agent[a] EXCEPT !.jobs = @ \ {j}]]
        \/ agent' = [agent EXCEPT ![a] = None]
    BY <1>2
  <2> QED
    BY <2>1, <2>2, <2>3 DEF IInv, TypeOK, Bookkeeping, InHandOut
<1>5. inbox' \in [Conn -> Seq(born)]
  <2>1. Append(inbox[agent[a].client], j) \in Seq(born)
    BY <1>1, <1>2, AppendProperties DEF IInv, Bookkeeping
  <2> QED
    BY <1>2, <2>1 DEF IInv, Bookkeeping
<1>6. inbox' \in [Conn -> Seq(Job)]
  BY <1>5, SeqMonotonic DEF IInv, TypeOK
<1>7. UNCHANGED <<born, dropped, untold, purged, garbled, conn, alive, registry, acks, paper, asked, step, restarts>>
  BY DEF HandNext
<1>8. TypeOK'
  BY <1>3, <1>4, <1>6, <1>7 DEF IInv, TypeOK
<1>9. Answer' = Answer
  BY <1>7 DEF Answer
<1>10. Bookkeeping'
  BY <1>3, <1>4, <1>5, <1>7, <1>9 DEF IInv, Bookkeeping
<1> QED
  BY <1>8, <1>10 DEF IInv

(* Connections come and go: at most a channel is emptied.                  *)
LEMMA ConnectionStep ==
  ASSUME IInv, NEW c \in Conn,
         Register(c) \/ Greet(c) \/ GreetFails(c) \/ ClientGone(c) \/ Unregister(c)
  PROVE  IInv'
<1> USE DEF table, clients, threads
<1>1. UNCHANGED <<table, paper, agent, step, restarts>>
  BY DEF Register, Greet, GreetFails, ClientGone, Unregister
<1>2. /\ conn' \in [Conn -> {"new", "hello", "serving", "ended"}]
      /\ alive' \subseteq Conn /\ registry' \subseteq Conn /\ asked' \subseteq Agent
  BY DEF Register, Greet, GreetFails, ClientGone, Unregister, IInv, TypeOK, Agent
<1>e. /\ inbox' \in {inbox, [inbox EXCEPT ![c] = <<>>]}
      /\ acks' \in {acks, [acks EXCEPT ![c] = <<>>]}
  BY DEF Register, Greet, GreetFails, ClientGone, Unregister
<1>3. inbox' \in [Conn -> Seq(born)] /\ acks' \in [Conn -> Seq(Answer)]
  <2>1. inbox \in [Conn -> Seq(born)] /\ acks \in [Conn -> Seq(Answer)]
    BY DEF IInv, Bookkeeping
  <2>2. <<>> \in Seq(born) /\ <<>> \in Seq(Answer)
    BY EmptySeq
  <2> QED
    BY <1>e, <2>1, <2>2
<1>4. inbox' \in [Conn -> Seq(Job)] /\ acks' \in [Conn -> Seq([job : Job, ok : BOOLEAN])]
  <2>1. inbox \in [Conn -> Seq(Job)] /\ acks \in [Conn -> Seq([job : Job, ok : BOOLEAN])]
    BY DEF IInv, TypeOK
  <2>2. <<>> \in Seq(Job) /\ <<>> \in Seq([job : Job, ok : BOOLEAN])
    BY EmptySeq
  <2> QED
    BY <1>e, <2>1, <2>2
<1>5. TypeOK'
  BY <1>1, <1>2, <1>4 DEF IInv, TypeOK
<1>6. \A a \in Agent : InHandOut(a)' => agent'[a].jobs \subseteq born
  BY <1>1 DEF IInv, Bookkeeping, InHandOut
<1> QED
  BY <1>1, <1>3, <1>5, <1>6, QuietStep

LEMMA PrintStep ==
  ASSUME IInv, NEW c \in Conn, NEW ok \in BOOLEAN, PrintSlip(c, ok)
  PROVE  IInv'
<1> USE DEF table, clients, threads
<1>1. PICK i \in DOMAIN inbox[c] :
        /\ acks' = [acks EXCEPT ![c] = Append(@, [job |-> inbox[c][i], ok |-> ok])]
        /\ inbox' = [inbox EXCEPT ![c] = SubSeq(@, 1, i - 1) \o SubSeq(@, i + 1, Len(@))]
        /\ paper' = IF ok THEN paper \cup {inbox[c][i]} ELSE paper
  BY DEF PrintSlip
<1>2. UNCHANGED <<queue, born, dropped, untold, purged, garbled, conn, alive, registry, asked, agent, step, restarts>>
  BY DEF PrintSlip
<1>3. inbox \in [Conn -> Seq(born)] /\ inbox[c] \in Seq(born) /\ born \subseteq Job
  BY DEF IInv, Bookkeeping, TypeOK
<1>4. inbox[c][i] \in born
        /\ SubSeq(inbox[c], 1, i - 1) \o SubSeq(inbox[c], i + 1, Len(inbox[c])) \in Seq(born)
  BY <1>3, SeqWithout
<1>5. inbox' \in [Conn -> Seq(born)]
  BY <1>1, <1>3, <1>4
<1>6. paper \subseteq paper' /\ paper' \subseteq born
  BY <1>1, <1>4 DEF IInv, TypeOK
<1>7. [job |-> inbox[c][i], ok |-> ok] \in Answer'
  BY <1>1, <1>2, <1>4 DEF Answer
<1>8. acks \in [Conn -> Seq(Answer')]
  BY <1>2, <1>6, Monotonic
<1>9. acks' \in [Conn -> Seq(Answer')]
  <2>1. Append(acks[c], [job |-> inbox[c][i], ok |-> ok]) \in Seq(Answer')
    BY <1>7, <1>8, AppendProperties
  <2> QED
    BY <1>1, <1>8, <2>1
<1>10. TypeOK'
  <2>1. inbox' \in [Conn -> Seq(Job)]
    BY <1>3, <1>5, SeqMonotonic
  <2>2. Answer' \subseteq [job : Job, ok : BOOLEAN]
    BY <1>2, <1>3 DEF Answer
  <2>3. acks' \in [Conn -> Seq([job : Job, ok : BOOLEAN])]
    BY <1>9, <2>2, SeqMonotonic
  <2> QED
    BY <1>2, <1>6, <2>1, <2>3 DEF IInv, TypeOK
<1>11. Bookkeeping'
  BY <1>2, <1>5, <1>9 DEF IInv, Bookkeeping, Queued, InHandOut
<1> QED
  BY <1>10, <1>11 DEF IInv

LEMMA AckStep ==
  ASSUME IInv, NEW c \in Conn, AckPrintJob(c)
  PROVE  IInv'
<1>1. acks[c] \in Seq(Answer) /\ acks[c] # <<>> /\ acks \in [Conn -> Seq(Answer)]
  BY DEF IInv, Bookkeeping, AckPrintJob
<1>2. Head(acks[c]) \in Answer /\ Tail(acks[c]) \in Seq(Answer)
  BY <1>1, HeadTailProperties
<1> DEFINE j == Head(acks[c]).job
<1>3. j \in born /\ j \in Job
  BY <1>2 DEF Answer, IInv, TypeOK
<1>4. UNCHANGED <<born, purged, garbled, conn, alive, registry, inbox, paper, asked, agent,
                  step, restarts>>
  BY DEF AckPrintJob, threads
<1>5. AckPrintOk(j) \/ AckPrintErr(j)
  BY DEF AckPrintJob
<1>6. /\ queue' \in [Job -> Row \cup {None}]
      /\ dropped' \subseteq born /\ untold' \subseteq born
      /\ \A k \in Job : Queued(k)' => k \in born /\ k \notin dropped' /\ k \notin untold'
  <2>1. queue \in [Job -> Row \cup {None}] /\ dropped \subseteq born /\ untold \subseteq born
          /\ \A k \in Job : Queued(k) => k \in born /\ k \notin dropped /\ k \notin untold
    BY DEF IInv, TypeOK, Bookkeeping
  <2>2. CASE AckPrintOk(j)
    BY <1>3, <2>1, <2>2 DEF AckPrintOk, Without, Queued
  <2>3. CASE ~ Queued(j) /\ UNCHANGED <<queue, dropped, untold>>
    BY <2>1, <2>3 DEF Queued
  <2>4. CASE queue' = Without({j}) /\ RecordPrintDrop({j})
    BY <1>3, <2>1, <2>4 DEF Without, RecordPrintDrop, Queued
  <2>5. CASE /\ Queued(j) /\ ~ LastTry(j)
             /\ queue' = [queue EXCEPT ![j] = Requeued(@)]
             /\ UNCHANGED <<dropped, untold>>
    <3>1. queue[j] \in Row
      BY <1>3, <2>1, <2>5 DEF Queued
    <3>2. queue[j].attempts + 1 < MaxAttempts
      BY <2>5, <3>1, LimitsAreNumbers DEF Row, LastTry
    <3>3. Requeued(queue[j]) \in Row
      BY <3>1, <3>2, RowWrites
    <3>4. queue' = [queue EXCEPT ![j] = Requeued(queue[j])]
      BY <2>5
    <3> QED
      BY <1>3, <2>1, <2>5, <3>3, <3>4 DEF Queued
  <2> QED
    BY <1>5, <2>2, <2>3, <2>4, <2>5 DEF AckPrintErr
<1>7. acks' \in [Conn -> Seq(Answer)]
  BY <1>1, <1>2 DEF AckPrintJob
<1>8. Answer' = Answer
  BY <1>4 DEF Answer
<1>9. TypeOK'
  <2>1. Answer \subseteq [job : Job, ok : BOOLEAN]
    BY DEF Answer, IInv, TypeOK
  <2>2. acks' \in [Conn -> Seq([job : Job, ok : BOOLEAN])]
    BY <1>7, <2>1, SeqMonotonic
  <2> QED
    BY <1>4, <1>6, <2>2 DEF IInv, TypeOK
<1>10. Bookkeeping'
  BY <1>4, <1>6, <1>7, <1>8 DEF IInv, Bookkeeping, InHandOut
<1> QED
  BY <1>9, <1>10 DEF IInv

(* The housekeeping and the clock rewrite rows and queue nothing.          *)
LEMMA TableStep ==
  ASSUME IInv,
         UNCHANGED <<born, purged, garbled, conn, alive, registry, inbox, acks, paper>>,
         step' \in {"expire", "release", "dispatch"}, restarts' = restarts,
         asked' \subseteq Agent,
         agent' \in [Agent -> HandOut \cup {None}],
         \A a \in Agent : InHandOut(a)' => InHandOut(a) /\ agent'[a].jobs = agent[a].jobs,
         queue' \in [Job -> Row \cup {None}],
         \A j \in Job : Queued(j)' => Queued(j) /\ j \notin dropped' /\ j \notin untold',
         dropped' \subseteq born, untold' \subseteq born
  PROVE  IInv'
<1>1. Answer' = Answer
  BY DEF Answer
<1>2. TypeOK'
  BY DEF IInv, TypeOK
<1>3. Bookkeeping'
  BY <1>1 DEF IInv, Bookkeeping
<1> QED
  BY <1>2, <1>3 DEF IInv

LEMMA HousekeepingStep ==
  ASSUME IInv, Housekeeping
  PROVE  IInv'
<1> USE DEF clients, threads, table
<1>0. queue \in [Job -> Row \cup {None}] /\ dropped \subseteq born /\ untold \subseteq born
        /\ asked \subseteq Agent
        /\ \A j \in Job : Queued(j) => j \in born /\ j \notin dropped /\ j \notin untold
  BY DEF IInv, TypeOK, Bookkeeping
<1>1. CASE ExpirePrintJobs
  <2>1. OutOfTime \subseteq born
    BY <1>0 DEF OutOfTime
  <2>2. queue' \in [Job -> Row \cup {None}] /\ dropped' \subseteq born
          /\ untold' \subseteq born
          /\ \A j \in Job : Queued(j)' => Queued(j) /\ j \notin dropped' /\ j \notin untold'
    BY <1>0, <1>1, <2>1 DEF ExpirePrintJobs, Without, RecordPrintDrop, OutOfTime, Queued
  <2> QED
    BY <1>0, <1>1, <2>2, TableStep DEF ExpirePrintJobs, InHandOut, IInv, TypeOK
<1>2. CASE ReleaseStaleInFlight
  <2>1. \A j \in Stalled : [queue[j] EXCEPT !.flight = None] \in Row /\ Queued(j)
    BY <1>0, RowWrites DEF Stalled, Queued
  <2>2. queue' \in [Job -> Row \cup {None}] /\ \A j \in Job : Queued(j)' => Queued(j)
    BY <1>0, <1>2, <2>1 DEF ReleaseStaleInFlight, Queued
  <2> QED
    BY <1>0, <1>2, <2>2, TableStep DEF ReleaseStaleInFlight, InHandOut, IInv, TypeOK
<1>3. CASE DispatchPending
  <2>1. asked' \subseteq Agent
    BY <1>0, <1>3 DEF DispatchPending, Agent
  <2> QED
    BY <1>0, <1>3, <2>1, TableStep DEF DispatchPending, InHandOut, Queued, IInv, TypeOK
<1> QED
  BY <1>1, <1>2, <1>3 DEF Housekeeping

LEMMA ClockStep ==
  ASSUME IInv, TimePasses
  PROVE  IInv'
<1>0. queue \in [Job -> Row \cup {None}] /\ agent \in [Agent -> HandOut \cup {None}]
  BY DEF IInv, TypeOK
<1>1. queue' \in [Job -> Row \cup {None}] /\ \A j \in Job : Queued(j)' => Queued(j)
  <2>1. ASSUME NEW j \in Job
        PROVE  queue'[j] \in Row \cup {None} /\ (queue'[j] # None => queue[j] # None)
    BY <1>0, RowWrites DEF TimePasses, Queued
  <2> QED
    BY <2>1 DEF TimePasses, Queued
<1>2. \A o \in HandOut : [o EXCEPT !.since = Older(@, Stale)] \in HandOut
         /\ [o EXCEPT !.since = Older(@, Stale)].jobs = o.jobs
  <2>1. \A n \in 0..Stale : Older(n, Stale) \in 0..Stale
    BY LimitsAreNumbers, NoneIsNothing DEF Older
  <2> QED
    BY <2>1 DEF HandOut
<1>3. agent' \in [Agent -> HandOut \cup {None}]
        /\ \A a \in Agent : InHandOut(a)' => InHandOut(a) /\ agent'[a].jobs = agent[a].jobs
  BY <1>0, <1>2, NoneIsNothing DEF TimePasses, InHandOut
<1> QED
  BY <1>1, <1>3, TableStep DEF TimePasses, clients, IInv, TypeOK, Bookkeeping

(* What becomes of tasks and texts matters to nothing that is kept here.   *)
LEMMA PurgeStep ==
  ASSUME IInv, Purge
  PROVE  IInv'
<1>1. Answer' = Answer /\ purged' \subseteq Doomed
  BY DEF Purge, clients, Answer, IInv, TypeOK
<1>2. TypeOK'
  BY <1>1 DEF IInv, TypeOK, Purge, clients, threads
<1>3. Bookkeeping'
  BY <1>1 DEF IInv, Bookkeeping, Queued, InHandOut, Purge, clients, threads
<1> QED
  BY <1>2, <1>3 DEF IInv

LEMMA RestartStep ==
  ASSUME IInv, Restart
  PROVE  IInv'
<1>1. TypeOK'
  BY EmptySeq, LimitsAreNumbers DEF IInv, TypeOK, Restart
<1>2. inbox' \in [Conn -> Seq(born)] /\ acks' \in [Conn -> Seq(Answer)]
  BY EmptySeq DEF Restart
<1>3. Answer' = Answer
  BY DEF Restart, Answer
<1>4. Bookkeeping'
  BY <1>2, <1>3 DEF IInv, Bookkeeping, Queued, InHandOut, Restart
<1> QED
  BY <1>1, <1>4 DEF IInv

LEMMA StepHolds == IInv /\ [Next]_vars => IInv'
<1> SUFFICES ASSUME IInv, [Next]_vars PROVE IInv'
  OBVIOUS
<1>1. ASSUME NEW a \in Agent, EndHandOut(a)
      PROVE  IInv'
  <2>1. TypeOK' /\ \A b \in Agent : InHandOut(b)' => agent'[b].jobs \subseteq born
    BY <1>1 DEF EndHandOut, IInv, TypeOK, Bookkeeping, InHandOut, table, clients
  <2> QED
    BY <1>1, <2>1, QuietStep DEF EndHandOut, IInv, Bookkeeping, table, clients
<1>2. CASE UNCHANGED vars
  <2>1. TypeOK'
    BY <1>2 DEF vars, IInv, TypeOK
  <2> QED
    BY <1>2, <2>1, QuietStep DEF vars, IInv, Bookkeeping, InHandOut, table
<1> QED
  BY <1>1, <1>2, EnqueueStep, BeginStep, HandStep, ConnectionStep, PrintStep, AckStep,
     HousekeepingStep, ClockStep, PurgeStep, RestartStep
  DEF Next, HandingOut, Serving

-----------------------------------------------------------------------------
(* The theorems.                                                           *)

\* Every variable keeps its type; in particular no job in the table has used
\* up its attempts.
THEOREM TypeCorrect == Spec => []TypeOK
<1>1. IInv => TypeOK
  BY DEF IInv
<1> QED
  BY <1>1, InitHolds, StepHolds, PTL DEF Spec

LEMMA InitRefines == Init => Promise!Init
BY DEF Init, Promise!Init, Outcome, Traceless

(* What the promise is about.                                              *)
promised == <<Outcome, paper, Traceless>>

(* A step that leaves the table and the paper alone is a stutter.          *)
LEMMA Stutters ==
  ASSUME UNCHANGED <<table, paper>>
  PROVE  UNCHANGED promised
BY DEF table, Outcome, Queued, Traceless, promised

(* Jobs that are given up are accounted for.                               *)
LEMMA GivenUp ==
  ASSUME IInv, NEW S \in SUBSET Job, \A j \in S : Queued(j),
         queue' = Without(S), RecordPrintDrop(S), UNCHANGED <<born, paper, purged, garbled>>
  PROVE  Promise!Next
<1>1. \A j \in Job : Queued(j) => j \in born /\ j \notin dropped /\ j \notin untold
  BY DEF IInv, Bookkeeping
<1>2. Traceless' = Traceless
  BY DEF Traceless
<1>3. ASSUME NEW j \in Job
      PROVE  Outcome'[j] = IF j \notin S THEN Outcome[j]
                           ELSE IF j \in Traceless THEN "lost" ELSE "dropped"
  <2>1. Queued(j)' <=> Queued(j) /\ j \notin S
    BY DEF Without, Queued
  <2>2. /\ j \in dropped' <=> j \in dropped \/ (j \in S /\ j \notin Traceless)
        /\ j \in untold' <=> j \in untold \/ (j \in S /\ j \in Traceless)
    BY DEF RecordPrintDrop
  <2> QED
    BY <1>1, <2>1, <2>2 DEF Outcome
<1>4. Promise!GiveUp(S)
  <2>1. \A j \in S : Outcome[j] = "queued"
    BY <1>1 DEF Outcome
  <2>2. Outcome' = [j \in Job |-> IF j \notin S THEN Outcome[j]
                                  ELSE IF j \in Traceless THEN "lost" ELSE "dropped"]
    BY <1>3 DEF Outcome
  <2> QED
    BY <1>2, <2>1, <2>2 DEF Promise!GiveUp
<1> QED
  BY <1>4 DEF Promise!Next

LEMMA AckRefines ==
  ASSUME IInv, NEW c \in Conn, AckPrintJob(c)
  PROVE  [Promise!Next]_promised
<1> DEFINE a == Head(acks[c])
<1>1. a \in Answer
  BY HeadTailProperties DEF IInv, Bookkeeping, AckPrintJob
<1>2. a.job \in Job /\ a.job \in born /\ (a.ok => a.job \in paper)
  BY <1>1 DEF Answer, IInv, TypeOK
<1>3. born' = born /\ paper' = paper /\ purged' = purged /\ garbled' = garbled
        /\ Traceless' = Traceless
  BY DEF AckPrintJob, Traceless
<1>4. queue \in [Job -> Row \cup {None}] /\ None \notin Row
        /\ \A j \in Job : Queued(j) => j \in born /\ j \notin dropped /\ j \notin untold
  BY NoneIsNothing DEF IInv, TypeOK, Bookkeeping
<1>5. CASE queue' = queue /\ UNCHANGED <<dropped, untold>>
  BY <1>3, <1>5, Stutters DEF table
<1>6. CASE a.ok /\ Queued(a.job)
  <2>1. queue' = Without({a.job}) /\ UNCHANGED <<dropped, untold>>
    BY <1>6 DEF AckPrintJob, AckPrintOk
  <2>2. Promise!Done(a.job)
    BY <1>2, <1>3, <1>4, <1>6, <2>1 DEF Promise!Done, Outcome, Queued, Without
  <2> QED
    BY <1>2, <2>2 DEF Promise!Next
<1>7. CASE a.ok /\ ~ Queued(a.job)
  <2>1. queue' = queue
    BY <1>4, <1>7 DEF AckPrintJob, AckPrintOk, Without, Queued
  <2> QED
    BY <1>5, <1>7, <2>1 DEF AckPrintJob, AckPrintOk
<1>8. CASE Queued(a.job) /\ queue' = Without({a.job}) /\ RecordPrintDrop({a.job})
  BY <1>2, <1>3, <1>8, GivenUp
<1>9. CASE /\ Queued(a.job) /\ ~ LastTry(a.job)
           /\ queue' = [queue EXCEPT ![a.job] = Requeued(@)]
           /\ UNCHANGED <<dropped, untold>>
  <2>1. queue[a.job] \in Row
    BY <1>2, <1>4, <1>9 DEF Queued
  <2>2. Requeued(queue[a.job]) \in Row
    <3>1. queue[a.job].attempts + 1 < MaxAttempts
      BY <1>9, <2>1, LimitsAreNumbers DEF Row, LastTry
    <3> QED
      BY <2>1, <3>1, RowWrites
  <2>3. \A j \in Job : Queued(j)' <=> Queued(j)
    BY <1>2, <1>4, <1>9, <2>2 DEF Queued
  <2> QED
    BY <1>3, <1>9, <2>3 DEF Outcome, promised
<1>10. CASE ~ a.ok
  BY <1>5, <1>8, <1>9, <1>10 DEF AckPrintJob, AckPrintErr
<1> QED
  BY <1>6, <1>7, <1>10

LEMMA StepRefines == IInv /\ [Next]_vars => [Promise!Next]_promised
<1> SUFFICES ASSUME IInv, [Next]_vars PROVE [Promise!Next]_promised
  OBVIOUS
<1>0. queue \in [Job -> Row \cup {None}] /\ None \notin Row /\ dropped \subseteq born
        /\ untold \subseteq born
        /\ \A j \in Job : Queued(j) => j \in born /\ j \notin dropped /\ j \notin untold
  BY NoneIsNothing DEF IInv, TypeOK, Bookkeeping
<1>1. ASSUME NEW h \in Handler, EnqueuePrint(h)
      PROVE  [Promise!Next]_promised
  <2>1. PICK j \in Job \ born :
          /\ queue' = [queue EXCEPT ![j] = [age |-> IF MaxAge = None THEN None ELSE 0,
                                           flight |-> None, attempts |-> 0]]
          /\ born' = born \cup {j}
    BY <1>1 DEF EnqueuePrint, First
  <2>2. queue'[j] # None
    <3>1. [age |-> IF MaxAge = None THEN None ELSE 0, flight |-> None, attempts |-> 0] \in Row
      BY LimitsAreNumbers DEF Row, Age
    <3> QED
      BY <1>0, <2>1, <3>1
  <2>3. Promise!Queue(j)
    BY <1>0, <1>1, <2>1, <2>2 DEF Promise!Queue, EnqueuePrint, Outcome, Queued, Traceless, clients
  <2> QED
    BY <2>3 DEF Promise!Next
<1>2. ASSUME NEW a \in Agent, HandNext(a)
      PROVE  UNCHANGED promised
  <2>1. PICK j \in agent[a].jobs : queue' = MarkInFlight(j, agent[a].since)
    BY <1>2 DEF HandNext, First
  <2>2. agent[a].jobs \subseteq Job /\ agent[a].since \in 0..Stale
    BY <1>2 DEF HandNext, InHandOut, IInv, TypeOK, HandOut
  <2>3. \A k \in Job : Queued(k)' <=> Queued(k)
    <3>1. queue[j] # None => [queue[j] EXCEPT !.flight = agent[a].since] \in Row
      BY <1>0, <2>1, <2>2, RowWrites
    <3> QED
      BY <1>0, <2>1, <2>2, <3>1 DEF MarkInFlight, Queued
  <2> QED
    BY <1>2, <2>3 DEF Outcome, HandNext, Traceless, promised
<1>3. ASSUME NEW c \in Conn, NEW ok \in BOOLEAN, PrintSlip(c, ok)
      PROVE  [Promise!Next]_promised
  <2>1. PICK i \in DOMAIN inbox[c] : paper' = IF ok THEN paper \cup {inbox[c][i]} ELSE paper
    BY <1>3 DEF PrintSlip
  <2>2. inbox[c][i] \in born /\ inbox[c][i] \in Job
    BY SeqWithout DEF IInv, Bookkeeping, TypeOK
  <2>3. Outcome' = Outcome /\ Traceless' = Traceless
    BY <1>3 DEF PrintSlip, table, Outcome, Queued, Traceless
  <2>4. CASE ok
    <3>1. Promise!PrintSlip(inbox[c][i])
      BY <2>1, <2>2, <2>3, <2>4 DEF Promise!PrintSlip, Outcome
    <3> QED
      BY <2>2, <3>1 DEF Promise!Next
  <2>5. CASE ~ ok
    BY <2>1, <2>3, <2>5 DEF promised
  <2> QED
    BY <2>4, <2>5
<1>4. ASSUME Housekeeping
      PROVE  [Promise!Next]_promised
  <2>1. CASE ExpirePrintJobs
    BY <2>1, GivenUp DEF ExpirePrintJobs, OutOfTime, clients
  <2>2. CASE ReleaseStaleInFlight
    <3>1. \A j \in Stalled : [queue[j] EXCEPT !.flight = None] \in Row
      BY <1>0, RowWrites DEF Stalled, Queued
    <3>2. \A j \in Job : Queued(j)' <=> Queued(j)
      BY <1>0, <2>2, <3>1 DEF ReleaseStaleInFlight, Stalled, Queued
    <3> QED
      BY <2>2, <3>2 DEF ReleaseStaleInFlight, Outcome, Traceless, promised, clients
  <2>3. CASE DispatchPending
    BY <2>3, Stutters DEF DispatchPending, table, clients
  <2> QED
    BY <1>4, <2>1, <2>2, <2>3 DEF Housekeeping
<1>5. ASSUME TimePasses
      PROVE  UNCHANGED promised
  <2>1. ASSUME NEW j \in Job
        PROVE  Queued(j)' <=> Queued(j)
    <3>1. queue[j] # None =>
            [queue[j] EXCEPT !.age = Older(@, MaxAge), !.flight = Older(@, Stale)] \in Row
      BY <1>0, RowWrites
    <3> QED
      BY <1>0, <1>5, <3>1 DEF TimePasses, Queued
  <2> QED
    BY <1>5, <2>1 DEF TimePasses, Outcome, Traceless, promised, clients
<1>6. ASSUME NEW a \in Agent, BeginHandOut(a) \/ EndHandOut(a)
      PROVE  UNCHANGED promised
  BY <1>6, Stutters DEF BeginHandOut, EndHandOut, table, clients
<1>7. ASSUME NEW c \in Conn,
             Register(c) \/ Greet(c) \/ GreetFails(c) \/ ClientGone(c) \/ Unregister(c)
      PROVE  UNCHANGED promised
  BY <1>7, Stutters DEF Register, Greet, GreetFails, ClientGone, Unregister, table
<1>8. ASSUME UNCHANGED vars
      PROVE  UNCHANGED promised
  BY <1>8, Stutters DEF vars, table
<1>9. ASSUME Purge \/ Restart
      PROVE  Promise!Next
  <2>1. Traceless' \subseteq Job
    BY <1>9, DoomedAreJobs DEF Purge, Restart, Traceless, IInv, TypeOK
  <2>2. Outcome' = Outcome /\ paper' = paper
    BY <1>9 DEF Purge, Restart, Outcome, Queued, clients
  <2> QED
    BY <2>1, <2>2 DEF Promise!LoseTrack, Promise!Next
<1> QED
  BY <1>1, <1>2, <1>3, <1>4, <1>5, <1>6, <1>7, <1>8, <1>9, AckRefines
  DEF Next, HandingOut, Serving

\* The print queue implements PrintJobs: a slip leaves the queue only when it
\* came out on paper, or is recorded as dropped, or cannot be recorded because
\* its task is purged or its text unreadable.
THEOREM PromiseKept == Spec => KeepsPromise
<1>1. Spec => []IInv
  BY InitHolds, StepHolds, PTL DEF Spec
<1> QED
  BY <1>1, InitRefines, StepRefines, PTL DEF Spec, KeepsPromise, Promise!Spec, promised
=============================================================================
