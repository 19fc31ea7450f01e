---------------------------- MODULE ClientBoard ----------------------------
(* The open board in the terminal client: a copy of the daemon's rows that the *)
(* answers to its own requests and everybody's events keep up to date, a       *)
(* cursor, a card that is picked up or dragged, and the question a finished    *)
(* step asks first. A handler changes a row under the database lock, but tells *)
(* the others about it after the lock is gone; a connection answers its client *)
(* before it forwards the events that came meanwhile, and one that falls too   *)
(* far behind skips some.                                                      *)
EXTENDS Integers, Sequences, FiniteSets, SequencesExt

CONSTANTS
  Card,        \* the tasks of the board
  Columns,     \* its columns are 1..Columns, the last one is the finished column
  Start,       \* where the tasks are at first
  Questions,   \* the tasks with a question that has no default
  Due,         \* when each task is due
  Receivable,  \* how many events the bus holds for a slow client (1024)
  MaxChanges,  \* bound: how often a row or a column changes
  MaxKeys,     \* bound: how many keys and clicks change something
  Positions,   \* bound: the positions that are used
  Nothing

ASSUME NothingAssumption == Nothing \notin Card
ASSUME ReceivableAssumption == Receivable \in Nat \ {0}

VARIABLES
  table,       \* the daemon's rows
  byDue,       \* the columns the daemon sorts by due date
  unpublished, \* committed, the event not on the bus yet
  handling,    \* this client's request, committed and not answered
  events,      \* the bus's queue for this client, and whether it skipped some
  wire,        \* the socket to the client
  sent,        \* the socket from the client
  view,        \* App::board
  question,    \* Overlay::Question
  changes, keys, \* the counters of the two bounds
  heard,       \* observation: per task the latest version that was on the bus
  overtaken,   \* observation: tasks an older event reached the bus after a newer one
  dropped      \* observation: tasks (Nothing: the board) whose latest event the bus dropped

daemon == <<table, byDue, unpublished, handling, events>>
observed == <<heard, overtaken, dropped>>
boardVars == <<daemon, wire, sent, view, question, changes, keys, observed>>

PlacedAt(c, p) == [col |-> c, pos |-> p, archived |-> FALSE, asked |-> FALSE, version |-> 0]

\* BoardView::new: the cursor on the first card, nothing picked up.
OpenedView(rows, sorted) ==
  [rows |-> rows, byDue |-> sorted, col |-> 1, row |-> 0, picked |-> Nothing, drag |-> Nothing]

BoardInit ==
  /\ table = [t \in Card |-> PlacedAt(Start[t][1], Start[t][2])]
  /\ byDue = {} /\ unpublished = {} /\ handling = Nothing
  /\ events = [queue |-> <<>>, lagged |-> FALSE]
  /\ wire = <<>> /\ sent = <<>>
  /\ view = OpenedView(table, {}) /\ question = Nothing
  /\ changes = 0 /\ keys = 0
  /\ heard = [t \in Card |-> 0] /\ overtaken = {} /\ dropped = {}

----------------------------------------------------------------------------
(* The view.                                                                  *)

\* Ids are numbers here, so that they break ties like the code's.
Less(v, c, t, u) ==
  LET a == v.rows[t] b == v.rows[u]
      later == IF a.pos # b.pos THEN a.pos < b.pos ELSE t < u
  IN  IF c \in v.byDue /\ Due[t] # Due[u] THEN Due[t] < Due[u] ELSE later

\* BoardView::tasks_in: the cards of a column in display order.
TasksIn(v, c) ==
  SetToSortSeq({t \in Card : v.rows[t] # Nothing /\ v.rows[t].col = c /\ ~v.rows[t].archived},
               LAMBDA t, u : Less(v, c, t, u))

Selected(v) ==
  LET cards == TasksIn(v, v.col) IN IF v.row < Len(cards) THEN cards[v.row + 1] ELSE Nothing

\* BoardView::clamp.
Clamp(v) ==
  LET n == Len(TasksIn(v, v.col))
  IN  [v EXCEPT !.row = IF n = 0 THEN 0 ELSE IF @ > n - 1 THEN n - 1 ELSE @]

\* BoardView::select_task.
Select(v, t) ==
  IF v.rows[t] = Nothing \/ v.rows[t].archived THEN v
  ELSE LET c == v.rows[t].col
           at == CHOOSE i \in DOMAIN TasksIn(v, c) : TasksIn(v, c)[i] = t
       IN  [v EXCEPT !.col = c, !.row = at - 1]

PutIn(v, t, r) == Clamp([v EXCEPT !.rows[t] = r])
TakeOut(v, t) == Clamp([v EXCEPT !.rows[t] = Nothing, !.picked = IF @ = t THEN Nothing ELSE @])

----------------------------------------------------------------------------
(* The daemon.                                                                *)

NextVersion(t, r) == [r EXCEPT !.version = @ + 1]

\* A change is committed, and its event is what the handler holds now.
CommitChange(t, r, change, mine) ==
  /\ changes < MaxChanges /\ changes' = changes + 1
  /\ table' = [table EXCEPT ![t] = r]
  /\ unpublished' = unpublished \cup {[task |-> t, row |-> r, change |-> change, mine |-> mine, at |-> changes]}

EndPos(c) ==
  LET there == {table[u].pos : u \in {v \in Card : table[v].col = c /\ ~table[v].archived}}
  IN  IF there = {} THEN 0 ELSE 10 + CHOOSE p \in there : \A q \in there : q <= p

\* move_task_by: to the end of another column, or to the position asked for. A
\* finish without an answer leaves the question to be asked.
Moved(t, c, p, answered) ==
  LET r == table[t]
      finish == c = Columns /\ r.col # Columns
  IN  NextVersion(t, [r EXCEPT !.col = c,
                           !.pos = IF p # Nothing THEN p ELSE IF c = r.col THEN @ ELSE EndPos(c),
                           !.asked = IF finish THEN t \in Questions /\ ~answered
                                     ELSE IF c = Columns THEN @ ELSE FALSE])

\* Another client, a plain scan or the scheduler changes a task.
OtherChange(t) ==
  /\ LET r == table[t]
     IN  \/ ~r.archived /\ \E c \in 1..Columns \ {r.col} : CommitChange(t, Moved(t, c, Nothing, FALSE), "Moved", FALSE)
         \/ ~r.archived /\ CommitChange(t, NextVersion(t, [r EXCEPT !.archived = TRUE]), "Archived", FALSE)
         \/ r.archived /\ CommitChange(t, NextVersion(t, [r EXCEPT !.archived = FALSE, !.pos = EndPos(r.col)]), "Restored", FALSE)
         \/ ~r.archived /\ CommitChange(t, NextVersion(t, r), "Updated", FALSE)
  /\ UNCHANGED <<byDue, handling, events, wire, sent, view, question, keys, observed>>

\* SetColumnSort of another client: the board itself changed.
OtherSort(c) ==
  /\ changes < MaxChanges /\ changes' = changes + 1
  /\ byDue' = IF c \in byDue THEN byDue \ {c} ELSE byDue \cup {c}
  /\ unpublished' = unpublished \cup {[task |-> Nothing, row |-> Nothing, change |-> "BoardUpdated", mine |-> FALSE, at |-> changes]}
  /\ UNCHANGED <<table, handling, events, wire, sent, view, question, keys, observed>>

\* Bus::publish: a full queue loses its oldest event.
PublishEvent(e) ==
  /\ e \in unpublished /\ unpublished' = unpublished \ {e}
  /\ LET full == Len(events.queue) = Receivable
     IN  /\ events' = [queue |-> Append(IF full THEN Tail(events.queue) ELSE events.queue, e),
                       lagged |-> events.lagged \/ full]
         /\ dropped' = (dropped \cup (IF full THEN {Head(events.queue).task} ELSE {})) \ {e.task}
  /\ IF e.task = Nothing THEN UNCHANGED <<heard, overtaken>>
     ELSE /\ heard' = [heard EXCEPT ![e.task] = IF e.row.version > @ THEN e.row.version ELSE @]
          /\ overtaken' = IF e.row.version < heard[e.task] THEN overtaken \cup {e.task} ELSE overtaken \ {e.task}
  /\ UNCHANGED <<table, byDue, handling, wire, sent, view, question, changes, keys>>

\* serve, the events branch: nothing is forwarded while a request is handled.
ForwardEvent ==
  /\ handling = Nothing
  /\ \/ /\ events.lagged
        /\ wire' = Append(wire, [kind |-> "Notice"])
        /\ events' = [events EXCEPT !.lagged = FALSE]
     \/ /\ ~events.lagged /\ events.queue # <<>>
        /\ wire' = Append(wire, [kind |-> "Event", event |-> Head(events.queue)])
        /\ events' = [events EXCEPT !.queue = Tail(@)]
  /\ UNCHANGED <<table, byDue, unpublished, handling, sent, view, question, changes, keys, observed>>

TaskReply(q, r) == [kind |-> "Task", pending |-> q.op, task |-> q.task, row |-> r]

\* serve, the request branch: refused, or committed.
HandleRequest ==
  /\ handling = Nothing /\ sent # <<>> /\ sent' = Tail(sent)
  /\ LET q == Head(sent)
     IN  \/ /\ q.op = "GetBoard"
            /\ wire' = Append(wire, [kind |-> "Board", pending |-> q.pending, focus |-> q.task, rows |-> table, byDue |-> byDue])
            /\ dropped' = {}
            /\ UNCHANGED <<table, byDue, unpublished, handling, changes>>
         \/ /\ q.op \in {"MoveTask", "AnswerQuestion", "DeleteTask"}
            /\ IF table[q.task].archived \/ (q.op = "AnswerQuestion" /\ ~table[q.task].asked)
               THEN /\ wire' = Append(wire, [kind |-> "Err"])
                    /\ UNCHANGED <<table, byDue, unpublished, handling, changes>>
               ELSE LET t == q.task
                        r == CASE q.op = "MoveTask" -> Moved(t, q.col, q.pos, q.answered)
                               [] q.op = "AnswerQuestion" -> NextVersion(t, [table[t] EXCEPT !.asked = FALSE])
                               [] q.op = "DeleteTask" -> NextVersion(t, [table[t] EXCEPT !.archived = TRUE])
                    IN  /\ CommitChange(t, r, IF q.op = "DeleteTask" THEN "Deleted" ELSE "Moved", TRUE)
                        /\ handling' = TaskReply(q, r)
                        /\ UNCHANGED <<byDue, wire>>
            /\ UNCHANGED dropped
  /\ UNCHANGED <<events, view, question, keys, heard, overtaken>>

\* The answer leaves once the handler has published what it did.
Reply ==
  /\ handling # Nothing /\ ~\E e \in unpublished : e.mine
  /\ handling' = Nothing
  /\ wire' = Append(wire, handling)
  /\ UNCHANGED <<table, byDue, unpublished, events, sent, view, question, changes, keys, observed>>

----------------------------------------------------------------------------
(* Keys and clicks.                                                           *)

Key == keys < MaxKeys /\ keys' = keys + 1
SendRequest(q) == sent' = Append(sent, q)
AskForBoard(pending, focus) == [op |-> "GetBoard", pending |-> pending, task |-> focus]
MoveTask(t, c, p, answered) == [op |-> "MoveTask", task |-> t, col |-> c, pos |-> p, answered |-> answered]

\* Arrows without a picked up card.
Cursor ==
  /\ Key /\ view # Nothing /\ question = Nothing /\ view.picked = Nothing
  /\ \E c \in 1..Columns, i \in 0..Cardinality(Card) : view' = Clamp([view EXCEPT !.col = c, !.row = i])
  /\ view' # view
  /\ UNCHANGED <<daemon, wire, sent, question, changes, observed>>

\* Space: pick the selected card up, or put it down; and the mouse button on a card.
Pick ==
  /\ Key /\ view # Nothing /\ question = Nothing
  /\ \/ view.picked # Nothing /\ view' = [view EXCEPT !.picked = Nothing]
     \/ view.picked = Nothing /\ Selected(view) # Nothing /\ view' = [view EXCEPT !.picked = Selected(view)]
     \/ \E t \in Card : view.rows[t] # Nothing /\ view' = [Select(view, t) EXCEPT !.drag = t]
  /\ UNCHANGED <<daemon, wire, sent, question, changes, observed>>

\* request_move: a move that finishes a task with a question asks it first.
RequestMove(t, c, p) ==
  /\ p # Nothing => p \in Positions
  /\ IF t \in Questions /\ view.rows[t] # Nothing /\ c = Columns /\ view.rows[t].col # Columns
     THEN question' = [task |-> t, col |-> c, pos |-> p, then |-> "Move"] /\ UNCHANGED sent
     ELSE SendRequest(MoveTask(t, c, p, FALSE)) /\ UNCHANGED question

IndexOf(t, s) == CHOOSE i \in DOMAIN s : s[i] = t

\* move_picked: one column over, or past the neighbour in its column.
MovePicked(v, t) ==
  LET c == v.rows[t].col
      cards == TasksIn(v, c)
      i == IndexOf(t, cards)
  IN  {<<d, Nothing>> : d \in {c - 1, c + 1} \cap (1..Columns)}
      \cup {<<c, v.rows[cards[j]].pos - 1>> : j \in {i - 1} \cap DOMAIN cards}
      \cup {<<c, v.rows[cards[j]].pos + 1>> : j \in {i + 1} \cap DOMAIN cards}

Carry ==
  /\ Key /\ view # Nothing /\ question = Nothing
  /\ view.picked # Nothing /\ view.rows[view.picked] # Nothing /\ ~view.rows[view.picked].archived
  /\ \E m \in MovePicked(view, view.picked) : RequestMove(view.picked, m[1], m[2])
  /\ UNCHANGED <<daemon, wire, view, changes, observed>>

\* drop_position: before the first, after the last, or between two others.
DropPosition(v, c, t, slot) ==
  LET others == SelectSeq(TasksIn(v, c), LAMBDA u : u # t)
      pos(i) == v.rows[others[i]].pos
  IN  IF others = <<>> THEN 0
      ELSE IF slot = 0 THEN pos(1) - 10
      ELSE IF slot >= Len(others) THEN pos(Len(others)) + 10
      ELSE IF pos(slot + 1) - pos(slot) > 1 THEN pos(slot) + (pos(slot + 1) - pos(slot)) \div 2
      ELSE pos(slot) + 1

\* The button is let go over a column.
Drop ==
  /\ Key /\ view # Nothing /\ question = Nothing /\ view.drag # Nothing
  /\ view' = [view EXCEPT !.drag = Nothing]
  /\ \E c \in 1..Columns :
       \E slot \in 0..Len(TasksIn(view, c)) :
         RequestMove(view.drag, c, DropPosition(view, c, view.drag, slot))
  /\ UNCHANGED <<daemon, wire, changes, observed>>

\* question_key, answer_selected: an answer sends what it was asked for, any
\* other key or a click beside it leaves the task where it was.
AnswerOrLeave ==
  /\ Key /\ question # Nothing
  /\ question' = Nothing
  /\ \/ question.then = "Move" /\ SendRequest(MoveTask(question.task, question.col, question.pos, TRUE))
     \/ question.then = "Answer" /\ SendRequest([op |-> "AnswerQuestion", task |-> question.task])
     \/ UNCHANGED sent
  /\ UNCHANGED <<daemon, wire, view, changes, observed>>

\* d, confirmed.
Delete ==
  /\ Key /\ view # Nothing /\ question = Nothing /\ Selected(view) # Nothing
  /\ SendRequest([op |-> "DeleteTask", task |-> Selected(view)])
  /\ UNCHANGED <<daemon, wire, view, question, changes, observed>>

\* Esc or b, and Enter on the dashboard.
LeaveOrOpen ==
  /\ Key /\ question = Nothing
  /\ \/ view # Nothing /\ view' = Nothing /\ UNCHANGED sent
     \/ \E focus \in Card \cup {Nothing} : SendRequest(AskForBoard("OpenBoard", focus)) /\ UNCHANGED view
  /\ UNCHANGED <<daemon, wire, question, changes, observed>>

----------------------------------------------------------------------------
(* What arrives.                                                              *)

AskFor(rows) ==
  LET unanswered == {t \in Card : rows[t] # Nothing /\ ~rows[t].archived /\ rows[t].asked}
  IN  IF unanswered = {} \/ question # Nothing THEN {question}
      ELSE {[task |-> t, then |-> "Answer"] : t \in unanswered}

\* GetBoard's rows leave the archived ones out.
Listed(rows) == [t \in Card |-> IF rows[t].archived THEN Nothing ELSE rows[t]]

\* Pending::OpenBoard: a fresh view, the cursor on the task it was opened for,
\* and the question nobody answered.
OnOpenBoard(m) ==
  /\ m.kind = "Board" /\ m.pending = "OpenBoard"
  /\ LET v == OpenedView(Listed(m.rows), m.byDue)
     IN  view' = IF m.focus = Nothing THEN v ELSE Select(v, m.focus)
  /\ question' \in AskFor(Listed(m.rows))
  /\ UNCHANGED <<sent>>

\* Pending::RefreshBoard: the open view gets the new rows.
OnRefresh(m) ==
  /\ m.kind = "Board" /\ m.pending = "RefreshBoard"
  /\ view' = IF view = Nothing THEN Nothing
             ELSE Clamp([view EXCEPT !.rows = Listed(m.rows), !.byDue = m.byDue])
  /\ UNCHANGED <<sent, question>>

\* An own change came back. A moved card keeps the cursor.
OnTask(m) ==
  /\ m.kind = "Task"
  /\ view' = IF view = Nothing THEN Nothing
             ELSE IF m.pending = "DeleteTask" THEN TakeOut(view, m.task)
             ELSE LET v == PutIn(view, m.task, m.row)
                  IN  IF m.pending = "MoveTask" /\ m.task \in {view.picked, Selected(view)}
                      THEN Select(v, m.task) ELSE v
  /\ UNCHANGED <<sent, question>>

\* Faulty variant: only a deleted card leaves the board, an archived one stays.
OnTaskChangedDeleted(m) ==
  /\ m.kind = "Event" /\ m.event.task # Nothing
  /\ view' = IF view = Nothing THEN Nothing
             ELSE IF m.event.change = "Deleted" THEN TakeOut(view, m.event.task)
             ELSE PutIn(view, m.event.task, m.event.row)
  /\ UNCHANGED <<sent, question>>

\* on_event.
OnTaskChanged(m) ==
  /\ m.kind = "Event" /\ m.event.task # Nothing
  /\ view' = IF view = Nothing THEN Nothing
             ELSE IF m.event.change \in {"Deleted", "Archived"} THEN TakeOut(view, m.event.task)
             ELSE PutIn(view, m.event.task, m.event.row)
  /\ UNCHANGED <<sent, question>>

OnBoardUpdated(m) ==
  /\ m.kind = "Event" /\ m.event.task = Nothing
  /\ IF view = Nothing THEN UNCHANGED sent ELSE SendRequest(AskForBoard("RefreshBoard", Nothing))
  /\ UNCHANGED <<view, question>>

\* A refusal and "missed some updates, reload the board" are a toast.
OnToast(m) == m.kind \in {"Err", "Notice"} /\ UNCHANGED <<sent, view, question>>

Receive ==
  /\ wire # <<>> /\ wire' = Tail(wire)
  /\ LET m == Head(wire)
     IN  OnOpenBoard(m) \/ OnRefresh(m) \/ OnTask(m) \/ OnTaskChanged(m) \/ OnBoardUpdated(m) \/ OnToast(m)
  /\ UNCHANGED <<daemon, changes, keys, observed>>

BoardNext ==
  \/ \E t \in Card : OtherChange(t)
  \/ \E c \in 1..Columns : OtherSort(c)
  \/ \E e \in unpublished : PublishEvent(e)
  \/ ForwardEvent \/ HandleRequest \/ Reply
  \/ Cursor \/ Pick \/ Carry \/ Drop \/ AnswerOrLeave \/ Delete \/ LeaveOrOpen
  \/ Receive

BoardSpec == BoardInit /\ [][BoardNext]_boardVars

----------------------------------------------------------------------------
(* Properties.                                                                *)

\* Every change is told, every event and answer has arrived.
Settled ==
  /\ unpublished = {} /\ handling = Nothing /\ wire = <<>> /\ sent = <<>>
  /\ events.queue = <<>> /\ ~events.lagged

Current(t) == view.rows[t] = IF table[t].archived THEN Nothing ELSE table[t]

\* upsert, remove and the refresh: an answer passes the events that waited while
\* it was made, so an older row may come after a newer one; still, once all is
\* delivered, the open board shows the table, but for a card the bus told about
\* in the wrong order or not at all.
CopyCatchesUp ==
  Settled /\ view # Nothing =>
    /\ \A t \in Card : Current(t) \/ t \in overtaken \cup dropped
    /\ view.byDue = byDue \/ Nothing \in dropped

============================================================================
