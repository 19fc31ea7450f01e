----------------------------- MODULE MCDelivery -----------------------------
(* How a slip reaches a printer, for TLC: the slips that are put into the      *)
(* queue, and the jobs of the queue. A behaviour takes the steps of one of the *)
(* two, the other stays where it starts.                                       *)
EXTENDS MCPrintQueue, Slips

VARIABLE lane  \* which machine takes the steps

-----------------------------------------------------------------------------
\* Tasks with both dates and with one, with rules of every moment, and with
\* two rules that are the same slip.
Undated == [start |-> Unset, due |-> Unset, remindStart |-> Unset, remindDue |-> Unset,
            assignees |-> {}, rules |-> {}]
Rule(when, slip, to) == [when |-> when, slip |-> slip, to |-> to, lead |-> 1, users |-> {1, 2, 3}]
MCDrafts ==
  {[Undated EXCEPT !.start = 1, !.due = 2, !.assignees = {1, 2}],
   [Undated EXCEPT !.due = 2, !.remindDue = 0],
   [Undated EXCEPT !.start = 1, !.due = 2,
      !.rules = {Rule("onStart", "task", "users"), Rule("onCreate", "task", "assignees"),
                 Rule("beforeDue", "reminder", "creator")}],
   [Undated EXCEPT !.start = 2,
      !.rules = {Rule("onStart", "task", "assignees"), Rule("onStart", "sheet", "assignees")}]}

MCPrefs ==
  <<[mode |-> "OnStart", filter |-> {"createdByMe", "unlessNotAssignedToMe"}, startLead |-> 1,
     dueLead |-> 1],
    [mode |-> "OnAdd", filter |-> {"assignedToMe"}, startLead |-> Unset, dueLead |-> 0]>>

-----------------------------------------------------------------------------
all == <<vars, slipVars, lane>>

Queue(A) == lane = "queue" /\ A /\ UNCHANGED <<slipVars, lane>>
Slip(A) == lane = "slips" /\ A /\ UNCHANGED <<vars, lane>>

MCInit ==
  /\ lane \in {"queue", "slips"}
  /\ Init /\ SlipsInit
  /\ work[1].at = "print"
  /\ lane # "slips" => task = [Undated EXCEPT !.due = 2, !.remindDue = 0]

\* An edit and a move, two moves, or a move and a stop of the daemon; an edit
\* takes rules away or changes them.
Bounds ==
  /\ edits' + moves' + crashes' <= 2 /\ edits' + crashes' <= 1
  /\ edits' # edits /\ task.rules = {} => task'.rules = {}

MCNext == Queue(Next) \/ (Slip(SlipsNext) /\ Bounds)

\* The fairness of PrintQueue; and that of Slips: the scheduler ticks for
\* ever, a handler that has begun goes on.
MCSpec ==
  /\ MCInit /\ [][MCNext]_all
  /\ WF_all(Queue(Housekeeping)) /\ WF_all(Queue(TimePasses))
  /\ \A a \in Agent : WF_all(Queue(HandingOut(a)))
  /\ \A c \in Conn : WF_all(Queue(Serving(c))) /\ WF_all(Queue(\E ok \in BOOLEAN : PrintSlip(c, ok)))
  /\ WF_all(Slip(SchedulerStep)) /\ \A w \in Worker : WF_all(Slip(HandlerStep(w)))
=============================================================================
