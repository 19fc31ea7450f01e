---------------------------- MODULE Client_proofs ----------------------------
(***************************************************************************)
(* What the client may rely on, for any number of tasks, boards, people,   *)
(* scans and requests.                                                     *)
(*                                                                         *)
(* ClientControl: control codes never act twice, never after they were     *)
(* cancelled, and never take back what somebody else wrote, for any depth  *)
(* of the undo stack.  Two arguments.  A command that is armed, or waits   *)
(* for a board, has an id of its own that is not spent (Fresh).  And every *)
(* version the client holds for an undo, on the stack, in a request or in  *)
(* an answer on its way, is the row's only while a code was the last to    *)
(* write it (Left): each write of the daemon makes the row newer.          *)
(*                                                                         *)
(* Access: who loses a board does not go on seeing it.                     *)
(*                                                                         *)
(* ClientScreens: what is being typed is taken away only by an answer to   *)
(* its own save, to what was asked before its form was opened, or to a     *)
(* control code that acts under any window.                                *)
(*                                                                         *)
(* ClientBoard: the copy of the open board catches up with the daemon.     *)
(***************************************************************************)
EXTENDS ClientControl, Access, ClientScreens, ClientBoard, SequenceTheorems, TLAPS

-----------------------------------------------------------------------------
(* Types.                                                                  *)

Place == (1..Width) \X Int
TaskRow ==
  [col : 1..Width, pos : Int, mine : BOOLEAN, done : BOOLEAN, excluded : BOOLEAN,
   from : (1..Width) \cup {None}, version : Nat]

Drafts == BOOLEAN \X BOOLEAN

Flags == {"Checklist", "Exclude"}
\* A step back holds what was there before, as its kind needs it.
UndoStep ==
  {s \in [kind : {"Move", "Restore", "Update"} \cup Flags, task : Task,
          old : Place \cup BOOLEAN \cup Drafts \cup {None}, version : Nat] :
     /\ s.kind = "Move" => s.old \in Place
     /\ s.kind = "Update" => s.old \in Drafts
     /\ s.kind \in Flags => s.old \in BOOLEAN}

Reading == {"Resolve", "Search", "Lookup", "GetBoard", "PrintTask", "Create"}
FlagWrites == {"SetChecklistItem", "SetExcludeFromStats"}
Pending == {"MoveTask", "DeleteTask", "Print", "ControlOp", "ChecklistOp", "ExcludeFromStats", "Search",
            "Resolve", "Scan", "Restore", "OpenBoard"} \cup Targeted
Value == ((1..Width) \X (Int \cup {None})) \cup BOOLEAN \cup Drafts \cup Board \cup {None}
\* What is sent, with what the daemon needs to act on it.
Sent ==
  {q \in [op : Writing \cup Reading, task : Task \cup {None},
          val : Value, version : Nat, pending : Pending \cup {"Undo"}, step : UndoStep \cup {None}] :
     /\ q.op \in Writing \cup {"Resolve"} => q.task \in Task
     /\ q.op = "MoveTask" => q.val \in (1..Width) \X (Int \cup {None})
     /\ q.op = "UpdateTask" => q.val \in Drafts
     /\ q.op \in FlagWrites => q.val \in BOOLEAN
     /\ q.op \in {"GetBoard", "Lookup"} => q.val \in Board
     /\ q.pending = "Undo" => q.op = "UpdateTask"
     /\ q.step # None => q.op \in Writing \ {"Scan"} /\ q.step.task = q.task}

\* A request that was accepted on a copy of its task.
Taken ==
  {h \in [request : Sent, copy : TaskRow] :
     /\ h.request.op \in Writing
     /\ h.request.op = "RestoreTask" => Archived(h.copy)}

\* A positive answer has the row it is about, or the rows of the board.
Answered ==
  {a \in [request : Sent, ok : BOOLEAN, copy : TaskRow \cup [Task -> TaskRow] \cup {None}] :
     /\ a.ok /\ a.request.op \in Writing \cup {"Resolve"} => a.copy \in TaskRow
     /\ a.ok /\ a.request.op = "GetBoard" => a.copy \in [Task -> TaskRow]}

Command == [command : Arming, sticky : BOOLEAN, id : Nat]
OpenOverlay ==
  {w \in [kind : {"ColumnPick", "TaskDetail", "TaskForm", "StartProgram"},
          task : Task \cup {None}, copy : TaskRow \cup {None}] :
     w.kind = "ColumnPick" => w.task \in Task /\ w.copy \in TaskRow}

TypeOK ==
  /\ row \in [Task -> TaskRow] /\ shown \in [Task -> TaskRow]
  /\ open \in Board \cup {None}
  /\ overlay \in OpenOverlay \cup {None}
  /\ armed \in Command \cup {None} /\ waiting \in Valued \cup {None}
  /\ undo \in Seq(UndoStep)
  /\ afterOpen \in [armed : Command, task : Task] \cup {None}
  /\ requests \in Seq(Sent) /\ held \in Taken \cup {None} /\ answers \in Seq(Answered)
  /\ scans \in Nat /\ edits \in Nat /\ armings \in Nat /\ spent \subseteq Nat
  /\ lastBy \in [Task -> {"else", "code", "undo"}]

-----------------------------------------------------------------------------
\* An id is spent or held once it was given out, and no command is held that
\* is spent: not the armed one, nor the one that waits for its board.
Fresh ==
  /\ \A i \in spent : i <= armings
  /\ armed # None => armed.id <= armings /\ (armed.sticky \/ armed.id \notin spent)
  /\ afterOpen # None =>
       /\ afterOpen.armed.id <= armings
       /\ afterOpen.armed.sticky \/ afterOpen.armed.id \notin spent
       /\ armed # None /\ armed.id = afterOpen.armed.id => armed.sticky /\ afterOpen.armed.sticky

\* The row is newer than version v, or a code left it at v.
Left(t, v) == v <= row[t].version /\ (v = row[t].version => lastBy[t] = "code")

\* What may be kept, sent and answered: the version it names was left by a code.
TrueStep == {s \in UndoStep : s.kind = "Update" => Left(s.task, s.version)}
TrueRequest == {q \in Sent : q.pending = "Undo" => Left(q.task, q.version)}
TrueAnswer ==
  {a \in Answered :
     a.ok /\ a.request.op \in Writing /\ a.request.step # None => Left(a.request.task, a.copy.version)}

Versions ==
  /\ undo \in Seq(TrueStep)
  /\ requests \in Seq(TrueRequest)
  /\ held # None => held.request \in TrueRequest
  /\ answers \in Seq(TrueAnswer)

\* The undo of an edit that was accepted met the version it names.
Compared ==
  held # None /\ held.request.pending = "Undo" => held.copy.version = held.request.version

IInv == TypeOK /\ Fresh /\ Versions /\ Compared

-----------------------------------------------------------------------------
(* Sequences.                                                              *)
LEMMA QueueSteps ==
  ASSUME NEW S, NEW s \in Seq(S)
  PROVE  /\ \A x \in S : Append(s, x) \in Seq(S)
         /\ s # <<>> => Head(s) \in S /\ Tail(s) \in Seq(S)
         /\ s # <<>> => s[Len(s)] \in S /\ SubSeq(s, 1, Len(s) - 1) \in Seq(S)
<1>1. \A x \in S : Append(s, x) \in Seq(S)
  BY AppendProperties
<1>2. ASSUME s # <<>>
      PROVE  Head(s) \in S /\ Tail(s) \in Seq(S)
  BY <1>2, HeadTailProperties
<1>3. ASSUME s # <<>>
      PROVE  s[Len(s)] \in S /\ SubSeq(s, 1, Len(s) - 1) \in Seq(S)
  <2>1. Len(s) \in Nat /\ Len(s) # 0
    BY <1>3, EmptySeq, LenProperties
  <2>2. \A i \in 1..Len(s) : s[i] \in S
    BY ElementOfSeq
  <2>3. SubSeq(s, 1, Len(s) - 1) \in Seq(S)
    BY <2>1, <2>2, SubSeqProperties
  <2> QED
    BY <2>1, <2>2, <2>3
<1> QED
  BY <1>1, <1>2, <1>3

(* What the version a code left is worth when rows are written.            *)
\* Every write makes the row newer.
Newer ==
  \A t \in Task : \/ row'[t].version = row[t].version /\ lastBy'[t] = lastBy[t]
                  \/ row'[t].version > row[t].version

LEMMA StillTrue ==
  ASSUME TypeOK, row' \in [Task -> TaskRow], Newer
  PROVE  TrueStep \subseteq TrueStep' /\ TrueRequest \subseteq TrueRequest' /\ TrueAnswer \subseteq TrueAnswer'
<1>1. ASSUME NEW t \in Task, NEW v \in Nat, Left(t, v)
      PROVE  Left(t, v)'
  <2>1. row[t].version \in Nat /\ row'[t].version \in Nat
    BY DEF TypeOK, TaskRow
  <2> QED
    BY <1>1, <2>1 DEF Left, Newer
<1>2. TrueStep \subseteq TrueStep'
  BY <1>1 DEF TrueStep, UndoStep
<1>3. TrueRequest \subseteq TrueRequest'
  <2> SUFFICES ASSUME NEW q \in TrueRequest, q.pending = "Undo"
               PROVE  Left(q.task, q.version)'
    BY DEF TrueRequest
  <2>1. q.task \in Task /\ q.version \in Nat /\ Left(q.task, q.version)
    BY DEF TrueRequest, Sent, Writing
  <2> QED
    BY <1>1, <2>1
<1>4. TrueAnswer \subseteq TrueAnswer'
  <2> SUFFICES ASSUME NEW a \in TrueAnswer, a.ok, a.request.op \in Writing, a.request.step # None
               PROVE  Left(a.request.task, a.copy.version)'
    BY DEF TrueAnswer
  <2>1. a.request.task \in Task /\ a.copy.version \in Nat /\ Left(a.request.task, a.copy.version)
    BY DEF TrueAnswer, Answered, Sent, TaskRow
  <2> QED
    BY <1>1, <2>1
<1> QED
  BY <1>2, <1>3, <1>4

LEMMA VersionsKept ==
  ASSUME IInv, row' \in [Task -> TaskRow], Newer
  PROVE  undo \in Seq(TrueStep') /\ requests \in Seq(TrueRequest') /\ answers \in Seq(TrueAnswer')
BY StillTrue, SeqMonotonic DEF IInv, Versions

\* The types of the three sequences follow from what they hold.
LEMMA VersionsTyped ==
  Versions => undo \in Seq(UndoStep) /\ requests \in Seq(Sent) /\ answers \in Seq(Answered)
<1>1. TrueStep \subseteq UndoStep /\ TrueRequest \subseteq Sent /\ TrueAnswer \subseteq Answered
  BY DEF TrueStep, TrueRequest, TrueAnswer
<1> QED
  BY <1>1, SeqMonotonic DEF Versions

LEMMA InitHolds == Init => IInv
<1> SUFFICES ASSUME Init PROVE IInv
  OBVIOUS
<1>1. row \in [Task -> TaskRow]
  <2>1. \A p \in 0..Cardinality(Task) - 1 : NewRow(p) \in TaskRow
    BY BoundsAssumption DEF NewRow, TaskRow
  <2> QED
    BY <2>1 DEF Init
<1>2. Versions
  BY EmptySeq DEF Init, Versions
<1>3. TypeOK
  BY <1>1, <1>2, VersionsTyped DEF Init, TypeOK
<1>4. Fresh /\ Compared
  BY DEF Init, Fresh, Compared
<1> QED
  BY <1>2, <1>3, <1>4 DEF IInv

-----------------------------------------------------------------------------
(* The client.  It writes no row; what it sends it may send.               *)
Unwritten == row' = row /\ lastBy' = lastBy

LEMMA SameTruth ==
  ASSUME Unwritten
  PROVE  TrueStep' = TrueStep /\ TrueRequest' = TrueRequest /\ TrueAnswer' = TrueAnswer
BY DEF Unwritten, TrueStep, TrueRequest, TrueAnswer, Left

\* A request that is sent is one more, or none is.
SendsTruly ==
  \/ requests' = requests
  \/ \E q \in TrueRequest : requests' = Append(requests, q)

LEMMA SentTyped ==
  ASSUME IInv, SendsTruly
  PROVE  requests' \in Seq(TrueRequest)
BY QueueSteps DEF SendsTruly, IInv, Versions

\* What is not the undo of an edit is true whatever its version.
LEMMA PlainRequest ==
  ASSUME NEW q \in Sent, q.pending # "Undo"
  PROVE  q \in TrueRequest
BY DEF TrueRequest

LEMMA RequestTyped ==
  ASSUME NEW op \in Writing \cup Reading, NEW t \in Task \cup {None}, NEW v \in Value, NEW n \in Nat,
         NEW p \in Pending \cup {"Undo"}, NEW s \in UndoStep \cup {None},
         op \in Writing \cup {"Resolve"} => t \in Task,
         op = "MoveTask" => v \in (1..Width) \X (Int \cup {None}),
         op = "UpdateTask" => v \in Drafts, op \in FlagWrites => v \in BOOLEAN,
         op \in {"GetBoard", "Lookup"} => v \in Board,
         p = "Undo" => op = "UpdateTask",
         s # None => op \in Writing \ {"Scan"} /\ s.task = t
  PROVE  Request(op, t, v, n, p, s) \in Sent
BY DEF Request, Sent

\* A change that comes with its way back, and a request that changes nothing.
LEMMA ChangeTyped ==
  ASSUME NEW op \in Writing \ {"Scan", "MoveTask"}, NEW t \in Task, NEW v \in BOOLEAN \cup Drafts \cup {None}, NEW n \in Nat,
         NEW p \in Pending, NEW s \in UndoStep \cup {None}, s # None => s.task = t,
         op = "UpdateTask" => v \in Drafts, op \in FlagWrites => v \in BOOLEAN
  PROVE  Request(op, t, v, n, p, s) \in TrueRequest
<1>1. v \in Value
  BY DEF Value
<1>2. p # "Undo"
  BY DEF Pending, Targeted
<1>3. Request(op, t, v, n, p, s) \in Sent
  BY <1>1, <1>2, RequestTyped DEF Writing
<1> QED
  BY <1>2, <1>3, PlainRequest DEF Request

LEMMA ReadTyped ==
  ASSUME NEW op \in Reading, NEW t \in Task \cup {None}, NEW v \in Board \cup {None}, NEW p \in Pending,
         op = "Resolve" => t \in Task, op \in {"GetBoard", "Lookup"} => v \in Board
  PROVE  Request(op, t, v, 0, p, None) \in TrueRequest
<1>1. v \in Value
  BY DEF Value
<1>2. op \notin Writing /\ op \notin FlagWrites /\ op # "MoveTask" /\ op # "UpdateTask" /\ p # "Undo" /\ 0 \in Nat
  BY DEF Reading, Writing, FlagWrites, Pending, Targeted
<1>3. Request(op, t, v, 0, p, None) \in Sent
  BY <1>1, <1>2, RequestTyped
<1> QED
  BY <1>2, <1>3, PlainRequest DEF Request

LEMMA MoveRequestTyped ==
  ASSUME NEW t \in Task, NEW c \in 1..Width, NEW p \in Int \cup {None}, NEW s \in UndoStep \cup {None},
         s # None => s.task = t
  PROVE  MoveRequest(t, c, p, s) \in TrueRequest
<1>1. <<c, p>> \in (1..Width) \X (Int \cup {None}) /\ <<c, p>> \in Value
  BY DEF Value
<1>2. "MoveTask" \in Writing \ {"Scan"} /\ "MoveTask" \notin FlagWrites /\ "MoveTask" \in Pending
  BY DEF Writing, FlagWrites, Pending
<1>3. Request("MoveTask", t, <<c, p>>, 0, "MoveTask", s) \in Sent
  BY <1>1, <1>2, RequestTyped
<1> QED
  BY <1>3, PlainRequest DEF MoveRequest, Request

LEMMA UndoableMoveTyped ==
  ASSUME NEW t \in Task, NEW r \in TaskRow, NEW c \in 1..Width, NEW p \in Int \cup {None},
         UndoableMove(t, r, c, p)
  PROVE  SendsTruly
<1>1. Step("Move", t, <<r.col, r.pos>>) \in UndoStep
  BY DEF Step, UndoStep, TaskRow, Place, Flags
<1>2. Step("Move", t, <<r.col, r.pos>>).task = t
  BY DEF Step
<1> QED
  BY <1>1, <1>2, MoveRequestTyped DEF UndoableMove, Send, SendsTruly

LEMMA SlotTyped ==
  ASSUME TypeOK, NEW c, NEW t \in Task, NEW r \in TaskRow, NEW p \in Slot(c, t, r),
         c \in {"MoveUp", "MoveDown", "MoveTop", "MoveBottom"}
  PROVE  p \in Int
<1>0. \A u \in Task : shown[u].pos \in Int
  BY DEF TypeOK, TaskRow
<1>1. ASSUME NEW S \in SUBSET Task
      PROVE  Above(S) \subseteq Int /\ Below(S) \subseteq Int
  BY <1>0 DEF Above, Below
<1>2. Ahead(t, r) \subseteq Task /\ Behind(t, r) \subseteq Task
  BY DEF Ahead, Behind, Siblings
<1>3. \A A, B \in SUBSET Task :
        {u \in A : \A v \in B : shown[v].pos <= shown[u].pos} \in SUBSET Task
  OBVIOUS
<1> QED
  BY <1>1, <1>2, <1>3 DEF Slot

\* An armed command: the request the keyboard sends, a window, or a refusal.
LEMMA ApplyTyped ==
  ASSUME IInv, NEW a \in Command, NEW t \in Task, NEW r \in TaskRow, ApplyArmed(a, t, r)
  PROVE  SendsTruly /\ overlay' \in OpenOverlay \cup {None}
<1> DEFINE Good == SendsTruly /\ overlay' \in OpenOverlay \cup {None}
<1>0. overlay \in OpenOverlay \cup {None} /\ r.version \in Nat /\ r.col \in 1..Width
  BY DEF IInv, TypeOK, TaskRow
<1>1. ASSUME a.command \in {"MoveLeft", "MoveRight"}, MoveBy(a, t, r)
      PROVE  Good
  BY <1>0, <1>1, UndoableMoveTyped DEF MoveBy, Refuse, SendsTruly
<1>2. ASSUME a.command \in {"MoveUp", "MoveDown", "MoveTop", "MoveBottom"}, Reorder(a, t, r)
      PROVE  Good
  <2>1. CASE open = BoardOf[t] /\ Slot(a.command, t, r) # {}
    <3>1. PICK pos \in Slot(a.command, t, r) : UndoableMove(t, r, r.col, pos) /\ UNCHANGED overlay
      BY <1>2, <2>1 DEF Reorder
    <3>2. pos \in Int
      BY <1>2, SlotTyped DEF IInv
    <3> QED
      BY <1>0, <3>1, <3>2, UndoableMoveTyped
  <2>2. CASE ~(open = BoardOf[t] /\ Slot(a.command, t, r) # {})
    BY <1>0, <1>2, <2>2 DEF Reorder, Refuse, SendsTruly
  <2> QED
    BY <2>1, <2>2
<1>3. ASSUME NEW k \in {"ColumnPick", "TaskDetail", "TaskForm"}, Window(k, t, r)
      PROVE  Good
  BY <1>3 DEF Window, OpenOverlay, SendsTruly
<1>4. ASSUME NEW q \in TrueRequest, Send(q), UNCHANGED overlay
      PROVE  Good
  BY <1>0, <1>4 DEF Send, SendsTruly
<1>6. /\ \A k \in Flags, b \in BOOLEAN : Step(k, t, b) \in UndoStep /\ Step(k, t, b).task = t
      /\ Step("Update", t, Draft(r)) \in UndoStep /\ Step("Update", t, Draft(r)).task = t
      /\ Step("Restore", t, None) \in UndoStep /\ Step("Restore", t, None).task = t
  BY DEF Step, UndoStep, Flags, Draft, Drafts, TaskRow
<1>5. 0 \in Nat /\ (~r.mine) \in BOOLEAN /\ (~r.done) \in BOOLEAN /\ (~r.excluded) \in BOOLEAN
  OBVIOUS
<1>7. r.mine \in BOOLEAN /\ r.done \in BOOLEAN /\ r.excluded \in BOOLEAN
  BY DEF TaskRow
<1>8. CASE a.command = "Delete"
  <2>1. Request("DeleteTask", t, None, 0, "DeleteTask", Step("Restore", t, None)) \in TrueRequest
    BY <1>5, <1>6, ChangeTyped DEF Writing, FlagWrites, Pending
  <2> QED
    BY <1>4, <1>8, <2>1 DEF ApplyArmed
<1>9. CASE a.command = "Print"
  <2>1. Request("PrintTask", t, None, 0, "Print", None) \in TrueRequest
    BY ReadTyped DEF Reading, Pending
  <2> QED
    BY <1>4, <1>9, <2>1 DEF ApplyArmed
<1>10. CASE a.command = "ToggleAssign"
  <2>1. <<~r.mine, r.done>> \in Drafts
    BY <1>5, <1>7 DEF Drafts
  <2>2. Request("UpdateTask", t, <<~r.mine, r.done>>, r.version, "ControlOp",
                Step("Update", t, Draft(r))) \in TrueRequest
    BY <1>0, <1>6, <2>1, ChangeTyped DEF Writing, FlagWrites, Pending
  <2> QED
    BY <1>4, <1>10, <2>2 DEF ApplyArmed
<1>11. CASE a.command = "Checklist"
  <2>1. Request("SetChecklistItem", t, ~r.done, 0, "ChecklistOp", Step("Checklist", t, r.done)) \in TrueRequest
    BY <1>0, <1>5, <1>6, <1>7, ChangeTyped DEF Writing, FlagWrites, Pending, Flags
  <2> QED
    BY <1>4, <1>11, <2>1 DEF ApplyArmed
<1>12. CASE a.command = "Exclude"
  <2>1. Request("SetExcludeFromStats", t, ~r.excluded, 0, "ExcludeFromStats", Step("Exclude", t, r.excluded)) \in TrueRequest
    BY <1>0, <1>5, <1>6, <1>7, ChangeTyped DEF Writing, FlagWrites, Pending, Flags
  <2> QED
    BY <1>4, <1>12, <2>1 DEF ApplyArmed
<1> QED
  BY <1>1, <1>2, <1>3, <1>8, <1>9, <1>10, <1>11, <1>12 DEF ApplyArmed

-----------------------------------------------------------------------------
(* Commands that are held.                                                 *)
Held ==
  /\ armed \in Command \cup {None}
  /\ afterOpen \in [armed : Command, task : Task] \cup {None}
  /\ armings \in Nat /\ spent \subseteq Nat
  /\ Fresh

\* Nothing is armed, used, kept for a board or cancelled.
LEMMA HeldSame ==
  ASSUME Held, UNCHANGED <<armed, afterOpen, armings, spent>>
  PROVE  Held'
BY DEF Held, Fresh

\* A new command replaces the one before.
LEMMA ArmHeld ==
  ASSUME Held, NEW c \in Arming, Arm(c), UNCHANGED afterOpen
  PROVE  Held'
<1>1. armed' \in Command /\ armed'.id = armings + 1 /\ ~armed'.sticky /\ armings' = armings + 1
  BY DEF Held, Arm, Command
<1>2. spent' \subseteq Nat /\ \A i \in spent' : i <= armings
  BY DEF Held, Fresh, Arm, Command
<1>3. afterOpen # None => afterOpen.armed.id \in Nat /\ afterOpen.armed.id <= armings
  BY DEF Held, Fresh, Command
<1>4. afterOpen # None => afterOpen.armed.sticky \/ afterOpen.armed.id \notin spent'
  BY DEF Held, Fresh, Arm, Command
<1>5. Fresh'
  BY <1>1, <1>2, <1>3, <1>4 DEF Held, Fresh
<1> QED
  BY <1>1, <1>2, <1>5 DEF Held

\* A command that acts, and is gone or sticky.
LEMMA UseHeld ==
  ASSUME Held, armed # None, UseArmed, Acts(armed), UNCHANGED <<afterOpen, armings>>
  PROVE  Held'
<1>1. armed \in Command /\ spent' = spent \cup {armed.id}
  BY DEF Held, Acts
<1>2. armed' = None \/ (armed' = armed /\ armed.sticky)
  BY <1>1 DEF UseArmed
<1>3. Fresh'
  BY <1>1, <1>2 DEF Held, Fresh, Command
<1> QED
  BY <1>1, <1>2, <1>3 DEF Held, Command

\* A command that goes along to another board.
LEMMA KeepHeld ==
  ASSUME Held, armed # None, UseArmed, NEW t \in Task, afterOpen' = [armed |-> armed, task |-> t],
         UNCHANGED <<armings, spent>>
  PROVE  Held'
<1>1. armed \in Command
  BY DEF Held
<1>2. armed' = None \/ (armed' = armed /\ armed.sticky)
  BY <1>1 DEF UseArmed
<1>3. afterOpen'.armed = armed
  OBVIOUS
<1>4. Fresh'
  BY <1>1, <1>2, <1>3 DEF Held, Fresh, Command
<1> QED
  BY <1>1, <1>2, <1>4 DEF Held, Command

\* A command that acts on the board it went to.
LEMMA ArriveHeld ==
  ASSUME Held, afterOpen # None, Acts(afterOpen.armed), afterOpen' = None, UNCHANGED <<armed, armings>>
  PROVE  Held'
BY DEF Held, Fresh, Acts, Command

\* A client's step: the daemon's rows are as they were.
LEMMA ClientStep ==
  ASSUME IInv, Unwritten, Held',
         shown' \in [Task -> TaskRow], open' \in Board \cup {None},
         overlay' \in OpenOverlay \cup {None}, waiting' \in Valued \cup {None},
         undo' \in Seq(TrueStep), requests' \in Seq(TrueRequest), answers' \in Seq(TrueAnswer),
         scans' \in Nat, UNCHANGED <<held, edits>>
  PROVE  IInv'
<1>1. Versions' /\ Compared'
  BY SameTruth DEF Versions, IInv, Compared
<1>2. undo' \in Seq(UndoStep) /\ requests' \in Seq(Sent) /\ answers' \in Seq(Answered)
  <2>1. TrueStep \subseteq UndoStep /\ TrueRequest \subseteq Sent /\ TrueAnswer \subseteq Answered
    BY DEF TrueStep, TrueRequest, TrueAnswer
  <2> QED
    BY <2>1, SeqMonotonic
<1>3. TypeOK'
  BY <1>2 DEF TypeOK, IInv, Unwritten, Held
<1> QED
  BY <1>1, <1>3 DEF IInv, Held

\* A scan or a key sends at most one request, and reads no answer.
LEMMA ScanStep ==
  ASSUME IInv, Unwritten, Held', SendsTruly,
         open' \in Board \cup {None}, overlay' \in OpenOverlay \cup {None}, waiting' \in Valued \cup {None},
         undo' \in Seq(TrueStep), UNCHANGED <<shown, held, answers, edits>>, scans' = scans + 1
  PROVE  IInv'
<1>1. requests' \in Seq(TrueRequest)
  BY SentTyped
<1>2. shown' \in [Task -> TaskRow] /\ answers' \in Seq(TrueAnswer) /\ scans' \in Nat
  BY DEF IInv, TypeOK, Versions
<1> QED
  BY <1>1, <1>2, ClientStep

LEMMA UndoTyped ==
  ASSUME NEW s \in TrueStep
  PROVE  UndoRequest(s) \in TrueRequest
<1>1. s \in UndoStep /\ s.task \in Task /\ s.version \in Nat
  BY DEF TrueStep, UndoStep
<1>2. s.kind \in {"Move", "Restore", "Update", "Checklist", "Exclude"}
  BY <1>1 DEF UndoStep, Flags
<1>3. CASE s.kind = "Move"
  <2>1. s.old[1] \in 1..Width /\ s.old[2] \in Int
    BY <1>1, <1>3 DEF UndoStep, Place
  <2> QED
    BY <1>1, <1>3, <2>1, MoveRequestTyped DEF UndoRequest
<1>4. CASE s.kind = "Update"
  <2>1. s.old \in Drafts /\ s.old \in Value
    BY <1>1, <1>4 DEF UndoStep, Value
  <2>2. Request("UpdateTask", s.task, s.old, s.version, "Undo", None) \in Sent
    BY <1>1, <2>1, RequestTyped DEF Writing, FlagWrites
  <2> QED
    BY <1>4, <2>2 DEF UndoRequest, TrueRequest, TrueStep, Request
<1>5. CASE s.kind = "Restore"
  BY <1>1, <1>5, ChangeTyped DEF UndoRequest, Writing, FlagWrites, Pending
<1>6. CASE s.kind = "Checklist"
  <2>1. s.old \in BOOLEAN
    BY <1>1, <1>6 DEF UndoStep, Flags
  <2> QED
    BY <1>1, <1>6, <2>1, ChangeTyped DEF UndoRequest, Writing, FlagWrites, Pending
<1>7. CASE s.kind = "Exclude"
  <2>1. s.old \in BOOLEAN
    BY <1>1, <1>7 DEF UndoStep, Flags
  <2> QED
    BY <1>1, <1>7, <2>1, ChangeTyped DEF UndoRequest, Writing, FlagWrites, Pending
<1> QED
  BY <1>2, <1>3, <1>4, <1>5, <1>6, <1>7

-----------------------------------------------------------------------------
(* Scans and keys.                                                         *)
LEMMA ScansHold ==
  ASSUME IInv, Scan
  PROVE  IInv'
<1> DEFINE Unmoved == UNCHANGED <<armed, afterOpen, armings, spent>>
<1>1. Held /\ scans \in Nat
  BY DEF IInv, Held, TypeOK
<1>2. /\ open \in Board \cup {None} /\ overlay \in OpenOverlay \cup {None}
      /\ waiting \in Valued \cup {None} /\ undo \in Seq(TrueStep)
  BY DEF IInv, TypeOK, Versions
<1>3. UNCHANGED requests => SendsTruly
  BY DEF SendsTruly
<1>4. \A q \in TrueRequest : Send(q) => SendsTruly
  BY DEF Send, SendsTruly
<1>5. ASSUME NEW c \in Commands, ScanCommand(c)
      PROVE  IInv'
  <2>1. Held'
    BY <1>1, <1>5, ArmHeld DEF ScanCommand
  <2> QED
    BY <1>2, <1>3, <1>5, <2>1, ScanStep DEF ScanCommand, Scanning, Unwritten
<1>6. ASSUME NEW c \in Commands, ScanValued(c)
      PROVE  IInv'
  BY <1>1, <1>2, <1>3, <1>6, HeldSame, ScanStep DEF ScanValued, Scanning, Unwritten
<1>7. ASSUME NEW c \in Commands, ScanTargeted(c)
      PROVE  IInv'
  <2>1. PICK b \in Board : Send(Request("Lookup", None, b, 0, c, None))
    BY <1>7 DEF ScanTargeted
  <2>2. Request("Lookup", None, b, 0, c, None) \in TrueRequest
    BY <1>7, ReadTyped DEF ScanTargeted, Reading, Pending
  <2> QED
    BY <1>1, <1>2, <1>4, <1>7, <2>1, <2>2, HeldSame, ScanStep DEF ScanTargeted, Scanning, Unwritten, client
<1>8. ASSUME NEW t \in Task
      PROVE  Resolve(t) \in TrueRequest
  BY ReadTyped DEF Resolve, Reading, Pending
<1>9. ASSUME NEW t \in Task, ScanTask(t)
      PROVE  IInv'
  <2>1. Request("Scan", t, None, 0, "Scan", None) \in TrueRequest
    <3>1. None \in Value
      BY DEF Value
    <3>2. Request("Scan", t, None, 0, "Scan", None) \in Sent
      BY <3>1, RequestTyped DEF Writing, FlagWrites, Pending
    <3> QED
      BY <3>2, PlainRequest DEF Request
  <2>2. SendsTruly
    BY <1>3, <1>4, <1>8, <1>9, <2>1 DEF ScanTask
  <2> QED
    BY <1>1, <1>2, <1>9, <2>2, HeldSame, ScanStep DEF ScanTask, Scanning, Unwritten, client
<1>10. ASSUME NEW t \in Task, ScanShow(t)
       PROVE  IInv'
  <2>1. Held'
    BY <1>1, <1>10, ArmHeld DEF ScanShow, Arming
  <2> QED
    BY <1>2, <1>4, <1>8, <1>10, <2>1, ScanStep DEF ScanShow, Scanning, Unwritten
<1>11. ASSUME NEW t \in Task, ScanSelected(t)
       PROVE  IInv'
  <2>1. Held'
    BY <1>1, <1>11, UseHeld DEF ScanSelected
  <2>2. SendsTruly /\ overlay' \in OpenOverlay \cup {None}
    <3>1. armed \in Command /\ shown[t] \in TaskRow
      BY <1>11 DEF ScanSelected, IInv, TypeOK
    <3> QED
      BY <1>11, <3>1, ApplyTyped DEF ScanSelected
  <2> QED
    BY <1>2, <1>11, <2>1, <2>2, ScanStep DEF ScanSelected, Unwritten
<1>12. ASSUME ScanValue
       PROVE  IInv'
  <2>1. Request("Search", None, None, 0, "Search", None) \in TrueRequest
    BY ReadTyped DEF Reading, Pending
  <2>2. SendsTruly /\ open' \in Board \cup {None}
    BY <1>2, <1>3, <1>4, <1>12, <2>1 DEF ScanValue
  <2> QED
    BY <1>1, <1>2, <1>12, <2>2, HeldSame, ScanStep DEF ScanValue, Scanning, Unwritten
<1>13. ASSUME ScanSticky
       PROVE  IInv'
  <2>1. armed \in Command /\ armed'.sticky /\ armed'.id = armed.id /\ armed' \in Command
    BY <1>1, <1>13 DEF ScanSticky, Held, Command
  <2>2. afterOpen # None /\ armed.id = afterOpen.armed.id => afterOpen.armed.sticky
    BY <1>1, <1>13 DEF ScanSticky, Held, Fresh
  <2>3. Held'
    BY <1>1, <1>13, <2>1, <2>2 DEF ScanSticky, Held, Fresh
  <2> QED
    BY <1>2, <1>3, <1>13, <2>3, ScanStep DEF ScanSticky, Scanning, Unwritten
<1>14. ASSUME ScanUndo
       PROVE  IInv'
  <2>1. undo[Len(undo)] \in TrueStep /\ undo' \in Seq(TrueStep)
    BY <1>2, <1>14, QueueSteps DEF ScanUndo
  <2> QED
    BY <1>1, <1>2, <1>4, <1>14, <2>1, UndoTyped, HeldSame, ScanStep DEF ScanUndo, Scanning, Unwritten
<1>15. ASSUME Cancel
       PROVE  IInv'
  <2>1. Held'
    BY <1>1, <1>15 DEF Cancel, Held, Fresh, Command
  <2> QED
    BY <1>2, <1>3, <1>15, <2>1, ScanStep DEF Cancel, Scanning, Unwritten
<1>16. ASSUME PickColumn
       PROVE  IInv'
  <2>1. overlay.task \in Task /\ overlay.copy \in TaskRow
    BY <1>2, <1>16 DEF PickColumn, OpenOverlay
  <2>2. SendsTruly
    BY <1>3, <1>16, <2>1, UndoableMoveTyped DEF PickColumn
  <2> QED
    BY <1>1, <1>2, <1>16, <2>2, HeldSame, ScanStep DEF PickColumn, Scanning, Unwritten
<1>17. ASSUME CloseWindow
       PROVE  IInv'
  BY <1>1, <1>2, <1>3, <1>17, HeldSame, ScanStep DEF CloseWindow, Scanning, Unwritten
<1>18. ASSUME NEW b \in Board, OpenBoard(b)
       PROVE  IInv'
  <2>1. GetBoard(b, None) \in TrueRequest
    BY ReadTyped DEF GetBoard, Reading, Pending
  <2> QED
    BY <1>1, <1>2, <1>4, <1>18, <2>1, HeldSame, ScanStep DEF OpenBoard, Scanning, Unwritten, client
<1>19. ASSUME LeaveBoard
       PROVE  IInv'
  BY <1>1, <1>2, <1>3, <1>19, HeldSame, ScanStep DEF LeaveBoard, Scanning, Unwritten
<1> QED
  BY <1>5, <1>6, <1>7, <1>9, <1>10, <1>11, <1>12, <1>13, <1>14, <1>15, <1>16, <1>17, <1>18, <1>19 DEF Scan

-----------------------------------------------------------------------------
(* The daemon.                                                             *)

\* A row that is written is newer; the others stay.
LEMMA ChangedNewer ==
  ASSUME TypeOK, NEW t \in Task, NEW r \in TaskRow, NEW by \in {"else", "code", "undo"},
         Changed(t, r, by), r.version = row[t].version
  PROVE  /\ row' \in [Task -> TaskRow] /\ lastBy' \in [Task -> {"else", "code", "undo"}]
         /\ Newer /\ lastBy'[t] = by /\ row'[t] \in TaskRow
<1>1. [r EXCEPT !.version = @ + 1] \in TaskRow /\ [r EXCEPT !.version = @ + 1].version = r.version + 1
  BY DEF TaskRow
<1>2. r.version \in Nat
  BY DEF TaskRow
<1> QED
  BY <1>1, <1>2 DEF TypeOK, Changed, Newer

\* The daemon's step leaves the client as it is.
LEMMA DaemonStep ==
  ASSUME IInv, row' \in [Task -> TaskRow], lastBy' \in [Task -> {"else", "code", "undo"}], Newer,
         requests' = requests \/ (requests # <<>> /\ requests' = Tail(requests)),
         held' \in Taken \cup {None}, Compared',
         held' # None => held'.request \in TrueRequest',
         answers' = answers \/ \E a \in TrueAnswer' : answers' = Append(answers, a),
         UNCHANGED <<shown, client, scans, armings, spent>>, edits' \in Nat
  PROVE  IInv'
<1>1. undo' \in Seq(TrueStep')
  BY VersionsKept DEF client
<1>2. requests' \in Seq(TrueRequest')
  <2>1. requests \in Seq(TrueRequest')
    BY VersionsKept
  <2> QED
    BY <2>1, QueueSteps
<1>3. answers' \in Seq(TrueAnswer')
  <2>1. answers \in Seq(TrueAnswer')
    BY VersionsKept
  <2>2. ASSUME NEW S, answers \in Seq(S), NEW a \in S
        PROVE  Append(answers, a) \in Seq(S)
    BY <2>2, QueueSteps
  <2> QED
    BY <2>1, <2>2
<1>4. Versions'
  BY <1>1, <1>2, <1>3 DEF Versions
<1>5. undo' \in Seq(UndoStep) /\ requests' \in Seq(Sent) /\ answers' \in Seq(Answered)
  <2>1. TrueStep' \subseteq UndoStep /\ TrueRequest' \subseteq Sent /\ TrueAnswer' \subseteq Answered
    BY DEF TrueStep, TrueRequest, TrueAnswer
  <2> QED
    BY <1>4, <2>1, SeqMonotonic DEF Versions
<1>6. TypeOK'
  BY <1>5 DEF IInv, TypeOK, client, Taken, Archived
<1>7. Fresh'
  BY DEF IInv, Fresh, client
<1> QED
  BY <1>4, <1>6, <1>7 DEF IInv

LEMMA SameRowsNewer == Unwritten => Newer
BY DEF Unwritten, Newer

\* What is held when the daemon does nothing with it.
LEMMA HeldKept ==
  ASSUME IInv, row' \in [Task -> TaskRow], Newer, held' = held
  PROVE  held' \in Taken \cup {None} /\ Compared' /\ (held' # None => held'.request \in TrueRequest')
<1>1. TrueRequest \subseteq TrueRequest'
  BY StillTrue DEF IInv
<1>2. held \in Taken \cup {None} /\ Compared /\ (held # None => held.request \in TrueRequest)
  BY DEF IInv, TypeOK, Versions
<1> QED
  BY <1>1, <1>2 DEF Compared

LEMMA PlacesTyped ==
  ASSUME TypeOK, NEW t \in Task, NEW col
  PROVE  EndOf(t, col) \subseteq Int
<1>1. \A u \in Task : row[u].pos \in Int
  BY DEF TypeOK, TaskRow
<1> DEFINE there == {row[u].pos : u \in {v \in Task : /\ BoardOf[v] = BoardOf[t] /\ row[v].col = col
                                                     /\ ~Archived(row[v])}}
<1>2. there \subseteq Int
  BY <1>1
<1>3. EndOf(t, col) = IF there = {} THEN {0} ELSE {p + 1 : p \in {x \in there : \A y \in there : y <= x}}
  BY DEF EndOf
<1> HIDE DEF there
<1> QED
  BY <1>2, <1>3

\* A row that is written stays a row of its version, until the version is counted.
LEMMA PlacedTyped ==
  ASSUME NEW r \in TaskRow, NEW c \in 1..Width, NEW p \in Int
  PROVE  Placed(r, c, p) \in TaskRow /\ Placed(r, c, p).version = r.version
<1>0. [r EXCEPT !.col = c] \in TaskRow /\ [r EXCEPT !.col = c].version = r.version
  BY DEF TaskRow
<1>1. PICK x \in TaskRow : x = [r EXCEPT !.col = c] /\ x.version = r.version
  BY <1>0
<1>2. [x EXCEPT !.pos = p] \in TaskRow /\ [x EXCEPT !.pos = p].version = x.version
  BY DEF TaskRow
<1>3. Placed(r, c, p) = [x EXCEPT !.pos = p]
  BY <1>1 DEF Placed
<1> QED
  BY <1>1, <1>2, <1>3

LEMMA DraftedTyped ==
  ASSUME NEW r \in TaskRow, NEW d \in Drafts
  PROVE  Drafted(r, d) \in TaskRow /\ Drafted(r, d).version = r.version
<1>0. d[1] \in BOOLEAN /\ d[2] \in BOOLEAN
  BY DEF Drafts
<1>1. [r EXCEPT !.mine = d[1]] \in TaskRow /\ [r EXCEPT !.mine = d[1]].version = r.version
  BY <1>0 DEF TaskRow
<1>2. PICK x \in TaskRow : x = [r EXCEPT !.mine = d[1]] /\ x.version = r.version
  BY <1>1
<1>3. [x EXCEPT !.done = d[2]] \in TaskRow /\ [x EXCEPT !.done = d[2]].version = x.version
  BY <1>0 DEF TaskRow
<1>4. Drafted(r, d) = [x EXCEPT !.done = d[2]]
  BY <1>2 DEF Drafted
<1> QED
  BY <1>2, <1>3, <1>4

LEMMA FlagTyped ==
  ASSUME NEW r \in TaskRow, NEW b \in BOOLEAN
  PROVE  /\ [r EXCEPT !.done = b] \in TaskRow /\ [r EXCEPT !.done = b].version = r.version
         /\ [r EXCEPT !.excluded = b] \in TaskRow /\ [r EXCEPT !.excluded = b].version = r.version
<1>1. [r EXCEPT !.done = b] \in TaskRow /\ [r EXCEPT !.done = b].version = r.version
  BY DEF TaskRow
<1>2. [r EXCEPT !.excluded = b] \in TaskRow /\ [r EXCEPT !.excluded = b].version = r.version
  BY DEF TaskRow
<1> QED
  BY <1>1, <1>2

LEMMA ArchiveTyped ==
  ASSUME NEW r \in TaskRow, NEW c \in (1..Width) \cup {None}
  PROVE  [r EXCEPT !.from = c] \in TaskRow /\ [r EXCEPT !.from = c].version = r.version
BY DEF TaskRow

LEMMA WrittenTyped ==
  ASSUME TypeOK, NEW q \in Sent, q.op \in Writing, NEW copy \in TaskRow, NEW old \in TaskRow,
         q.op = "RestoreTask" => Archived(copy), NEW r \in Written(q, copy, old)
  PROVE  r \in TaskRow /\ r.version = old.version
<1>0. q.task \in Task
  BY DEF Sent
<1>1. \A col : EndOf(q.task, col) \subseteq Int
  BY <1>0, PlacesTyped
<1>2. CASE q.op = "UpdateTask"
  <2>1. PICK d \in Drafts : q.val = d
    BY <1>2 DEF Sent
  <2>2. r = Drafted(old, d)
    BY <1>2, <2>1 DEF Written
  <2> QED
    BY <2>2, DraftedTyped
<1>3. CASE q.op = "SetChecklistItem"
  <2>1. PICK b \in BOOLEAN : q.val = b
    BY <1>3 DEF Sent, FlagWrites
  <2>2. r = [old EXCEPT !.done = b]
    BY <1>3, <2>1 DEF Written
  <2> QED
    BY <2>2, FlagTyped
<1>4. CASE q.op = "SetExcludeFromStats"
  <2>1. PICK b \in BOOLEAN : q.val = b
    BY <1>4 DEF Sent, FlagWrites
  <2>2. r = [old EXCEPT !.excluded = b]
    BY <1>4, <2>1 DEF Written
  <2> QED
    BY <2>2, FlagTyped
<1>5. CASE q.op = "DeleteTask"
  <2>1. PICK c \in 1..Width : c = old.col
    BY DEF TaskRow
  <2>2. r = [old EXCEPT !.from = c]
    BY <1>5, <2>1 DEF Written
  <2> QED
    BY <2>2, ArchiveTyped
<1>6. CASE q.op = "RestoreTask"
  <2>1. PICK c \in 1..Width : c = copy.from
    BY <1>6 DEF Archived, TaskRow
  <2>2. PICK p \in EndOf(q.task, c) : r = Placed([old EXCEPT !.from = None], c, p)
    BY <1>6, <2>1 DEF Written
  <2>3. PICK x \in TaskRow : x = [old EXCEPT !.from = None] /\ x.version = old.version
    BY ArchiveTyped
  <2>4. p \in Int
    BY <1>1
  <2> QED
    BY <2>2, <2>3, <2>4, PlacedTyped
<1>7. CASE q.op = "MoveTask"
  <2>1. q.val \in (1..Width) \X (Int \cup {None})
    BY <1>7 DEF Sent
  <2>2. PICK c \in 1..Width : q.val[1] = c
    BY <2>1
  <2>3. PlaceFor(q, copy) \subseteq Int
    <3>1. q.val[2] \in Int \cup {None}
      BY <2>1
    <3>2. copy.pos \in Int
      BY DEF TaskRow
    <3> QED
      BY <1>1, <3>1, <3>2 DEF PlaceFor
  <2>4. PICK p \in PlaceFor(q, copy) : r = Placed(old, c, p)
    BY <1>7, <2>2 DEF Written
  <2> QED
    BY <2>3, <2>4, PlacedTyped
<1>8. CASE q.op = "Scan"
  <2>1. Width \in 1..Width
    BY BoundsAssumption
  <2>2. PICK p \in EndOf(q.task, Width) : r = Placed(old, Width, p)
    BY <1>8 DEF Written
  <2> QED
    BY <1>1, <2>1, <2>2, PlacedTyped
<1> QED
  BY <1>2, <1>3, <1>4, <1>5, <1>6, <1>7, <1>8 DEF Writing

\* A request is taken from the queue, and answered or held.
LEMMA TakeHolds ==
  ASSUME IInv, LoadTask \/ Respond
  PROVE  IInv'
<1>0. PICK q \in TrueRequest : q = Head(requests)
  BY QueueSteps DEF IInv, Versions, LoadTask, Respond
<1>1. q \in Sent /\ held = None /\ requests # <<>> /\ requests' = Tail(requests)
  BY DEF LoadTask, Respond, TrueRequest
<1>2. TypeOK /\ edits' \in Nat /\ Unwritten /\ UNCHANGED <<shown, client, scans, armings, spent>>
  BY DEF IInv, TypeOK, LoadTask, Respond, DaemonOnly, Unwritten
<1>3. row' \in [Task -> TaskRow] /\ lastBy' \in [Task -> {"else", "code", "undo"}] /\ Newer
  BY <1>2, SameRowsNewer DEF Unwritten, TypeOK
<1>4. held' = held => /\ held' \in Taken \cup {None} /\ Compared'
                      /\ (held' # None => held'.request \in TrueRequest')
  BY <1>3, HeldKept
<1>5. ASSUME Answer(q, FALSE, None), held' = held
      PROVE  IInv'
  <2>1. [request |-> q, ok |-> FALSE, copy |-> None] \in TrueAnswer'
    BY <1>1 DEF TrueAnswer, Answered
  <2> QED
    BY <1>1, <1>2, <1>3, <1>4, <1>5, <2>1, DaemonStep DEF Answer
<1>6. ASSUME q.op \in Writing, Accepts(q, row[q.task]), answers' = answers,
             held' = [request |-> q, copy |-> row[q.task]]
      PROVE  IInv'
  <2>1. q.task \in Task /\ row[q.task] \in TaskRow
    BY <1>1, <1>2, <1>6 DEF Sent, TypeOK
  <2>2. held' \in Taken
    BY <1>1, <1>6, <2>1 DEF Taken, Accepts, Fits
  <2>3. q.pending = "Undo" => q.op = "UpdateTask"
    BY <1>1 DEF Sent
  <2>4. Compared'
    BY <1>6, <2>3 DEF Compared, Accepts
  <2>5. held'.request \in TrueRequest'
    BY <1>0, <1>2, <1>6, SameTruth
  <2> QED
    BY <1>1, <1>2, <1>3, <1>6, <2>2, <2>4, <2>5, DaemonStep
<1>7. ASSUME q.op \notin Writing, held' = held,
             Answer(q, TRUE, IF q.op = "Resolve" THEN row[q.task] ELSE row)
      PROVE  IInv'
  <2> DEFINE a == [request |-> q, ok |-> TRUE, copy |-> IF q.op = "Resolve" THEN row[q.task] ELSE row]
  <2>1. q.op = "Resolve" => row[q.task] \in TaskRow
    BY <1>1, <1>2 DEF Sent, TypeOK
  <2>2. a \in TrueAnswer'
    BY <1>1, <1>2, <1>7, <2>1 DEF TrueAnswer, Answered, TypeOK
  <2>3. answers' = Append(answers, a)
    BY <1>7 DEF Answer
  <2> QED
    BY <1>1, <1>2, <1>3, <1>4, <1>7, <2>2, <2>3, DaemonStep
<1> QED
  BY <1>0, <1>1, <1>5, <1>6, <1>7 DEF LoadTask, Respond

\* The write of the request that is held.
LEMMA WriteHolds ==
  ASSUME IInv, WriteTask
  PROVE  IInv'
<1>0. held \in Taken /\ held' = None /\ TypeOK
  BY DEF WriteTask, IInv, TypeOK
<1>1. PICK q \in Sent : q = held.request /\ q.op \in Writing /\ q.task \in Task
  BY <1>0 DEF Taken, Sent
<1>2. edits' \in Nat /\ requests' = requests /\ UNCHANGED <<shown, client, scans, armings, spent>>
  BY DEF IInv, TypeOK, WriteTask, DaemonOnly
<1>3. PICK r \in Written(q, held.copy, row[q.task]) :
        Changed(q.task, r, By(q)) /\ Answer(q, TRUE, row'[q.task])
  BY <1>1 DEF WriteTask
<1>4. r \in TaskRow /\ r.version = row[q.task].version
  <2>1. held.copy \in TaskRow /\ (q.op = "RestoreTask" => Archived(held.copy))
    BY <1>0, <1>1 DEF Taken
  <2>2. row[q.task] \in TaskRow
    BY <1>0, <1>1 DEF TypeOK
  <2> QED
    BY <1>0, <1>1, <1>3, <2>1, <2>2, WrittenTyped
<1>5. By(q) \in {"else", "code", "undo"} /\ (q.step # None => By(q) = "code")
  BY <1>1 DEF By, Sent
<1>6. /\ row' \in [Task -> TaskRow] /\ lastBy' \in [Task -> {"else", "code", "undo"}]
      /\ Newer /\ lastBy'[q.task] = By(q) /\ row'[q.task] \in TaskRow
  BY <1>0, <1>1, <1>3, <1>4, <1>5, ChangedNewer
<1>7. PICK c \in TaskRow : c = row'[q.task]
  BY <1>6
<1>8. PICK a : a = [request |-> q, ok |-> TRUE, copy |-> c]
  OBVIOUS
<1>9. a \in Answered /\ a.request = q /\ a.copy = c
  BY <1>1, <1>8 DEF Answered, Writing
<1>10. a \in TrueAnswer'
  <2>1. c.version \in Nat
    BY DEF TaskRow
  <2>2. q.step # None => Left(q.task, c.version)'
    BY <1>5, <1>6, <1>7, <2>1 DEF Left
  <2> QED
    BY <1>9, <2>2 DEF TrueAnswer
<1>11. answers' = Append(answers, a)
  BY <1>3, <1>7, <1>8 DEF Answer
<1>12. Compared'
  BY <1>0 DEF Compared
<1> QED
  BY <1>0, <1>2, <1>6, <1>10, <1>11, <1>12, DaemonStep

LEMMA OtherEditHolds ==
  ASSUME IInv, NEW t \in Task, OtherEdit(t)
  PROVE  IInv'
<1>1. PICK r \in TaskRow : Changed(t, r, "else") /\ r.version = row[t].version
  <2>1. row[t] \in TaskRow
    BY DEF IInv, TypeOK
  <2>2. /\ [row[t] EXCEPT !.mine = ~@] \in TaskRow /\ [row[t] EXCEPT !.done = ~@] \in TaskRow
        /\ \A c \in 1..Width : [row[t] EXCEPT !.col = c] \in TaskRow
    BY <2>1 DEF TaskRow
  <2>3. /\ [row[t] EXCEPT !.mine = ~@].version = row[t].version
        /\ [row[t] EXCEPT !.done = ~@].version = row[t].version
        /\ \A c \in 1..Width : [row[t] EXCEPT !.col = c].version = row[t].version
    BY <2>1 DEF TaskRow
  <2> QED
    BY <2>2, <2>3 DEF OtherEdit
<1>2. row' \in [Task -> TaskRow] /\ lastBy' \in [Task -> {"else", "code", "undo"}] /\ Newer
  BY <1>1, ChangedNewer DEF IInv
<1>3. edits' \in Nat /\ held' = held
  BY DEF OtherEdit, IInv, TypeOK
<1> QED
  BY <1>2, <1>3, HeldKept, DaemonStep DEF OtherEdit

-----------------------------------------------------------------------------
(* Answers.                                                                *)
LEMMA RememberedTyped ==
  ASSUME IInv, NEW a \in TrueAnswer, a.ok, a.request.op \in Writing
  PROVE  Remembered(a.request.step, a.copy) \in Seq(TrueStep)
<1> DEFINE step == a.request.step
           r == a.copy
           s == IF step.kind = "Update" THEN [step EXCEPT !.version = r.version] ELSE step
<1>1. undo \in Seq(TrueStep)
  BY DEF IInv, Versions
<1>2. CASE step = None
  BY <1>1, <1>2 DEF Remembered
<1>3. CASE step # None
  <2>1. step \in UndoStep /\ step.task = a.request.task /\ r \in TaskRow
    BY <1>3 DEF TrueAnswer, Answered, Sent
  <2>2. Left(a.request.task, r.version) /\ r.version \in Nat
    BY <1>3, <2>1 DEF TrueAnswer, TaskRow
  <2>3. s \in TrueStep
    BY <2>1, <2>2 DEF TrueStep, UndoStep
  <2>4. Append(undo, s) \in Seq(TrueStep) /\ Append(undo, s) # <<>>
    BY <1>1, <2>3, AppendProperties
  <2>5. Tail(Append(undo, s)) \in Seq(TrueStep)
    BY <2>4, QueueSteps
  <2> QED
    BY <1>3, <2>4, <2>5 DEF Remembered
<1> QED
  BY <1>2, <1>3

LEMMA OnAnswerHolds ==
  ASSUME IInv, OnAnswer
  PROVE  IInv'
<1>1. PICK a \in TrueAnswer : a = Head(answers)
  BY QueueSteps DEF IInv, Versions, OnAnswer
<1>2. answers' \in Seq(TrueAnswer) /\ Unwritten /\ scans' \in Nat /\ UNCHANGED <<held, edits, armings>>
  BY QueueSteps DEF IInv, Versions, TypeOK, OnAnswer, Unwritten
<1>3. /\ Held /\ a \in Answered /\ a.request \in Sent
      /\ open \in Board \cup {None} /\ overlay \in OpenOverlay \cup {None}
      /\ waiting \in Valued \cup {None} /\ undo \in Seq(TrueStep)
      /\ requests \in Seq(TrueRequest) /\ shown \in [Task -> TaskRow]
  BY DEF IInv, Held, TypeOK, Versions, TrueAnswer, Answered
<1>4. Idle => UNCHANGED spent
  BY DEF Idle
<1>5. \A q \in TrueRequest : Send(q) => requests' \in Seq(TrueRequest)
  BY SentTyped DEF Send, SendsTruly
<1>6. ASSUME TaskAnswer(a)
      PROVE  IInv'
  <2>1. undo' \in Seq(TrueStep) /\ shown' \in [Task -> TaskRow]
    <3>1. CASE a.ok
      <4>1. a.copy \in TaskRow
        BY <1>3, <1>6, <3>1 DEF TaskAnswer, Answered
      <4> QED
        BY <1>3, <1>6, <3>1, <4>1, RememberedTyped DEF TaskAnswer, Upsert
    <3>2. CASE ~a.ok
      BY <1>3, <1>6, <3>2 DEF TaskAnswer
    <3> QED
      BY <3>1, <3>2
  <2> QED
    BY <1>2, <1>3, <1>4, <1>6, <2>1, HeldSame, ClientStep DEF TaskAnswer
<1>7. ASSUME Resolved(a)
      PROVE  IInv'
  <2>1. a.request.task \in Task /\ a.copy \in TaskRow
    BY <1>3, <1>7 DEF Resolved, Answered, Sent
  <2> DEFINE t == a.request.task
  <2>2. CASE armed = None
    BY <1>2, <1>3, <1>4, <1>7, <2>2, HeldSame, ClientStep DEF Resolved
  <2>3. CASE armed # None /\ open \notin {None, BoardOf[t]}
    <3>1. GetBoard(BoardOf[t], t) \in TrueRequest
      BY <2>1, ReadTyped, BoardsAssumption DEF GetBoard, Reading, Pending
    <3>2. Held'
      BY <1>2, <1>3, <1>4, <1>7, <2>1, <2>3, KeepHeld DEF Resolved
    <3> QED
      BY <1>2, <1>3, <1>5, <1>7, <2>3, <3>1, <3>2, ClientStep DEF Resolved
  <2>4. CASE armed # None /\ open \in {None, BoardOf[t]}
    <3>1. ApplyArmed(armed, t, a.copy) /\ armed \in Command
      BY <1>3, <1>7, <2>4 DEF Resolved, Held
    <3>2. requests' \in Seq(TrueRequest) /\ overlay' \in OpenOverlay \cup {None}
      BY <2>1, <3>1, ApplyTyped, SentTyped
    <3>3. Held'
      BY <1>2, <1>3, <1>7, <2>4, UseHeld DEF Resolved
    <3> QED
      BY <1>2, <1>3, <1>7, <3>2, <3>3, ClientStep DEF Resolved
  <2> QED
    BY <2>2, <2>3, <2>4
<1>8. ASSUME BoardAnswer(a)
      PROVE  IInv'
  <2>1. a.copy \in [Task -> TaskRow] /\ open' \in Board \cup {None} /\ shown' \in [Task -> TaskRow]
    <3>1. a.copy \in [Task -> TaskRow] /\ a.request.val \in Board
      BY <1>3, <1>8 DEF BoardAnswer, Answered, Sent
    <3> QED
      BY <1>3, <1>8, <3>1 DEF BoardAnswer
  <2>2. CASE ~(afterOpen # None /\ afterOpen.task = a.request.task)
    BY <1>2, <1>3, <1>4, <1>8, <2>1, <2>2, HeldSame, ClientStep DEF BoardAnswer
  <2>3. CASE afterOpen # None /\ afterOpen.task = a.request.task
    <3>1. afterOpen' = None /\ armed' = armed /\ afterOpen.armed \in Command /\ afterOpen.task \in Task
      BY <1>3, <1>8, <2>3 DEF BoardAnswer, Held
    <3>2. CASE Archived(a.copy[afterOpen.task])
      <4>1. Held'
        BY <1>2, <1>3, <1>4, <1>8, <2>3, <3>1, <3>2 DEF BoardAnswer, Held, Fresh
      <4> QED
        BY <1>2, <1>3, <1>8, <2>1, <2>3, <3>2, <4>1, ClientStep DEF BoardAnswer
    <3>3. CASE ~Archived(a.copy[afterOpen.task])
      <4>1. ApplyArmed(afterOpen.armed, afterOpen.task, a.copy[afterOpen.task]) /\ Acts(afterOpen.armed)
        BY <1>8, <2>3, <3>3 DEF BoardAnswer
      <4>2. requests' \in Seq(TrueRequest) /\ overlay' \in OpenOverlay \cup {None}
        BY <2>1, <3>1, <4>1, ApplyTyped, SentTyped
      <4>3. Held'
        BY <1>2, <1>3, <2>3, <3>1, <4>1, ArriveHeld
      <4> QED
        BY <1>2, <1>3, <1>8, <2>1, <4>2, <4>3, ClientStep DEF BoardAnswer
    <3> QED
      BY <3>2, <3>3
  <2> QED
    BY <2>2, <2>3
<1>9. ASSUME Found(a)
      PROVE  IInv'
  <2>1. requests' \in Seq(TrueRequest) /\ overlay' \in OpenOverlay \cup {None}
    <3>1. CASE a.request.pending = "ShowBoard" /\ Send(GetBoard(a.request.val, None)) /\ UNCHANGED overlay
      <4>1. a.request.val \in Board
        BY <1>3, <1>9 DEF Found, Sent
      <4> QED
        BY <1>3, <1>5, <3>1, <4>1, ReadTyped DEF GetBoard, Reading, Pending
    <3>2. CASE Window("StartProgram", None, None)
      BY <1>3, <3>2 DEF Window, OpenOverlay
    <3>3. CASE /\ a.request.pending \in {"StartProgramNow", "NewFromTemplate"}
               /\ Send(Request("Create", None, None, 0, a.request.pending, None)) /\ UNCHANGED overlay
      <4>1. Request("Create", None, None, 0, a.request.pending, None) \in TrueRequest
        BY <3>3, ReadTyped DEF Reading, Pending, Targeted
      <4> QED
        BY <1>3, <1>5, <3>3, <4>1
    <3>4. CASE Refuse
      BY <1>3, <3>4 DEF Refuse
    <3> QED
      BY <1>9, <3>1, <3>2, <3>3, <3>4 DEF Found
  <2> QED
    BY <1>2, <1>3, <1>4, <1>9, <2>1, HeldSame, ClientStep DEF Found
<1>10. ASSUME OtherAnswer(a)
       PROVE  IInv'
  BY <1>2, <1>3, <1>4, <1>10, HeldSame, ClientStep DEF OtherAnswer, client
<1>11. ASSUME RefusedAnswer(a)
       PROVE  IInv'
  <2>1. Held'
    BY <1>2, <1>3, <1>4, <1>11 DEF RefusedAnswer, Held, Fresh
  <2> QED
    BY <1>2, <1>3, <1>11, <2>1, ClientStep DEF RefusedAnswer
<1> QED
  BY <1>1, <1>6, <1>7, <1>8, <1>9, <1>10, <1>11 DEF OnAnswer

-----------------------------------------------------------------------------
LEMMA HearHolds ==
  ASSUME IInv, NEW t \in Task, Hear(t)
  PROVE  IInv'
<1>1. Held' /\ Unwritten
  BY HeldSame DEF Hear, client, IInv, Held, TypeOK, Unwritten
<1>2. shown' \in [Task -> TaskRow]
  BY DEF Hear, IInv, TypeOK
<1> QED
  BY <1>1, <1>2, ClientStep DEF Hear, client, IInv, TypeOK, Versions

LEMMA StepHolds ==
  ASSUME IInv, [Next]_vars
  PROVE  IInv'
<1>1. ASSUME Scan
      PROVE  IInv'
  BY <1>1, ScansHold
<1>2. CASE UNCHANGED vars
  <2>1. Held' /\ Unwritten
    BY <1>2, HeldSame DEF vars, IInv, Held, TypeOK, Unwritten
  <2> QED
    BY <1>2, <2>1, ClientStep DEF vars, IInv, TypeOK, Versions
<1> QED
  BY <1>1, <1>2, TakeHolds, WriteHolds, OnAnswerHolds, OtherEditHolds, HearHolds DEF Next

LEMMA Invariance == Spec => []IInv
<1>1. IInv /\ [Next]_vars => IInv'
  BY StepHolds
<1> QED
  BY <1>1, InitHolds, PTL DEF Spec

\* The client's state is well typed: every answer and every step back has what
\* the code that reads it needs, the old place of a move, the old value of a
\* field, the rows of the board an answer opens.
THEOREM TypeCorrect == Spec => []TypeOK
<1>1. IInv => TypeOK
  BY DEF IInv
<1> QED
  BY <1>1, Invariance, PTL

\* A command that is not sticky acts once, and never after it was cancelled or
\* replaced (use_armed, on_resolved, on_open_board, Esc and the timeout).
THEOREM OnceCorrect == Spec => OnceOrCancelled
<1>1. IInv /\ [Next]_vars => [acted' # None /\ ~acted'.sticky => acted'.arming \notin spent]_vars
  <2> SUFFICES ASSUME IInv, Next, acted' # None, ~acted'.sticky
               PROVE  acted'.arming \notin spent
    OBVIOUS
  <2>1. \/ armed # None /\ Acts(armed)
        \/ afterOpen # None /\ Acts(afterOpen.armed)
    <3>1. CASE Scan
      BY <3>1 DEF Scan, Scanning, ScanCommand, ScanValued, ScanTargeted, ScanTask, ScanShow, ScanSelected, ScanValue,
                  ScanSticky, ScanUndo, Cancel, PickColumn, CloseWindow, OpenBoard, LeaveBoard
    <3>2. CASE OnAnswer
      BY <3>2 DEF OnAnswer, TaskAnswer, Resolved, BoardAnswer, Found, OtherAnswer, RefusedAnswer, Idle
    <3>3. CASE LoadTask \/ WriteTask \/ Respond \/ \E t \in Task : OtherEdit(t) \/ Hear(t)
      BY <3>3 DEF LoadTask, WriteTask, Respond, DaemonOnly, OtherEdit, Hear
    <3> QED
      BY <3>1, <3>2, <3>3 DEF Next
  <2> QED
    BY <2>1 DEF Acts, IInv, Fresh
<1> QED
  BY <1>1, Invariance, PTL DEF Spec, OnceOrCancelled

\* What somebody else wrote after a code's change and before the daemon took up
\* the undo of it is never overwritten (control_undo, remember_undo).
THEOREM UndoCorrect == Spec => UndoOnlyItsOwn
<1>1. IInv /\ [Next]_vars
        => [UndoWrites => \/ lastBy[held.request.task] = "code"
                          \/ row[held.request.task].version # held.copy.version]_vars
  <2> SUFFICES ASSUME IInv, UndoWrites, row[held.request.task].version = held.copy.version
               PROVE  lastBy[held.request.task] = "code"
    OBVIOUS
  <2>1. held.request \in TrueRequest /\ held.copy.version = held.request.version
    BY DEF UndoWrites, IInv, Versions, Compared
  <2> QED
    BY <2>1 DEF UndoWrites, TrueRequest, Left
<1> QED
  BY <1>1, Invariance, PTL DEF Spec, UndoOnlyItsOwn

-----------------------------------------------------------------------------
(* Access: who loses a board does not go on seeing it.                     *)

Message == Change \cup {"Listed", "Unlisted", "Denied", "Opened", "Refreshed"}

AccessTypes ==
  /\ board \in BoardRow \cup {Nil}
  /\ live \in SUBSET Person
  /\ req \in [Person -> UnderWay \cup {Nil}]
  /\ me \in Person
  /\ bus \in Seq(Change)
  /\ onTheWay \in Seq(Message)
  /\ wanted \in Seq({"ListBoards", "GetBoard", "OpenBoard"})
  /\ listed \in BOOLEAN /\ displayed \in BOOLEAN /\ crossed \in BOOLEAN

(* The events a request has still to publish.                              *)
Todo(s) == IF req[s] = Nil THEN <<>> ELSE req[s].todo

(* A request that has not committed publishes nothing yet.                 *)
Committing == \A s \in Person : req[s] # Nil /\ req[s].at = "commit" => req[s].todo = <<>>

(* A change of one of these kinds is on its way to the client and not sent *)
(* yet: in the bus, or to be published to an audience the client is in.    *)
ComingFrom(s, K) == \E i \in DOMAIN Todo(s) : me \in Todo(s)[i].audience /\ Todo(s)[i].change \in K
InBus(K) == \E i \in DOMAIN bus : bus[i] \in K
Coming(K) == InBus(K) \/ \E s \in Person : ComingFrom(s, K)

(* In a sequence of messages, one of K comes after place i; and whatever   *)
(* says x, now or later, is followed by one of K.                          *)
Later(q, i, K) == \E j \in DOMAIN q : j > i /\ q[j] \in K
TakenBack(q, now, x, K) ==
  /\ now => Later(q, 0, K)
  /\ \A i \in DOMAIN q : q[i] = x => Later(q, i, K)

Closing == {"Deleted", "AccessRevoked"}
News == {"Settings", "AccessRevoked", "Deleted", "Members"}

(* The inductive invariant.  Who may not open the board is about to be     *)
(* told so, or was told after everything that lets the client show it: the *)
(* order of events and answers on one connection is what it rests on.  Who *)
(* may not list it is about to hear of a change, and asks for the list     *)
(* after it; or was answered without the board after every answer with it. *)
Informed(K) == Coming(K) \/ Later(onTheWay, 0, K)
Asking == \E i \in DOMAIN wanted : wanted[i] = "ListBoards"

ShownInv == ~Visible => Coming(Closing) \/ TakenBack(onTheWay, displayed, "Opened", Closing)
ListedInv ==
  ~OnList => Informed(News) \/ Asking \/ TakenBack(onTheWay, listed, "Listed", {"Unlisted"})

AccessInv == AccessTypes /\ Committing /\ (~crossed => ShownInv /\ ListedInv)

-----------------------------------------------------------------------------
(* Sequences of messages: one more at the end, one less at the front.      *)
LEMMA AppendedLater ==
  ASSUME NEW S, NEW q \in Seq(S), NEW m \in S, NEW K, NEW i \in Nat
  PROVE  /\ Later(q, i, K) => Later(Append(q, m), i, K)
         /\ m \in K /\ i <= Len(q) => Later(Append(q, m), i, K)
<1> DEFINE a == Append(q, m)
<1>1. /\ Len(q) \in Nat /\ Len(a) = Len(q) + 1 /\ DOMAIN q = 1..Len(q) /\ DOMAIN a = 1..Len(a)
      /\ \A j \in 1..Len(q) : a[j] = q[j]
      /\ a[Len(q) + 1] = m
  OBVIOUS
<1> HIDE DEF a
<1>2. Later(q, i, K) => Later(a, i, K)
  BY <1>1 DEF Later
<1>3. m \in K /\ i <= Len(q) => Later(a, i, K)
  BY <1>1 DEF Later
<1> QED
  BY <1>2, <1>3 DEF a

LEMMA AppendedTakenBack ==
  ASSUME NEW S, NEW q \in Seq(S), NEW m \in S, NEW K, NEW x, NEW now \in BOOLEAN, m # x
  PROVE  /\ TakenBack(q, now, x, K) => TakenBack(Append(q, m), now, x, K)
         /\ m \in K => TakenBack(Append(q, m), now, x, K)
<1> DEFINE a == Append(q, m)
<1>1. /\ Len(q) \in Nat /\ DOMAIN q = 1..Len(q) /\ DOMAIN a = 1..(Len(q) + 1)
      /\ \A j \in 1..Len(q) : a[j] = q[j]
      /\ a[Len(q) + 1] = m
  OBVIOUS
<1>2. \A i \in Nat : /\ Later(q, i, K) => Later(a, i, K)
                     /\ m \in K /\ i <= Len(q) => Later(a, i, K)
  BY AppendedLater
<1> HIDE DEF a
<1>3. \A i \in DOMAIN a : a[i] = x => i \in DOMAIN q /\ q[i] = x /\ i \in Nat /\ i <= Len(q)
  BY <1>1
<1>4. TakenBack(q, now, x, K) => TakenBack(a, now, x, K)
  BY <1>2, <1>3 DEF TakenBack
<1>5. m \in K => TakenBack(a, now, x, K)
  BY <1>1, <1>2, <1>3 DEF TakenBack
<1> QED
  BY <1>4, <1>5 DEF a

LEMMA ReadLater ==
  ASSUME NEW S, NEW q \in Seq(S), q # <<>>, NEW K, NEW i \in Nat
  PROVE  Later(q, i + 1, K) => Later(Tail(q), i, K)
<1> DEFINE t == Tail(q)
<1>1. /\ Len(q) \in Nat /\ DOMAIN q = 1..Len(q) /\ DOMAIN t = 1..(Len(q) - 1)
      /\ \A j \in 1..(Len(q) - 1) : t[j] = q[j + 1]
  OBVIOUS
<1> HIDE DEF t
<1> SUFFICES ASSUME Later(q, i + 1, K)
             PROVE  Later(t, i, K)
  BY DEF t
<1>2. PICK j \in DOMAIN q : j > i + 1 /\ q[j] \in K
  BY DEF Later
<1>3. j - 1 \in DOMAIN t /\ j - 1 > i /\ t[j - 1] \in K
  BY <1>1, <1>2
<1> QED
  BY <1>3 DEF Later

LEMMA ReadTakenBack ==
  ASSUME NEW S, NEW q \in Seq(S), q # <<>>, NEW K, NEW x, NEW now \in BOOLEAN, NEW then \in BOOLEAN,
         TakenBack(q, now, x, K),
         then => Head(q) = x \/ (now /\ Head(q) \notin K)
  PROVE  TakenBack(Tail(q), then, x, K)
<1> DEFINE t == Tail(q)
<1>1. /\ Len(q) \in Nat /\ DOMAIN q = 1..Len(q) /\ DOMAIN t = 1..(Len(q) - 1) /\ Head(q) = q[1]
      /\ \A j \in 1..(Len(q) - 1) : t[j] = q[j + 1]
      /\ 1 \in DOMAIN q
  OBVIOUS
<1>2. \A i \in Nat : Later(q, i + 1, K) => Later(t, i, K)
  BY ReadLater
<1> HIDE DEF t
<1>3. then => Later(t, 0, K)
  <2>1. CASE Head(q) = x
    <3>1. Later(q, 1, K)
      BY <1>1, <2>1 DEF TakenBack
    <3> QED
      BY <1>2, <3>1
  <2>2. CASE now /\ Head(q) \notin K
    <3>1. PICK j \in DOMAIN q : j > 0 /\ q[j] \in K
      BY <2>2 DEF TakenBack, Later
    <3>2. j > 1
      BY <1>1, <2>2, <3>1
    <3>3. Later(q, 1, K)
      BY <3>1, <3>2 DEF Later
    <3> QED
      BY <1>2, <3>3
  <2> QED
    BY <2>1, <2>2
<1>4. ASSUME NEW i \in DOMAIN t, t[i] = x
      PROVE  Later(t, i, K)
  <2>1. i \in Nat /\ i + 1 \in DOMAIN q /\ q[i + 1] = x
    BY <1>1, <1>4
  <2>2. Later(q, i + 1, K)
    BY <2>1 DEF TakenBack
  <2> QED
    BY <1>2, <2>1, <2>2
<1> QED
  BY <1>3, <1>4 DEF TakenBack, t

-----------------------------------------------------------------------------
(* Type correctness.                                                       *)
LEMMA Audiences ==
  /\ \A a \in SUBSET Person, c \in Change : Told(a, c) \in Event
  /\ \A b \in BoardRow : ForBoard(b) \in SUBSET Person /\ ForBoardOrAdmins(b) \in SUBSET Person
<1>1. \A a \in SUBSET Person, c \in Change : Told(a, c) \in Event
  BY DEF Told, Event
<1>2. \A b \in BoardRow : ForBoard(b) \in SUBSET Person /\ ForBoardOrAdmins(b) \in SUBSET Person
  BY SessionsAssumption DEF BoardRow, ForBoard, ForBoardOrAdmins
<1> QED
  BY <1>1, <1>2

(* What a request may ask for.                                             *)
LEMMA RequestFields ==
  ASSUME NEW r \in Requests
  PROVE  /\ r.op \in {"update", "add", "remove", "delete", "assign"}
         /\ r.op = "update" => r.private \in BOOLEAN \cup {Nil} /\ r.lock \in BOOLEAN \cup {Nil}
         /\ r.op \in {"add", "remove"} => r.uid \in Person
         /\ r.op = "assign" => r.to \in SUBSET Person
BY RequestsAssumption

(* A request under way, with what it publishes.                            *)
LEMMA Advanced ==
  ASSUME AccessTypes, NEW s \in Person, req[s] # Nil, NEW at \in {"commit", "reload", "publish"},
         NEW todo \in Seq(Event), Then(s, at, todo)
  PROVE  /\ req' \in [Person -> UnderWay \cup {Nil}]
         /\ req'[s] # Nil /\ req'[s].at = at /\ req'[s].todo = todo
         /\ req'[s].request = req[s].request /\ req'[s].before = req[s].before
         /\ \A t \in Person \ {s} : req'[t] = req[t]
<1> DEFINE next == [req[s] EXCEPT !.at = at, !.todo = todo]
<1>1. req[s] \in UnderWay /\ req \in [Person -> UnderWay \cup {Nil}]
  BY DEF AccessTypes
<1>2. /\ next \in UnderWay /\ next.at = at /\ next.todo = todo
      /\ next.request = req[s].request /\ next.before = req[s].before
  BY <1>1 DEF UnderWay
<1>3. req' = [req EXCEPT ![s] = next]
  BY <1>1 DEF Then
<1> HIDE DEF next
<1> QED
  BY <1>1, <1>2, <1>3, NilAssumption

LEMMA Over ==
  ASSUME AccessTypes, NEW s \in Person, LetGo(s)
  PROVE  /\ req' \in [Person -> UnderWay \cup {Nil}]
         /\ req'[s] = Nil
         /\ \A t \in Person \ {s} : req'[t] = req[t]
BY DEF AccessTypes, LetGo

(* A commit ends the request, or leaves it with what it publishes.         *)
LEMMA CommitEffect ==
  ASSUME AccessTypes, NEW s \in Person, Commit(s)
  PROVE  /\ board' \in BoardRow \cup {Nil} /\ live' \in SUBSET Person
         /\ LetGo(s) \/ \E at \in {"reload", "publish"}, todo \in Seq(Event) : Then(s, at, todo)
<1> DEFINE r == req[s].request
           before == req[s].before
<1>1. /\ req[s] # Nil /\ r \in Requests /\ before \in BoardRow
      /\ board \in BoardRow \cup {Nil} /\ live \in SUBSET Person
  BY DEF AccessTypes, Commit, UnderWay
<1>2. CASE CommitUpdate(s)
  <2> DEFINE set == [board EXCEPT !.private = Set(@, r.private), !.locked = Set(@, r.lock)]
             closes == ~before.private /\ set.private
             after == IF closes THEN [set EXCEPT !.members = @ \cup live] ELSE set
             todo == <<Told(ForBoardOrAdmins(before), "Settings")>>
                       \o (IF closes THEN ToldOfClosing(before, after) ELSE <<>>)
  <2>1. CASE board = Nil
    BY <1>1, <1>2, <2>1 DEF CommitUpdate
  <2>2. CASE board # Nil
    <3>1. r.op = "update" /\ board' = after /\ UNCHANGED live /\ Then(s, "publish", todo)
      BY <1>2, <2>2 DEF CommitUpdate
    <3>2. r.private \in BOOLEAN \cup {Nil} /\ r.lock \in BOOLEAN \cup {Nil}
      BY <1>1, <3>1, RequestFields
    <3>3. set \in BoardRow
      BY <1>1, <2>2, <3>2 DEF BoardRow, Set
    <3> HIDE DEF set
    <3>4. after \in BoardRow
      BY <1>1, <3>3 DEF BoardRow
    <3>5. todo \in Seq(Event)
      <4>1. Told(ForBoardOrAdmins(before), "Settings") \in Event /\ Told(ForBoard(before), "AccessRevoked") \in Event
        BY <1>1, Audiences DEF Change
      <4> QED
        BY <4>1 DEF ToldOfClosing
    <3> HIDE DEF after, todo
    <3> QED
      BY <1>1, <3>1, <3>4, <3>5
  <2> QED
    BY <2>1, <2>2
<1>3. CASE CommitDelete(s)
  <2>1. <<Told(ForBoardOrAdmins(before), "Deleted")>> \in Seq(Event)
    BY <1>1, Audiences DEF Change
  <2> QED
    BY <1>3, <2>1 DEF CommitDelete
<1>4. CASE CommitAdd(s)
  <2>1. r.op = "add" /\ r.uid \in Person
    BY <1>1, <1>4, RequestFields DEF CommitAdd
  <2>2. board # Nil => [board EXCEPT !.members = @ \cup {r.uid}] \in BoardRow
    BY <1>1, <2>1 DEF BoardRow
  <2>3. <<>> \in Seq(Event)
    OBVIOUS
  <2> QED
    BY <1>1, <1>4, <2>2, <2>3 DEF CommitAdd
<1>5. CASE CommitRemove(s)
  <2> DEFINE revoked == IF before.private THEN <<Told({r.uid}, "AccessRevoked")>> ELSE <<>>
  <2>1. r.op = "remove" /\ r.uid \in Person
    BY <1>1, <1>5, RequestFields DEF CommitRemove
  <2>2. board # Nil => [board EXCEPT !.members = @ \ {r.uid}] \in BoardRow
    BY <1>1, <2>1 DEF BoardRow
  <2>3. revoked \in Seq(Event)
    BY <2>1, Audiences DEF Change
  <2> QED
    BY <1>1, <1>5, <2>2, <2>3 DEF CommitRemove
<1>6. CASE CommitAssign(s)
  <2>1. r.op = "assign" /\ r.to \in SUBSET Person
    BY <1>1, <1>6, RequestFields DEF CommitAssign
  <2>2. <<Told(ForBoard(before), "Task")>> \in Seq(Event)
    BY <1>1, Audiences DEF Change
  <2> QED
    BY <1>1, <1>6, <2>1, <2>2 DEF CommitAssign
<1> QED
  BY <1>2, <1>3, <1>4, <1>5, <1>6 DEF Commit

LEMMA PublishEffect ==
  ASSUME AccessTypes, NEW s \in Person, Publish(s)
  PROVE  /\ req[s] \in UnderWay /\ req[s].todo \in Seq(Event) /\ req[s].todo # <<>>
         /\ bus' = IF me \in Head(req[s].todo).audience THEN Append(bus, Head(req[s].todo).change) ELSE bus
         /\ \/ Tail(req[s].todo) = <<>> /\ LetGo(s)
            \/ Then(s, req[s].at, Tail(req[s].todo))
         /\ Head(req[s].todo) \in Event /\ Tail(req[s].todo) \in Seq(Event)
         /\ req[s].at \in {"commit", "reload", "publish"}
BY HeadTailProperties DEF AccessTypes, Publish, UnderWay

LEMMA AccessTypeStep ==
  ASSUME AccessTypes, [AccessNext]_accessVars
  PROVE  AccessTypes'
<1>1. ASSUME NEW s \in Person, NEW r \in Requests, Load(s, r)
      PROVE  AccessTypes'
  <2>1. board \in BoardRow
    BY <1>1 DEF Load, AccessTypes
  <2>2. [at |-> "commit", request |-> r, before |-> board, todo |-> <<>>] \in UnderWay
    BY <2>1 DEF UnderWay
  <2>3. req' \in [Person -> UnderWay \cup {Nil}]
    BY <1>1, <2>2 DEF Load, AccessTypes
  <2> QED
    BY <1>1, <2>3 DEF Load, AccessTypes, clients
<1>2. ASSUME NEW s \in Person, Commit(s)
      PROVE  AccessTypes'
  <2>1. req' \in [Person -> UnderWay \cup {Nil}]
    BY <1>2, CommitEffect, Advanced, Over DEF Commit
  <2> QED
    BY <1>2, <2>1, CommitEffect DEF Commit, AccessTypes, clients
<1>3. ASSUME NEW s \in Person, Reload(s)
      PROVE  AccessTypes'
  <2>1. req[s] # Nil /\ \/ LetGo(s)
                        \/ board \in BoardRow /\ Then(s, "publish", <<Told(ForBoardOrAdmins(board), "Members")>>)
    BY <1>3 DEF Reload, AccessTypes
  <2>2. board \in BoardRow => <<Told(ForBoardOrAdmins(board), "Members")>> \in Seq(Event)
    BY Audiences DEF Change
  <2>3. req' \in [Person -> UnderWay \cup {Nil}]
    BY <2>1, <2>2, Advanced, Over
  <2> QED
    BY <1>3, <2>3 DEF Reload, AccessTypes, clients
<1>4. ASSUME NEW s \in Person, Publish(s)
      PROVE  AccessTypes'
  <2>1. req' \in [Person -> UnderWay \cup {Nil}]
    BY <1>4, PublishEffect, Advanced, Over DEF Publish
  <2>2. bus' \in Seq(Change)
    <3>1. Head(req[s].todo) \in Event
      BY <1>4, PublishEffect
    <3>2. Head(req[s].todo).change \in Change
      BY <3>1 DEF Event
    <3>3. bus' = bus \/ bus' = Append(bus, Head(req[s].todo).change)
      BY <1>4, PublishEffect
    <3>4. bus \in Seq(Change)
      BY DEF AccessTypes
    <3> QED
      BY <3>2, <3>3, <3>4, AppendProperties
  <2> QED
    BY <1>4, <2>1, <2>2 DEF Publish, AccessTypes, clients
<1>5. CASE Forward
  <2>1. Head(bus) \in Message /\ Tail(bus) \in Seq(Change)
    BY <1>5, HeadTailProperties DEF Forward, AccessTypes, Message
  <2> QED
    BY <1>5, <2>1 DEF Forward, AccessTypes, clients
<1>6. CASE AnswerWanted
  <2>1. AnswerTo(Head(wanted)) \in Message
    BY DEF AnswerTo, Message
  <2>2. Tail(wanted) \in Seq({"ListBoards", "GetBoard", "OpenBoard"})
    BY <1>6, HeadTailProperties DEF AnswerWanted, AccessTypes
  <2> QED
    BY <1>6, <2>1, <2>2 DEF AnswerWanted, AccessTypes, clients
<1>7. CASE Read
  <2>1. Tail(onTheWay) \in Seq(Message)
    BY <1>7, HeadTailProperties DEF Read, AccessTypes
  <2>2. CASE OnBoardChanged(Head(onTheWay))
    <3>1. wanted' \in Seq({"ListBoards", "GetBoard", "OpenBoard"})
      <4> DEFINE Q == {"ListBoards", "GetBoard", "OpenBoard"}
                 list == <<"ListBoards">>
                 both == <<"ListBoards", "GetBoard">>
      <4>1. list \in Seq(Q) /\ both \in Seq(Q) /\ wanted \in Seq(Q)
        BY DEF AccessTypes
      <4>2. wanted' = wanted \o both \/ wanted' = wanted \o list
        BY <2>2 DEF OnBoardChanged
      <4> HIDE DEF Q, list, both
      <4>3. wanted' \in Seq(Q)
        BY <4>1, <4>2, ConcatProperties
      <4> QED
        BY <4>3 DEF Q
    <3>2. displayed' \in BOOLEAN /\ listed' \in BOOLEAN
      BY <2>2 DEF OnBoardChanged, AccessTypes
    <3> QED
      BY <1>7, <2>1, <3>1, <3>2 DEF Read, AccessTypes
  <2>3. CASE OnAnswered(Head(onTheWay))
    BY <1>7, <2>1, <2>3 DEF OnAnswered, Read, AccessTypes
  <2> QED
    BY <1>7, <2>2, <2>3 DEF Read
<1>8. CASE AskToOpen
  BY <1>8 DEF AskToOpen, AccessTypes, clients
<1>9. CASE UNCHANGED accessVars
  BY <1>9 DEF accessVars, AccessTypes
<1> QED
  BY <1>1, <1>2, <1>3, <1>4, <1>5, <1>6, <1>7, <1>8, <1>9 DEF AccessNext

-----------------------------------------------------------------------------
(* Where the requests are.                                                 *)
LEMMA GoesOn ==
  ASSUME Committing, NEW s \in Person, req[s] # Nil,
         req'[s] = Nil \/ req'[s].at # "commit",
         \A t \in Person \ {s} : req'[t] = req[t]
  PROVE  Committing'
BY DEF Committing

LEMMA CommittingStep ==
  ASSUME AccessTypes, Committing, [AccessNext]_accessVars
  PROVE  Committing'
<1>1. ASSUME NEW s \in Person, NEW r \in Requests, Load(s, r)
      PROVE  Committing'
  <2> DEFINE new == [at |-> "commit", request |-> r, before |-> board, todo |-> <<>>]
  <2>1. req' = [req EXCEPT ![s] = new] /\ new.todo = <<>>
    BY <1>1 DEF Load
  <2> HIDE DEF new
  <2> QED
    BY <2>1 DEF Committing, AccessTypes
<1>2. ASSUME NEW s \in Person, Commit(s)
      PROVE  Committing'
  <2>1. req[s] # Nil
    BY <1>2 DEF Commit
  <2>2. CASE LetGo(s)
    BY <2>1, <2>2, Over, GoesOn
  <2>3. ASSUME NEW at \in {"reload", "publish"}, NEW todo \in Seq(Event), Then(s, at, todo)
        PROVE  Committing'
    <3>1. req'[s].at = at /\ \A t \in Person \ {s} : req'[t] = req[t]
      BY <2>1, <2>3, Advanced
    <3> QED
      BY <2>1, <3>1, GoesOn
  <2> QED
    BY <1>2, <2>2, <2>3, CommitEffect
<1>3. ASSUME NEW s \in Person, Reload(s)
      PROVE  Committing'
  <2>1. req[s] # Nil
    BY <1>3 DEF Reload
  <2>2. CASE LetGo(s)
    BY <2>1, <2>2, Over, GoesOn
  <2>3. CASE ~LetGo(s)
    <3> DEFINE todo == <<Told(ForBoardOrAdmins(board), "Members")>>
    <3>1. board \in BoardRow /\ Then(s, "publish", todo)
      BY <1>3, <2>3 DEF Reload, AccessTypes
    <3>2. todo \in Seq(Event)
      BY <3>1, Audiences DEF Change
    <3> HIDE DEF todo
    <3>3. req'[s].at = "publish" /\ \A t \in Person \ {s} : req'[t] = req[t]
      BY <2>1, <3>1, <3>2, Advanced
    <3> QED
      BY <2>1, <3>3, GoesOn
  <2> QED
    BY <2>2, <2>3
<1>4. ASSUME NEW s \in Person, Publish(s)
      PROVE  Committing'
  <2>1. req[s] # Nil /\ req[s].at # "commit"
    BY <1>4 DEF Publish, Committing
  <2>2. CASE LetGo(s)
    BY <2>1, <2>2, Over, GoesOn
  <2>3. CASE Then(s, req[s].at, Tail(req[s].todo))
    <3>1. req[s].at \in {"commit", "reload", "publish"} /\ Tail(req[s].todo) \in Seq(Event)
      BY <1>4, PublishEffect
    <3>2. req'[s].at = req[s].at /\ \A t \in Person \ {s} : req'[t] = req[t]
      BY <2>1, <2>3, <3>1, Advanced
    <3> QED
      BY <2>1, <3>2, GoesOn
  <2> QED
    BY <1>4, <2>2, <2>3, PublishEffect
<1>5. CASE Forward \/ AnswerWanted \/ Read \/ AskToOpen \/ UNCHANGED accessVars
  <2>1. UNCHANGED req
    BY <1>5 DEF Forward, AnswerWanted, Read, AskToOpen, accessVars
  <2> QED
    BY <2>1 DEF Committing
<1> QED
  BY <1>1, <1>2, <1>3, <1>4, <1>5 DEF AccessNext

-----------------------------------------------------------------------------
(* What is coming keeps coming, until it is forwarded.                     *)
LEMMA OthersKeep ==
  ASSUME NEW s \in Person, NEW K, me' = me, \A t \in Person \ {s} : req'[t] = req[t],
         InBus(K) => InBus(K)', ComingFrom(s, K) => ComingFrom(s, K)' \/ InBus(K)',
         Coming(K)
  PROVE  Coming(K)'
<1>1. ASSUME NEW t \in Person \ {s}, ComingFrom(t, K)
      PROVE  ComingFrom(t, K)'
  BY <1>1 DEF ComingFrom, Todo
<1> QED
  BY <1>1 DEF Coming

LEMMA RequestsKeepComing ==
  ASSUME AccessTypes, Committing, NEW K, NEW s \in Person,
         (\E r \in Requests : Load(s, r)) \/ Commit(s) \/ Reload(s) \/ Publish(s),
         Coming(K)
  PROVE  Coming(K)'
<1>0. me' = me
  BY DEF Load, Commit, Reload, Publish, clients
<1>1. CASE Todo(s) = <<>>
  <2>1. ~ComingFrom(s, K)
    BY <1>1 DEF ComingFrom
  <2>2. ~Publish(s)
    BY <1>1 DEF Publish, Todo
  <2>3. bus' = bus
    BY <2>2 DEF Load, Commit, Reload
  <2>4. \A t \in Person \ {s} : req'[t] = req[t]
    BY <2>2 DEF AccessTypes, Load, Commit, Reload, CommitUpdate, CommitDelete, CommitAdd, CommitRemove,
                CommitAssign, LetGo, Then
  <2> QED
    BY <1>0, <2>1, <2>3, <2>4, OthersKeep DEF InBus
<1>2. CASE Todo(s) # <<>>
  <2>1. req[s] # Nil /\ req[s].todo # <<>> /\ Todo(s) = req[s].todo
    BY <1>2 DEF Todo
  <2>2. Publish(s)
    BY <2>1 DEF Load, Commit, Reload, Committing
  <2> DEFINE q == req[s].todo
  <2>3. /\ q \in Seq(Event) /\ q # <<>> /\ Head(q) \in Event /\ Tail(q) \in Seq(Event)
        /\ req[s].at \in {"commit", "reload", "publish"}
        /\ bus' = IF me \in Head(q).audience THEN Append(bus, Head(q).change) ELSE bus
        /\ (Tail(q) = <<>> /\ LetGo(s)) \/ Then(s, req[s].at, Tail(q))
    BY <2>2, PublishEffect
  <2>4. /\ \A t \in Person \ {s} : req'[t] = req[t]
        /\ Todo(s)' = Tail(q)
    <3>1. CASE Tail(q) = <<>> /\ LetGo(s)
      BY <3>1, Over DEF Todo
    <3>2. CASE Then(s, req[s].at, Tail(q))
      <4>1. req'[s] # Nil /\ req'[s].todo = Tail(q) /\ \A t \in Person \ {s} : req'[t] = req[t]
        <5> HIDE DEF q
        <5>1. req[s] # Nil /\ req[s].at \in {"commit", "reload", "publish"} /\ Tail(q) \in Seq(Event)
          BY <2>1, <2>3
        <5> QED
          BY <5>1, <3>2, Advanced
      <4> QED
        BY <4>1 DEF Todo
    <3> QED
      BY <2>3, <3>1, <3>2
  <2>5. /\ Len(q) \in Nat /\ DOMAIN q = 1..Len(q) /\ DOMAIN Tail(q) = 1..(Len(q) - 1) /\ Head(q) = q[1]
        /\ \A j \in 1..(Len(q) - 1) : Tail(q)[j] = q[j + 1]
    BY <2>3
  <2>6. bus \in Seq(Change) /\ Head(q).change \in Change
    BY <2>3 DEF AccessTypes, Event
  <2>7. InBus(K) => InBus(K)'
    BY <2>3, <2>6 DEF InBus
  <2>8. ASSUME ComingFrom(s, K)
        PROVE  ComingFrom(s, K)' \/ InBus(K)'
    <3>1. PICK i \in DOMAIN q : me \in q[i].audience /\ q[i].change \in K
      BY <2>1, <2>8 DEF ComingFrom
    <3>2. CASE i = 1
      <4>1. bus' = Append(bus, Head(q).change) /\ Head(q).change \in K
        BY <2>3, <2>5, <3>1, <3>2
      <4>2. Len(bus) + 1 \in DOMAIN bus' /\ bus'[Len(bus) + 1] \in K
        BY <2>6, <4>1
      <4> QED
        BY <4>2 DEF InBus
    <3>3. CASE i # 1
      <4>0. i \in 1..Len(q) /\ i - 1 \in 1..(Len(q) - 1) /\ (i - 1) + 1 = i
        BY <2>5, <3>1, <3>3
      <4>1. i - 1 \in DOMAIN Tail(q) /\ Tail(q)[i - 1] = q[i]
        BY <2>5, <4>0
      <4> QED
        BY <1>0, <2>4, <3>1, <4>1 DEF ComingFrom
    <3> QED
      BY <3>2, <3>3
  <2> QED
    BY <1>0, <2>4, <2>7, <2>8, OthersKeep
<1> QED
  BY <1>1, <1>2

LEMMA ForwardComing ==
  ASSUME AccessTypes, NEW K, Forward, Coming(K)
  PROVE  Coming(K)' \/ Head(bus) \in K
<1>1. bus \in Seq(Change) /\ bus # <<>> /\ bus' = Tail(bus) /\ UNCHANGED <<req, me>>
  BY DEF AccessTypes, Forward, clients
<1>2. CASE InBus(K)
  <2>1. PICK i \in DOMAIN bus : bus[i] \in K
    BY <1>2 DEF InBus
  <2>2. CASE i = 1
    BY <1>1, <2>1, <2>2
  <2>3. CASE i # 1
    <3>1. i - 1 \in DOMAIN Tail(bus) /\ Tail(bus)[i - 1] = bus[i]
      BY <1>1, <2>3
    <3> QED
      BY <1>1, <2>1, <3>1 DEF Coming, InBus
  <2> QED
    BY <2>2, <2>3
<1>3. CASE ~InBus(K)
  BY <1>1, <1>3 DEF Coming, ComingFrom, Todo
<1> QED
  BY <1>2, <1>3

(* Whoever may see a board is in the audience of its events.               *)
LEMMA MembersHear ==
  ASSUME NEW b \in BoardRow, NEW u \in Person
  PROVE  /\ IsMember(b, u) => u \in ForBoard(b) /\ u \in ForBoardOrAdmins(b)
         /\ u \in Admin => u \in ForBoardOrAdmins(b)
BY DEF IsMember, ForBoard, ForBoardOrAdmins, BoardRow

(* A commit that takes the board from somebody's sight, and no other       *)
(* change came between, tells him.                                         *)
LEMMA CommitTells ==
  ASSUME AccessTypes, Committing, NEW s \in Person, Commit(s), ~crossed'
  PROVE  /\ Visible /\ ~Visible' => Coming(Closing)'
         /\ OnList /\ ~OnList' => Coming(News)'
<1> DEFINE r == req[s].request
           before == req[s].before
<1>1. /\ req[s] # Nil /\ r \in Requests /\ before \in BoardRow /\ me \in Person /\ me' = me
      /\ board \in BoardRow \cup {Nil} /\ live \in SUBSET Person
      /\ board' # board => before = board
  BY DEF AccessTypes, Commit, UnderWay, clients
<1>2. ASSUME NEW todo \in Seq(Event), NEW at \in {"reload", "publish"}, Then(s, at, todo),
             NEW i \in DOMAIN todo, me \in todo[i].audience, NEW K, todo[i].change \in K
      PROVE  Coming(K)'
  <2>1. Todo(s)' = todo
    BY <1>1, <1>2, Advanced DEF Todo
  <2> QED
    BY <1>1, <1>2, <2>1 DEF Coming, ComingFrom
<1>3. board' = board => Visible' = Visible /\ OnList' = OnList
  BY <1>1 DEF Visible, OnList
<1>4. CASE CommitUpdate(s) /\ board # Nil /\ board' # board
  <2> DEFINE set == [board EXCEPT !.private = Set(@, r.private), !.locked = Set(@, r.lock)]
             closes == ~before.private /\ set.private
             after == IF closes THEN [set EXCEPT !.members = @ \cup live] ELSE set
             told == Told(ForBoardOrAdmins(before), "Settings")
             revoked == Told(ForBoard(before), "AccessRevoked")
             todo == <<told>> \o (IF closes THEN ToldOfClosing(before, after) ELSE <<>>)
  <2>1. r.op = "update" /\ board' = after /\ Then(s, "publish", todo)
    BY <1>4 DEF CommitUpdate
  <2>2. before = board /\ board \in BoardRow
    BY <1>1, <1>4
  <2>3. r.private \in BOOLEAN \cup {Nil} /\ r.lock \in BOOLEAN \cup {Nil}
    BY <1>1, <2>1, RequestFields
  <2>4. set \in BoardRow /\ set.members = board.members
    BY <2>2, <2>3 DEF BoardRow, Set
  <2> HIDE DEF set
  <2>5. after \in BoardRow /\ after.private = set.private /\ board.members \subseteq after.members
    BY <1>1, <2>2, <2>4 DEF BoardRow
  <2>6. board' # Nil
    BY <2>1, <2>5, NilAssumption
  <2> HIDE DEF after
  <2>7. ASSUME IsMember(board, me), ~IsMember(after, me)
        PROVE  Coming(Closing)' /\ Coming(News)'
    <3>1. closes /\ me \in ForBoard(before)
      BY <1>1, <2>2, <2>5, <2>7, MembersHear DEF IsMember, BoardRow
    <3>2. told \in Event /\ revoked \in Event /\ revoked.audience = ForBoard(before)
          /\ revoked.change = "AccessRevoked"
      BY <2>2, Audiences DEF Change, Told
    <3>3. todo = <<told>> \o <<revoked>>
      BY <3>1 DEF ToldOfClosing
    <3> HIDE DEF told, revoked
    <3>4. todo \in Seq(Event) /\ 2 \in DOMAIN todo /\ todo[2] = revoked
      <4> HIDE DEF todo
      <4>1. <<told>> \in Seq(Event) /\ <<revoked>> \in Seq(Event)
        BY <3>2
      <4>2. /\ todo \in Seq(Event) /\ Len(todo) = 2
            /\ \A i \in 1..2 : todo[i] = IF i <= 1 THEN <<told>>[i] ELSE <<revoked>>[i - 1]
        BY <3>3, <4>1, ConcatProperties
      <4> QED
        BY <4>2
    <3> HIDE DEF todo
    <3>5. "AccessRevoked" \in Closing /\ "AccessRevoked" \in News
      BY DEF Closing, News
    <3> QED
      BY <1>2, <2>1, <3>1, <3>2, <3>4, <3>5
  <2> QED
    BY <1>1, <2>1, <2>6, <2>7 DEF Visible, OnList
<1>5. CASE CommitDelete(s) /\ board' # board
  <2> DEFINE told == Told(ForBoardOrAdmins(before), "Deleted")
  <2>1. r.op = "delete" /\ Then(s, "publish", <<told>>) /\ before = board
    BY <1>1, <1>5 DEF CommitDelete
  <2>2. told \in Event /\ told.audience = ForBoardOrAdmins(before) /\ told.change = "Deleted"
    BY <1>1, Audiences DEF Change, Told
  <2>3. OnList \/ Visible => me \in ForBoardOrAdmins(before)
    BY <1>1, <2>1, MembersHear DEF OnList, Visible
  <2> HIDE DEF told
  <2>4. <<told>> \in Seq(Event) /\ 1 \in DOMAIN <<told>> /\ <<told>>[1] = told
    BY <2>2
  <2>5. "Deleted" \in Closing /\ "Deleted" \in News
    BY DEF Closing, News
  <2> QED
    BY <1>2, <2>1, <2>2, <2>3, <2>4, <2>5
<1>6. CASE CommitAdd(s)
  <2>1. CASE board = Nil
    BY <1>3, <1>6, <2>1 DEF CommitAdd
  <2>2. CASE board # Nil
    <3>1. board' = [board EXCEPT !.members = @ \cup {r.uid}] /\ board \in BoardRow
      BY <1>1, <1>6, <2>2 DEF CommitAdd
    <3>2. r.uid \in Person
      BY <1>1, <1>6, RequestFields DEF CommitAdd
    <3>3. board' \in BoardRow /\ board'.private = board.private /\ board.members \subseteq board'.members
      BY <3>1, <3>2 DEF BoardRow
    <3> QED
      BY <1>1, <3>3, NilAssumption DEF Visible, OnList, IsMember
  <2> QED
    BY <2>1, <2>2
<1>7. CASE CommitRemove(s)
  <2> DEFINE told == Told({r.uid}, "AccessRevoked")
             revoked == IF before.private THEN <<told>> ELSE <<>>
  <2>1. CASE board' = board
    BY <1>3, <2>1
  <2>2. CASE board' # board
    <3>1. /\ board # Nil /\ board' = [board EXCEPT !.members = @ \ {r.uid}] /\ Then(s, "reload", revoked)
          /\ before = board /\ r.uid \in Person
      BY <1>1, <1>7, <2>2, RequestFields DEF CommitRemove
    <3>2. /\ board' \in BoardRow /\ board'.private = board.private
          /\ board'.members = board.members \ {r.uid}
      BY <1>1, <3>1 DEF BoardRow
    <3>3. ASSUME IsMember(board, me), ~IsMember(board', me)
          PROVE  Coming(Closing)' /\ Coming(News)'
      <4>1. before.private /\ me = r.uid
        BY <1>1, <3>1, <3>2, <3>3 DEF IsMember
      <4>2. told \in Event /\ told.audience = {r.uid} /\ told.change = "AccessRevoked"
        BY <3>1, Audiences DEF Change, Told
      <4> HIDE DEF told
      <4>3. revoked \in Seq(Event) /\ 1 \in DOMAIN revoked /\ revoked[1] = told
        BY <4>1, <4>2
      <4> HIDE DEF revoked
      <4>4. "AccessRevoked" \in Closing /\ "AccessRevoked" \in News
        BY DEF Closing, News
      <4> QED
        BY <1>2, <3>1, <4>1, <4>2, <4>3, <4>4
    <3> QED
      BY <1>1, <3>1, <3>2, <3>3, NilAssumption DEF Visible, OnList
  <2> QED
    BY <2>1, <2>2
<1>8. CASE CommitAssign(s) \/ (CommitUpdate(s) /\ board = Nil) \/ board' = board
  BY <1>3, <1>8 DEF CommitAssign, CommitUpdate
<1> QED
  BY <1>4, <1>5, <1>6, <1>7, <1>8 DEF Commit

-----------------------------------------------------------------------------
(* One more message does not take the news back.                           *)
LEMMA InformedAppend ==
  ASSUME AccessTypes, NEW m \in Message, NEW K, onTheWay' = Append(onTheWay, m),
         Informed(K), Coming(K) => Coming(K)' \/ m \in K
  PROVE  Informed(K)'
<1>1. onTheWay \in Seq(Message) /\ Len(onTheWay) \in Nat /\ 0 \in Nat
  BY DEF AccessTypes
<1>2. /\ Later(onTheWay, 0, K) => Later(onTheWay', 0, K)
      /\ m \in K => Later(onTheWay', 0, K)
  BY <1>1, AppendedLater
<1> QED
  BY <1>2 DEF Informed

LEMMA SightKept ==
  ASSUME AccessInv, [AccessNext]_accessVars, ~crossed'
  PROVE  ShownInv' /\ ListedInv'
<1>0. AccessTypes /\ Committing /\ ShownInv /\ ListedInv
  <2>1. ~crossed
    BY DEF AccessInv, AccessTypes, AccessNext, accessVars, Load, Commit, Reload, Publish, Forward, AnswerWanted,
           Read, AskToOpen
  <2> QED
    BY <2>1 DEF AccessInv
<1>t. /\ onTheWay \in Seq(Message) /\ displayed \in BOOLEAN /\ listed \in BOOLEAN
      /\ bus \in Seq(Change) /\ wanted \in Seq({"ListBoards", "GetBoard", "OpenBoard"})
  BY <1>0 DEF AccessTypes
<1>1. ASSUME NEW s \in Person,
             (\E r \in Requests : Load(s, r)) \/ Commit(s) \/ Reload(s) \/ Publish(s)
      PROVE  ShownInv' /\ ListedInv'
  <2>1. UNCHANGED <<me, onTheWay, wanted, listed, displayed>>
    BY <1>1 DEF Load, Commit, Reload, Publish, clients
  <2>2. \A K : Coming(K) => Coming(K)'
    BY <1>0, <1>1, RequestsKeepComing
  <2>3. /\ Visible /\ ~Visible' => Coming(Closing)'
        /\ OnList /\ ~OnList' => Coming(News)'
    <3>1. CASE Commit(s)
      BY <1>0, <3>1, CommitTells
    <3>2. CASE ~Commit(s)
      BY <1>1, <2>1, <3>2 DEF Load, Reload, Publish, Visible, OnList
    <3> QED
      BY <3>1, <3>2
  <2>4. ShownInv'
    BY <1>0, <2>1, <2>2, <2>3 DEF ShownInv
  <2>5. ListedInv'
    BY <1>0, <2>1, <2>2, <2>3 DEF ListedInv, Informed, Asking
  <2> QED
    BY <2>4, <2>5
<1>2. CASE Forward
  <2> DEFINE m == Head(bus)
  <2>1. /\ m \in Change /\ onTheWay' = Append(onTheWay, m)
        /\ UNCHANGED <<board, me, wanted, listed, displayed>>
    BY <1>2, <1>t, HeadTailProperties DEF Forward, clients
  <2>2. \A K : Coming(K) => Coming(K)' \/ m \in K
    BY <1>0, <1>2, ForwardComing
  <2>3. UNCHANGED <<Visible, OnList>>
    BY <2>1 DEF Visible, OnList
  <2>4. m \in Message /\ m # "Opened" /\ m # "Listed"
    BY <2>1 DEF Message, Change
  <2> HIDE DEF m
  <2>5. /\ TakenBack(onTheWay, displayed, "Opened", Closing) => TakenBack(onTheWay', displayed, "Opened", Closing)
        /\ m \in Closing => TakenBack(onTheWay', displayed, "Opened", Closing)
    BY <1>t, <2>1, <2>4, AppendedTakenBack
  <2>6. TakenBack(onTheWay, listed, "Listed", {"Unlisted"}) => TakenBack(onTheWay', listed, "Listed", {"Unlisted"})
    BY <1>t, <2>1, <2>4, AppendedTakenBack
  <2>7. ShownInv'
    BY <1>0, <2>1, <2>2, <2>3, <2>5 DEF ShownInv
  <2>8. Informed(News) => Informed(News)'
    BY <1>0, <2>1, <2>2, <2>4, InformedAppend
  <2>9. ListedInv'
    BY <1>0, <2>1, <2>3, <2>6, <2>8 DEF ListedInv, Asking
  <2> QED
    BY <2>7, <2>9
<1>3. CASE AnswerWanted
  <2> DEFINE m == AnswerTo(Head(wanted))
  <2>1. /\ onTheWay' = Append(onTheWay, m) /\ wanted # <<>> /\ wanted' = Tail(wanted)
        /\ UNCHANGED <<board, me, req, bus, listed, displayed>>
    BY <1>3 DEF AnswerWanted, clients
  <2>2. UNCHANGED <<Visible, OnList>> /\ \A K : Coming(K) => Coming(K)'
    BY <2>1 DEF Visible, OnList, Coming, InBus, ComingFrom, Todo
  <2>3. /\ m \in Message
        /\ ~Visible => m # "Opened"
        /\ ~OnList => m # "Listed" /\ (Head(wanted) = "ListBoards" => m = "Unlisted")
    BY DEF AnswerTo, Message
  <2> HIDE DEF m
  <2>4. ShownInv'
    <3>1. ASSUME ~Visible, TakenBack(onTheWay, displayed, "Opened", Closing)
          PROVE  TakenBack(onTheWay', displayed, "Opened", Closing)
      BY <1>t, <2>1, <2>3, <3>1, AppendedTakenBack
    <3> QED
      BY <1>0, <2>1, <2>2, <3>1 DEF ShownInv
  <2>5. ListedInv'
    <3> SUFFICES ASSUME ~OnList
                 PROVE  \/ Informed(News)' \/ Asking'
                        \/ TakenBack(onTheWay', listed, "Listed", {"Unlisted"})
      BY <2>1, <2>2 DEF ListedInv
    <3>1. CASE Informed(News)
      BY <1>0, <2>1, <2>2, <2>3, <3>1, InformedAppend
    <3>2. CASE Asking
      <4>1. PICK i \in DOMAIN wanted : wanted[i] = "ListBoards"
        BY <3>2 DEF Asking
      <4>2. CASE i = 1
        <5>1. m = "Unlisted"
          BY <1>t, <2>1, <2>3, <4>1, <4>2
        <5> QED
          BY <1>t, <2>1, <2>3, <5>1, AppendedTakenBack
      <4>3. CASE i # 1
        <5>1. Len(wanted) \in Nat /\ i \in 1..Len(wanted) /\ (i - 1) + 1 = i /\ i - 1 \in 1..(Len(wanted) - 1)
          BY <1>t, <4>1, <4>3
        <5>2. i - 1 \in DOMAIN Tail(wanted) /\ Tail(wanted)[i - 1] = wanted[i]
          BY <1>t, <2>1, <5>1
        <5> QED
          BY <2>1, <4>1, <5>2 DEF Asking
      <4> QED
        BY <4>2, <4>3
    <3>3. CASE TakenBack(onTheWay, listed, "Listed", {"Unlisted"})
      BY <1>t, <2>1, <2>3, <3>3, AppendedTakenBack
    <3> QED
      BY <1>0, <3>1, <3>2, <3>3 DEF ListedInv
  <2> QED
    BY <2>4, <2>5
<1>4. CASE Read
  <2> DEFINE h == Head(onTheWay)
  <2>1. /\ onTheWay # <<>> /\ onTheWay' = Tail(onTheWay) /\ UNCHANGED <<board, me, req, bus>>
        /\ IF h \in News THEN OnBoardChanged(h) ELSE OnAnswered(h)
    BY <1>4 DEF Read, News
  <2>2. UNCHANGED <<Visible, OnList>> /\ \A K : Coming(K) => Coming(K)'
    BY <2>1 DEF Visible, OnList, Coming, InBus, ComingFrom, Todo
  <2>3. /\ displayed' \in BOOLEAN /\ listed' \in BOOLEAN
        /\ displayed' => h = "Opened" \/ (displayed /\ h \notin Closing)
        /\ listed' => h = "Listed" \/ (listed /\ h \notin {"Unlisted"})
    <3>1. CASE h \in News
      BY <1>t, <2>1, <3>1 DEF OnBoardChanged, Closing, News
    <3>2. CASE h \notin News
      BY <1>t, <2>1, <3>2 DEF OnAnswered, Closing, News
    <3> QED
      BY <3>1, <3>2
  <2>4. Asking => Asking'
    <3>1. PICK more \in Seq({"ListBoards", "GetBoard", "OpenBoard"}) : wanted' = wanted \o more
      <4>1. <<>> \in Seq({"ListBoards", "GetBoard", "OpenBoard"})
            /\ <<"ListBoards">> \in Seq({"ListBoards", "GetBoard", "OpenBoard"})
            /\ <<"ListBoards", "GetBoard">> \in Seq({"ListBoards", "GetBoard", "OpenBoard"})
        OBVIOUS
      <4>2. wanted = wanted \o <<>>
        BY <1>t, ConcatEmptySeq
      <4> QED
        BY <2>1, <4>1, <4>2 DEF OnBoardChanged, OnAnswered
    <3>2. \A i \in 1..Len(wanted) : i \in DOMAIN wanted' /\ wanted'[i] = wanted[i]
      BY <1>t, <3>1, ConcatProperties
    <3> QED
      BY <1>t, <3>2 DEF Asking
  <2>5. h \in News => Asking'
    <3> SUFFICES ASSUME h \in News PROVE Asking'
      OBVIOUS
    <3>1. PICK more \in Seq({"ListBoards", "GetBoard", "OpenBoard"}) :
            wanted' = wanted \o more /\ Len(more) \in {1, 2} /\ more[1] = "ListBoards"
      <4> DEFINE list == <<"ListBoards">>
                 both == <<"ListBoards", "GetBoard">>
      <4>1. /\ list \in Seq({"ListBoards", "GetBoard", "OpenBoard"}) /\ Len(list) = 1 /\ list[1] = "ListBoards"
            /\ both \in Seq({"ListBoards", "GetBoard", "OpenBoard"}) /\ Len(both) = 2 /\ both[1] = "ListBoards"
        OBVIOUS
      <4>2. wanted' = wanted \o both \/ wanted' = wanted \o list
        BY <2>1 DEF OnBoardChanged
      <4> HIDE DEF list, both
      <4> QED
        BY <4>1, <4>2
    <3>2. /\ Len(wanted) \in Nat /\ Len(wanted') = Len(wanted) + Len(more)
          /\ wanted' \in Seq({"ListBoards", "GetBoard", "OpenBoard"})
          /\ \A i \in 1..(Len(wanted) + Len(more)) :
               wanted'[i] = IF i <= Len(wanted) THEN wanted[i] ELSE more[i - Len(wanted)]
      BY <1>t, <3>1, ConcatProperties
    <3>3. Len(wanted) + 1 \in 1..(Len(wanted) + Len(more)) /\ (Len(wanted) + 1) - Len(wanted) = 1
      BY <3>1, <3>2
    <3>4. wanted'[Len(wanted) + 1] = "ListBoards" /\ Len(wanted) + 1 \in DOMAIN wanted'
      BY <3>1, <3>2, <3>3
    <3> QED
      BY <3>4 DEF Asking
  <2>6. ShownInv'
    <3>1. ASSUME TakenBack(onTheWay, displayed, "Opened", Closing)
          PROVE  TakenBack(onTheWay', displayed', "Opened", Closing)
      BY <1>t, <2>1, <2>3, <3>1, ReadTakenBack
    <3> QED
      BY <1>0, <2>2, <3>1 DEF ShownInv
  <2>7. ListedInv'
    <3>1. ASSUME TakenBack(onTheWay, listed, "Listed", {"Unlisted"})
          PROVE  TakenBack(onTheWay', listed', "Listed", {"Unlisted"})
      BY <1>t, <2>1, <2>3, <3>1, ReadTakenBack
    <3>2. ASSUME Later(onTheWay, 0, News), h \notin News
          PROVE  Later(onTheWay', 0, News)
      <4>1. PICK j \in DOMAIN onTheWay : j > 0 /\ onTheWay[j] \in News
        BY <3>2 DEF Later
      <4>2. j > 0 + 1
        BY <1>t, <2>1, <3>2, <4>1
      <4>3. Later(onTheWay, 0 + 1, News)
        BY <4>1, <4>2 DEF Later
      <4> QED
        BY <1>t, <2>1, <4>3, ReadLater
    <3> QED
      BY <1>0, <2>2, <2>4, <2>5, <3>1, <3>2 DEF ListedInv, Informed
  <2> QED
    BY <2>6, <2>7
<1>5. CASE AskToOpen
  <2>1. UNCHANGED <<board, me, req, bus, onTheWay, listed, displayed>> /\ wanted' = Append(wanted, "OpenBoard")
    BY <1>5 DEF AskToOpen, clients
  <2>2. Asking => Asking'
    BY <1>t, <2>1 DEF Asking
  <2>3. UNCHANGED <<Visible, OnList>> /\ \A K : Coming(K) => Coming(K)'
    BY <2>1 DEF Visible, OnList, Coming, InBus, ComingFrom, Todo
  <2> QED
    BY <1>0, <2>1, <2>2, <2>3 DEF ShownInv, ListedInv, Informed
<1>6. CASE UNCHANGED accessVars
  BY <1>0, <1>6 DEF accessVars, ShownInv, ListedInv, Visible, OnList, Informed, Asking, Coming, InBus,
                    ComingFrom, Todo
<1> QED
  BY <1>1, <1>2, <1>3, <1>4, <1>5, <1>6 DEF AccessNext

LEMMA AccessInvInit == AccessInit => AccessInv
<1> SUFFICES ASSUME AccessInit PROVE AccessInv
  OBVIOUS
<1>1. board \in BoardRow
  BY SessionsAssumption DEF AccessInit, BoardRow
<1>2. AccessTypes
  <2>1. (displayed \in BOOLEAN) /\ (listed \in BOOLEAN) /\ (crossed \in BOOLEAN)
    BY DEF AccessInit
  <2> QED
    BY <1>1, <2>1 DEF AccessInit, AccessTypes
<1>3. Committing
  BY DEF AccessInit, Committing
<1>4. /\ displayed => Visible
      /\ listed = OnList
  BY <1>1, NilAssumption DEF AccessInit, Visible, OnList
<1>5. /\ TakenBack(onTheWay, FALSE, "Opened", Closing)
      /\ TakenBack(onTheWay, FALSE, "Listed", {"Unlisted"})
  BY DEF AccessInit, TakenBack
<1>6. ShownInv
  BY <1>2, <1>4, <1>5 DEF ShownInv, TakenBack
<1>7. ListedInv
  BY <1>2, <1>4, <1>5 DEF ListedInv, TakenBack
<1> QED
  BY <1>2, <1>3, <1>6, <1>7 DEF AccessInv

(* Type correctness of the board, the requests under way, and what goes to *)
(* and comes from the client (bus.rs, server.rs, app.rs).                  *)
THEOREM AccessTypeCorrect == AccessSpec => []AccessTypes
<1>1. AccessInit => AccessTypes
  BY AccessInvInit DEF AccessInv
<1>2. AccessTypes /\ [AccessNext]_accessVars => AccessTypes'
  BY AccessTypeStep
<1> QED
  BY <1>1, <1>2, PTL DEF AccessSpec

(* Whoever loses a board, by its going private, a removal or its deletion, *)
(* does not go on showing or listing it, for any number of people, admins  *)
(* and requests at a time, until a change is made on a board that another  *)
(* manager has changed since it was loaded (handlers.rs: "whoever could    *)
(* see it before gets told it changed").                                   *)
THEOREM SightCorrect == AccessSpec => []LosesSight
<1>1. AccessInv /\ [AccessNext]_accessVars => AccessInv'
  BY AccessTypeStep, CommittingStep, SightKept DEF AccessInv
<1>2. AccessInv => LosesSight
  <2> SUFFICES ASSUME AccessInv, Quiet, ~crossed
               PROVE  (displayed => Visible) /\ (listed => OnList)
    BY DEF LosesSight
  <2>1. \A K : ~Coming(K) /\ ~Later(onTheWay, 0, K)
    BY DEF Quiet, Coming, InBus, ComingFrom, Todo, Later
  <2>2. ~Asking
    BY DEF Quiet, Asking
  <2>3. displayed => Visible
    BY <2>1 DEF AccessInv, ShownInv, TakenBack
  <2>4. listed => OnList
    BY <2>1, <2>2 DEF AccessInv, ListedInv, Informed, TakenBack
  <2> QED
    BY <2>3, <2>4
<1> QED
  BY <1>1, <1>2, AccessInvInit, PTL DEF AccessSpec

-----------------------------------------------------------------------------
(* The windows.  Types; which window stands over which is in Windows.      *)
Codes == AskingCodes \cup {Absent}
ForACode == ByCode \cup {"MoveTask", "SaveTask", "StartProgram"}
AskedFor ==
  {q \in [pending : Purposes \cup {Absent}, form : Nat \cup {Absent}, task : Doc \cup {Absent}, version : Nat,
          since : Nat, code : Codes] :
     q.code # Absent => q.pending \in ForACode}
Losses == [form : Nat, since : Nat, own : Nat \cup {Absent}, code : Codes]

ScreensTypes ==
  /\ window \in Windows \cup {Absent}
  /\ asked \in Seq(AskedFor)
  /\ version \in [Doc -> Nat]
  /\ quit \in BOOLEAN
  /\ presses \in Nat /\ foreign \in Nat /\ opens \in Nat
  /\ lost \subseteq Losses

(* The inductive invariant.  What was asked was asked where nothing that   *)
(* can be typed into was open but its own form, or before that was opened: *)
(* but for the members and the name of a board, a program or a template,   *)
(* which take no window away, and the two codes that may.                  *)
Typable == Saving \cup {"PrintRules", "StepForm", "Colors", "Printer"}

Exempt(q) == q.pending \in {"StepMembers", "Lookup"} \/ q.code = "Armed" \/ q.code \in DOMAIN Unseen

Kept(w, q) ==
  ~Exempt(q) =>
    \A x \in Chain(w) : x.kind \in Typable => x.id > q.since \/ x.id = q.form

Numbered == \A x \in Chain(window) : x.id <= opens
Spared == \A i \in 1..Len(asked) : asked[i].since <= opens /\ Kept(window, asked[i])

ScreensInv == ScreensTypes /\ Numbered /\ Spared /\ KeepsWhatWasTyped

(* The kinds of windows, spelt out.                                        *)
LEMMA KindsOfWindows ==
  /\ Saving = {"TaskForm", "TemplateForm", "ProgramForm", "StartProgram", "BoardForm", "NewBoardForm",
               "Settings"}
  /\ DOMAIN PanelOf = {"Archived", "TemplatesPanel", "ProgramsPanel", "RunsPanel", "RepeatsPanel"}
  /\ \A l \in DOMAIN PanelOf : PanelOf[l] \in Listing
  /\ \A k \in Saving : SavedAs[k] \in Purposes \ {"StepMembers"}
  /\ \A l \in DOMAIN Relisted : Relisted[l] \in Purposes \ {"StepMembers"}
  /\ DOMAIN Confirmed = {"Templates", "Programs", "Runs", "Archive", "PickColumn"}
  /\ \A l \in DOMAIN Confirmed : Confirmed[l] \in Purposes
BY DEF Saving, SavedAs, PanelOf, Listing, Purposes, Relisted, Confirmed

LEMMA ReplacesWhat ==
  ASSUME NEW k \in DOMAIN Replaces, NEW n \in Replaces[k]
  PROVE  n \in Saving \cup Listing
<1>1. DOMAIN Replaces = {"Templates", "Programs", "Runs", "Archive", "BoardForm", "Menu"}
  BY DEF Replaces
<1>2. /\ Replaces["Templates"] = {"TaskForm", "TemplateForm"}
      /\ Replaces["Programs"] = {"ProgramForm", "StartProgram"}
      /\ Replaces["Runs"] = {"TaskDetail"} /\ Replaces["Archive"] = {"TaskDetail"}
      /\ Replaces["BoardForm"] = {"Members", "Columns"} /\ Replaces["Menu"] = Openable
  BY DEF Replaces
<1> QED
  BY <1>1, <1>2, OpenableAssumption, KindsOfWindows DEF Listing

(* The parts of a window.                                                  *)
Stands(k, b) ==
  \/ k \in Saving \cup Listing /\ b = Absent
  \/ k = "StepForm" /\ b \in FormWindow({"ProgramForm"})
  \/ k = "PrintRules" /\ b \in FormWindow({"TaskForm", "TemplateForm"}) \cup StepWindow
  \/ k \in {"Colors", "Printer", "Codes"} /\ b \in FormWindow({"Settings"})
  \/ k = "PickColumn" /\ b \in ListWindow({"Columns"})
  \/ k = "Confirm" /\ b \in ListWindow(Listing) \cup {Absent}
  \/ k = "Conflict" /\ b \in FormWindow({"TaskForm", "TemplateForm"})

AnyWindow(w) ==
  w = [kind |-> w.kind, id |-> w.id, task |-> w.task, version |-> w.version, typed |-> w.typed,
       saving |-> w.saving, back |-> w.back, then |-> w.then]

LEMMA WindowParts ==
  ASSUME NEW w \in Windows
  PROVE  /\ w # Absent
         /\ Stands(w.kind, w.back)
         /\ w.id \in Nat /\ w.task \in Doc \cup {Absent} /\ w.version \in Nat
         /\ w.typed \in BOOLEAN /\ w.saving \in BOOLEAN /\ w.then \in Purposes \cup {Absent}
         /\ w.typed => w.kind \in Typable
         /\ w.back \in Windows \cup {Absent}
<1>1. w # Absent
  BY AbsentAssumption
<1>2. /\ Stands(w.kind, w.back)
      /\ w.id \in Nat /\ w.task \in Doc \cup {Absent} /\ w.version \in Nat
      /\ w.typed \in BOOLEAN /\ w.saving \in BOOLEAN /\ w.then \in Purposes \cup {Absent}
  BY DEF Windows, FormWindow, ListWindow, StepWindow, RulesWindow, WindowOf, Stands
<1>3. w.typed => w.kind \in Typable
  BY DEF Windows, FormWindow, ListWindow, StepWindow, RulesWindow, WindowOf, Typable
<1>4. w.back \in Windows \cup {Absent}
  <2>1. \A K \in SUBSET Saving : FormWindow(K) \subseteq FormWindow(Saving)
    BY DEF FormWindow, WindowOf
  <2>2. \A K \in SUBSET Listing : ListWindow(K) \subseteq ListWindow(Listing)
    BY DEF ListWindow, WindowOf
  <2>3. "Columns" \in Listing /\ {"ProgramForm"} \subseteq Saving /\ {"Settings"} \subseteq Saving
        /\ {"TaskForm", "TemplateForm"} \subseteq Saving
    BY KindsOfWindows DEF Listing
  <2>4. {"Columns"} \subseteq Listing
    BY <2>3
  <2> QED
    BY <1>2, <2>1, <2>2, <2>3, <2>4 DEF Stands, Windows
<1> QED
  BY <1>1, <1>2, <1>3, <1>4

\* What is built that way is a window.
LEMMA WindowMade ==
  ASSUME NEW k, NEW b, Stands(k, b), NEW id \in Nat, NEW task \in Doc \cup {Absent}, NEW v \in Nat,
         NEW typed \in BOOLEAN, typed => k \in Typable, NEW saving \in BOOLEAN,
         NEW then \in Purposes \cup {Absent}
  PROVE  [kind |-> k, id |-> id, task |-> task, version |-> v, typed |-> typed, saving |-> saving,
          back |-> b, then |-> then] \in Windows
<1> DEFINE w == [kind |-> k, id |-> id, task |-> task, version |-> v, typed |-> typed, saving |-> saving,
                 back |-> b, then |-> then]
<1>1. CASE k \in Saving
  <2>1. b = Absent
    BY <1>1, KindsOfWindows DEF Stands
  <2> QED
    BY <1>1, <2>1 DEF Windows, FormWindow, WindowOf
<1>2. CASE k \in Listing
  <2>1. b = Absent /\ typed = FALSE
    BY <1>2, KindsOfWindows DEF Stands, Listing, Typable
  <2> QED
    BY <1>2, <2>1 DEF Windows, ListWindow, WindowOf
<1>3. CASE k = "StepForm"
  <2>1. w \in StepWindow
    BY <1>3, KindsOfWindows DEF Stands, Listing, StepWindow, WindowOf
  <2> QED
    BY <2>1 DEF Windows
<1>4. CASE k = "PrintRules"
  <2>1. w \in RulesWindow
    BY <1>4, KindsOfWindows DEF Stands, Listing, RulesWindow, WindowOf
  <2> QED
    BY <2>1 DEF Windows
<1>5. CASE k \in {"Colors", "Printer"}
  <2>1. w \in WindowOf({"Colors", "Printer"}, BOOLEAN, FormWindow({"Settings"}))
    BY <1>5, KindsOfWindows DEF Stands, Listing, WindowOf
  <2> QED
    BY <2>1 DEF Windows
<1>6. CASE k \in {"Codes", "PickColumn", "Confirm", "Conflict"}
  <2>1. typed = FALSE
    BY <1>6, KindsOfWindows DEF Typable
  <2>2. CASE k = "Codes"
    BY <2>1, <2>2, KindsOfWindows DEF Stands, Listing, Windows, WindowOf
  <2>3. CASE k = "PickColumn"
    BY <2>1, <2>3, KindsOfWindows DEF Stands, Listing, Windows, WindowOf
  <2>4. CASE k = "Confirm"
    BY <2>1, <2>4, KindsOfWindows DEF Stands, Listing, Windows, WindowOf
  <2>5. CASE k = "Conflict"
    BY <2>1, <2>5, KindsOfWindows DEF Stands, Listing, Windows, WindowOf
  <2> QED
    BY <1>6, <2>2, <2>3, <2>4, <2>5
<1> QED
  BY <1>1, <1>2, <1>3, <1>4, <1>5, <1>6 DEF Stands

(* The windows behind a window.                                            *)
LEMMA LeavesBehind ==
  /\ Chain(Absent) = {}
  /\ \A w \in Windows : Chain(w) = {w} \cup Chain(w.back)
<1>1. Chain(Absent) = {}
  BY DEF Chain
<1>2. ASSUME NEW w \in Windows PROVE Chain(w) = {w} \cup Chain(w.back)
  <2>1. w # Absent /\ Stands(w.kind, w.back)
    BY WindowParts
  <2>2. CASE w.back = Absent
    BY <1>1, <2>1, <2>2 DEF Chain
  <2>3. CASE w.back # Absent
    <3>1. w.back.back = Absent \/ w.back.back.back = Absent
      BY <2>1, <2>3 DEF Stands, FormWindow, ListWindow, StepWindow, WindowOf
    <3> QED
      BY <2>1, <2>3, <3>1 DEF Chain
  <2> QED
    BY <2>2, <2>3
<1> QED
  BY <1>1, <1>2

About(w, t, v) == [w EXCEPT !.task = t, !.version = v]

\* A window that is changed but for its kind, number and what stands behind it.
Alike(v, w) == v.kind = w.kind /\ v.id = w.id /\ v.back = w.back

LEMMA Changes ==
  ASSUME NEW w \in Windows
  PROVE  /\ \A b \in BOOLEAN : (b => w.kind \in Typable) =>
                [w EXCEPT !.typed = b] \in Windows /\ Alike([w EXCEPT !.typed = b], w)
         /\ \A b \in BOOLEAN : [w EXCEPT !.saving = b] \in Windows /\ Alike([w EXCEPT !.saving = b], w)
         /\ \A v \in Nat : [w EXCEPT !.version = v] \in Windows /\ Alike([w EXCEPT !.version = v], w)
         /\ \A t \in Doc \cup {Absent}, v \in Nat : About(w, t, v) \in Windows /\ Alike(About(w, t, v), w)
         /\ \A then \in Purposes : [w EXCEPT !.then = then] \in Windows /\ Alike([w EXCEPT !.then = then], w)
<1>1. /\ Stands(w.kind, w.back)
      /\ w.id \in Nat /\ w.task \in Doc \cup {Absent} /\ w.version \in Nat
      /\ w.typed \in BOOLEAN /\ w.saving \in BOOLEAN /\ w.then \in Purposes \cup {Absent}
      /\ w.typed => w.kind \in Typable
  BY WindowParts
<1>2. AnyWindow(w)
  BY DEF AnyWindow, Windows, FormWindow, ListWindow, StepWindow, RulesWindow, WindowOf
<1>3. ASSUME NEW b \in BOOLEAN, b => w.kind \in Typable
      PROVE  [w EXCEPT !.typed = b] \in Windows /\ Alike([w EXCEPT !.typed = b], w)
  <2>1. [w EXCEPT !.typed = b] =
          [kind |-> w.kind, id |-> w.id, task |-> w.task, version |-> w.version, typed |-> b,
           saving |-> w.saving, back |-> w.back, then |-> w.then]
    BY <1>2 DEF AnyWindow
  <2> QED
    BY <1>1, <1>3, <2>1, WindowMade DEF Alike
<1>4. ASSUME NEW b \in BOOLEAN
      PROVE  [w EXCEPT !.saving = b] \in Windows /\ Alike([w EXCEPT !.saving = b], w)
  <2>1. [w EXCEPT !.saving = b] =
          [kind |-> w.kind, id |-> w.id, task |-> w.task, version |-> w.version, typed |-> w.typed,
           saving |-> b, back |-> w.back, then |-> w.then]
    BY <1>2 DEF AnyWindow
  <2> QED
    BY <1>1, <1>4, <2>1, WindowMade DEF Alike
<1>5. ASSUME NEW v \in Nat
      PROVE  [w EXCEPT !.version = v] \in Windows /\ Alike([w EXCEPT !.version = v], w)
  <2>1. [w EXCEPT !.version = v] =
          [kind |-> w.kind, id |-> w.id, task |-> w.task, version |-> v, typed |-> w.typed,
           saving |-> w.saving, back |-> w.back, then |-> w.then]
    BY <1>2 DEF AnyWindow
  <2> QED
    BY <1>1, <1>5, <2>1, WindowMade DEF Alike
<1>6. ASSUME NEW t \in Doc \cup {Absent}, NEW v \in Nat
      PROVE  About(w, t, v) \in Windows /\ Alike(About(w, t, v), w)
  <2> DEFINE u == [kind |-> w.kind, id |-> w.id, task |-> t, version |-> w.version, typed |-> w.typed,
                   saving |-> w.saving, back |-> w.back, then |-> w.then]
  <2>a. [w EXCEPT !.task = t] = u
    BY <1>2 DEF AnyWindow
  <2>b. About(w, t, v) = [u EXCEPT !.version = v]
    BY <2>a DEF About
  <2>1. About(w, t, v) =
          [kind |-> w.kind, id |-> w.id, task |-> t, version |-> v, typed |-> w.typed,
           saving |-> w.saving, back |-> w.back, then |-> w.then]
    BY <2>b
  <2> QED
    BY <1>1, <1>6, <2>1, WindowMade DEF Alike
<1>7. ASSUME NEW then \in Purposes
      PROVE  [w EXCEPT !.then = then] \in Windows /\ Alike([w EXCEPT !.then = then], w)
  <2>1. [w EXCEPT !.then = then] =
          [kind |-> w.kind, id |-> w.id, task |-> w.task, version |-> w.version, typed |-> w.typed,
           saving |-> w.saving, back |-> w.back, then |-> then]
    BY <1>2 DEF AnyWindow
  <2> QED
    BY <1>1, <1>7, <2>1, WindowMade DEF Alike
<1> QED
  BY <1>3, <1>4, <1>5, <1>6, <1>7

LEMMA NewWindow ==
  ASSUME opens \in Nat, NEW k, NEW b, Stands(k, b)
  PROVE  /\ New(k, b) \in Windows /\ New(k, b).id = opens + 1 /\ New(k, b).kind = k /\ New(k, b).back = b
         /\ \A t \in Doc \cup {Absent}, v \in Nat :
              About(New(k, b), t, v) \in Windows /\ Alike(About(New(k, b), t, v), New(k, b))
         /\ \A then \in Purposes : /\ [New(k, b) EXCEPT !.then = then] \in Windows
                                   /\ Alike([New(k, b) EXCEPT !.then = then], New(k, b))
<1>1. FALSE \in BOOLEAN /\ (FALSE => k \in Typable)
  OBVIOUS
<1>2. \A id \in Nat, t \in Doc \cup {Absent}, v \in Nat, then \in Purposes \cup {Absent} :
        [kind |-> k, id |-> id, task |-> t, version |-> v, typed |-> FALSE, saving |-> FALSE,
         back |-> b, then |-> then] \in Windows
  BY <1>1, WindowMade, Zenon
<1>3. New(k, b) \in Windows
  BY <1>2 DEF New
<1>4. New(k, b).id = opens + 1 /\ New(k, b).kind = k /\ New(k, b).back = b
  BY DEF New
<1> QED
  BY <1>3, <1>4, Changes

(* What may follow a window: one that stood behind it or in it, or a new   *)
(* one over what was there.                                                *)
Comes ==
  \A y \in Chain(window') :
     \/ y.id = opens + 1 /\ opens' = opens + 1
     \/ \E x \in Chain(window) : x.id = y.id /\ x.kind = y.kind

LEMMA ComesWhen ==
  ASSUME window \in Windows \cup {Absent}, window' \in Windows \cup {Absent}
  PROVE  /\ window' = window => Comes
         /\ window' = Absent => Comes
         /\ window # Absent /\ window' = window.back => Comes
         /\ window # Absent /\ window' # Absent /\ Alike(window', window) => Comes
         /\ window # Absent /\ window.back # Absent /\ window' # Absent /\ Alike(window', window.back) => Comes
<1>1. /\ window = Absent => Chain(window) = {}
      /\ window # Absent => Chain(window) = {window} \cup Chain(window.back)
      /\ window' = Absent => Chain(window') = {}
      /\ window' # Absent => Chain(window') = {window'} \cup Chain(window'.back)
  BY LeavesBehind
<1>2. window # Absent /\ window.back # Absent => Chain(window.back) = {window.back} \cup Chain(window.back.back)
  BY LeavesBehind, WindowParts
<1>3. window' # Absent /\ window'.back # Absent =>
        Chain(window'.back) = {window'.back} \cup Chain(window'.back.back)
  BY LeavesBehind, WindowParts
<1>4. Chain(Absent) = {}
  BY LeavesBehind
<1> QED
  BY <1>1, <1>2, <1>3, <1>4 DEF Comes, Alike

LEMMA NewComes ==
  ASSUME window \in Windows \cup {Absent}, window' \in Windows, window'.id = opens + 1, opens' = opens + 1,
         \/ window'.back \in {Absent, window}
         \/ window # Absent /\ window'.back = window.back
         \/ window # Absent /\ window'.back # Absent /\ Alike(window'.back, window)
  PROVE  Comes
<1>1. Chain(window') = {window'} \cup Chain(window'.back)
  BY LeavesBehind
<1>2. /\ window # Absent => Chain(window) = {window} \cup Chain(window.back)
      /\ Chain(Absent) = {}
  BY LeavesBehind
<1>3. window'.back # Absent => Chain(window'.back) = {window'.back} \cup Chain(window'.back.back)
  BY LeavesBehind, WindowParts
<1>4. CASE window'.back \in {Absent, window}
  BY <1>1, <1>2, <1>4 DEF Comes
<1>5. CASE window # Absent /\ window'.back = window.back
  BY <1>1, <1>2, <1>5 DEF Comes
<1>6. CASE window # Absent /\ window'.back # Absent /\ Alike(window'.back, window)
  BY <1>1, <1>2, <1>3, <1>6 DEF Comes, Alike
<1> QED
  BY <1>4, <1>5, <1>6

LEMMA ChainWindows ==
  ASSUME window \in Windows \cup {Absent}
  PROVE  \A x \in Chain(window) : x \in Windows /\ x.id \in Nat
<1>1. window # Absent => window.back \in Windows \cup {Absent}
  BY WindowParts
<1>2. window # Absent /\ window.back # Absent => window.back.back \in Windows \cup {Absent}
  BY <1>1, WindowParts
<1>3. \A x \in Chain(window) : x \in Windows
  BY <1>1, <1>2 DEF Chain
<1> QED
  BY <1>3, WindowParts

LEMMA ScreensKept ==
  ASSUME ScreensInv,
         window' \in Windows \cup {Absent}, Comes, opens' \in {opens, opens + 1},
         asked' \in Seq(AskedFor),
         \A i \in 1..Len(asked') : \/ \E j \in 1..Len(asked) : asked'[i] = asked[j]
                                   \/ asked'[i].since <= opens /\ Kept(window', asked'[i]),
         version' \in [Doc -> Nat], quit' \in BOOLEAN, presses' \in Nat, foreign' \in Nat,
         lost' \subseteq Losses, KeepsWhatWasTyped'
  PROVE  ScreensInv'
<1>a. \A n \in Nat : n <= opens => n <= opens'
  BY DEF ScreensInv, ScreensTypes
<1>1. opens \in Nat /\ opens' \in Nat /\ asked \in Seq(AskedFor)
  BY DEF ScreensInv, ScreensTypes
<1>2. ScreensTypes'
  BY <1>1 DEF ScreensTypes
<1>3. \A x \in Chain(window) : x.id \in Nat /\ x.id <= opens
  BY ChainWindows DEF ScreensInv, ScreensTypes, Numbered
<1>4. Numbered'
  BY <1>1, <1>3 DEF Numbered, Comes
<1>5. ASSUME NEW i \in 1..Len(asked') PROVE asked'[i].since <= opens' /\ Kept(window', asked'[i])
  <2>1. CASE \E j \in 1..Len(asked) : asked'[i] = asked[j]
    <3>1. PICK j \in 1..Len(asked) : asked'[i] = asked[j]
      BY <2>1
    <3>a. asked[j] \in AskedFor
      BY <1>1, ElementOfSeq
    <3>b. asked[j].since <= opens /\ Kept(window, asked[j])
      BY DEF ScreensInv, Spared
    <3>2. PICK r \in AskedFor : r = asked[j] /\ r.since <= opens /\ Kept(window, r)
      BY <3>a, <3>b
    <3>3. r.since \in Nat /\ r.since <= opens'
      <4>1. r.since \in Nat
        BY DEF AskedFor
      <4> QED
        BY <1>a, <3>2, <4>1
    <3>4. ASSUME ~Exempt(r), NEW y \in Chain(window'), y.kind \in Typable
          PROVE  y.id > r.since \/ y.id = r.form
      <4>1. CASE y.id = opens + 1
        <5>1. \A n \in Nat : n <= opens => opens + 1 > n
          BY <1>1
        <5> QED
          BY <3>2, <3>3, <4>1, <5>1
      <4>2. CASE \E x \in Chain(window) : x.id = y.id /\ x.kind = y.kind
        BY <3>2, <3>4, <4>2 DEF Kept
      <4> QED
        BY <4>1, <4>2 DEF Comes
    <3> QED
      BY <3>1, <3>2, <3>3, <3>4 DEF Kept
  <2>2. CASE asked'[i].since <= opens /\ Kept(window', asked'[i])
    <3>1. asked'[i] \in AskedFor
      BY ElementOfSeq
    <3>2. asked'[i].since \in Nat
      BY <3>1 DEF AskedFor
    <3> QED
      BY <1>1, <2>2, <3>2
  <2> QED
    BY <2>1, <2>2
<1>6. Spared'
  BY <1>5 DEF Spared, Kept
<1> QED
  BY <1>2, <1>4, <1>6 DEF ScreensInv

(* What is asked after what was asked.                                     *)
Asked(s) ==
  \/ asked' = asked \o s
  \/ asked # <<>> /\ asked' = Tail(asked) \o s

LEMMA AskMore ==
  ASSUME asked \in Seq(AskedFor), NEW s \in Seq(AskedFor), Asked(s),
         \A i \in 1..Len(s) : s[i].since <= opens /\ Kept(window', s[i])
  PROVE  /\ asked' \in Seq(AskedFor)
         /\ \A i \in 1..Len(asked') : \/ \E j \in 1..Len(asked) : asked'[i] = asked[j]
                                      \/ asked'[i].since <= opens /\ Kept(window', asked'[i])
<1>1. ASSUME NEW t \in Seq(AskedFor), \A i \in 1..Len(t) : \E j \in 1..Len(asked) : t[i] = asked[j],
             asked' = t \o s
      PROVE  /\ asked' \in Seq(AskedFor)
             /\ \A i \in 1..Len(asked') : \/ \E j \in 1..Len(asked) : asked'[i] = asked[j]
                                          \/ asked'[i].since <= opens /\ Kept(window', asked'[i])
  <2>1. /\ asked' \in Seq(AskedFor) /\ Len(asked') = Len(t) + Len(s)
        /\ \A i \in 1..Len(t) + Len(s) : asked'[i] = IF i <= Len(t) THEN t[i] ELSE s[i - Len(t)]
    BY <1>1, ConcatProperties
  <2>2. Len(t) \in Nat /\ Len(s) \in Nat
    BY LenProperties
  <2>3. ASSUME NEW i \in 1..Len(asked')
        PROVE  \/ \E j \in 1..Len(asked) : asked'[i] = asked[j]
               \/ asked'[i].since <= opens /\ Kept(window', asked'[i])
    <3>1. CASE i <= Len(t)
      BY <1>1, <2>1, <2>2, <3>1
    <3>2. CASE i > Len(t)
      <4>1. i - Len(t) \in 1..Len(s) /\ asked'[i] = s[i - Len(t)]
        BY <2>1, <2>2, <3>2
      <4> QED
        BY <4>1
    <3> QED
      BY <2>1, <2>2, <3>1, <3>2
  <2> QED
    BY <2>1, <2>3
<1>2. CASE asked' = asked \o s
  BY <1>1, <1>2
<1>3. CASE asked # <<>> /\ asked' = Tail(asked) \o s
  <2>1. /\ Tail(asked) \in Seq(AskedFor) /\ Len(Tail(asked)) = Len(asked) - 1
        /\ \A i \in 1..Len(Tail(asked)) : Tail(asked)[i] = asked[i + 1]
    BY <1>3, HeadTailProperties
  <2>2. Len(asked) \in Nat
    BY LenProperties
  <2>3. \A i \in 1..Len(Tail(asked)) : i + 1 \in 1..Len(asked)
    BY <2>1, <2>2
  <2> QED
    BY <1>1, <1>3, <2>1, <2>3
<1> QED
  BY <1>2, <1>3 DEF Asked

LEMMA AskNothing ==
  ASSUME asked \in Seq(AskedFor), asked' = asked \/ (asked # <<>> /\ asked' = Tail(asked))
  PROVE  Asked(<<>>) /\ <<>> \in Seq(AskedFor) /\ Len(<<>>) = 0
<1>1. <<>> \in Seq(AskedFor) /\ Len(<<>>) = 0
  BY EmptySeq
<1>2. asked \o <<>> = asked
  BY ConcatEmptySeq
<1>3. asked # <<>> => Tail(asked) \in Seq(AskedFor)
  BY HeadTailProperties
<1>4. asked # <<>> => Tail(asked) \o <<>> = Tail(asked)
  BY <1>3, ConcatEmptySeq
<1> QED
  BY <1>1, <1>2, <1>4 DEF Asked

LEMMA AskOne ==
  ASSUME asked \in Seq(AskedFor), NEW q \in AskedFor, asked' = Append(asked, q)
  PROVE  Asked(<<q>>) /\ <<q>> \in Seq(AskedFor) /\ Len(<<q>>) = 1 /\ <<q>>[1] = q
<1>1. Append(asked, q) = asked \o <<q>>
  BY AppendIsConcat
<1> QED
  BY <1>1 DEF Asked

LEMMA WhatIsAsked ==
  ASSUME opens \in Nat
  PROVE  /\ \A p \in Purposes \cup {Absent} :
                                /\ Ask(p) \in AskedFor /\ Ask(p).since = opens /\ Ask(p).pending = p
                                /\ Ask(p).form = Absent /\ Ask(p).code = Absent
         /\ \A k : /\ Asks(k) \in Seq(AskedFor)
                   /\ \A i \in 1..Len(Asks(k)) :
                        /\ Asks(k)[i].since = opens
                        /\ Asks(k)[i].pending = "StepMembers" \/ k \notin {"StepForm", "PrintRules", "Colors", "Printer", "Codes", "PickColumn"}
<1>1. \A p \in Purposes \cup {Absent} :
                          /\ Ask(p) \in AskedFor /\ Ask(p).since = opens /\ Ask(p).pending = p
                          /\ Ask(p).form = Absent /\ Ask(p).code = Absent
  BY DEF Ask, AskedFor, Codes
<1>2. ASSUME NEW k
      PROVE  /\ Asks(k) \in Seq(AskedFor)
             /\ \A i \in 1..Len(Asks(k)) :
                  /\ Asks(k)[i].since = opens
                  /\ Asks(k)[i].pending = "StepMembers" \/ k \notin {"StepForm", "PrintRules", "Colors", "Printer", "Codes", "PickColumn"}
  <2>1. DOMAIN AsksFor = {"TaskForm", "TemplateForm", "StepForm", "Members", "Users", "NewBoardForm"}
    BY DEF AsksFor
  <2>2. CASE k \notin DOMAIN AsksFor
    <3>1. Asks(k) = <<>>
      BY <2>2 DEF Asks
    <3> QED
      BY <3>1
  <2>3. CASE k = "Members"
    <3>1. AsksFor[k] = <<"PanelMembers", "PanelUsers">>
      BY <2>3 DEF AsksFor
    <3>2. Asks(k) = [i \in DOMAIN <<"PanelMembers", "PanelUsers">> |-> Ask(<<"PanelMembers", "PanelUsers">>[i])]
      BY <2>1, <2>3, <3>1 DEF Asks
    <3>3. Asks(k) = [i \in 1..2 |-> Ask(<<"PanelMembers", "PanelUsers">>[i])]
      BY <3>2
    <3>4. "PanelMembers" \in Purposes /\ "PanelUsers" \in Purposes
      BY DEF Purposes
    <3>5. \A i \in 1..2 : Asks(k)[i] \in AskedFor /\ Asks(k)[i].since = opens
      BY <1>1, <3>3, <3>4
    <3>6. Asks(k) \in Seq(AskedFor) /\ Len(Asks(k)) = 2
      BY <3>3, <3>5, SeqDef, LenProperties
    <3> QED
      BY <2>3, <3>5, <3>6
  <2>4. CASE k \in DOMAIN AsksFor /\ k # "Members"
    <3>1. PICK p \in Purposes : /\ AsksFor[k] = <<p>>
                                /\ k = "StepForm" => p = "StepMembers"
      <4>1. {"FormMembers", "StepMembers", "UsersPanel", "FormUsers"} \subseteq Purposes
        BY DEF Purposes
      <4> QED
        BY <2>1, <2>4, <4>1 DEF AsksFor
    <3>2. Asks(k) = [i \in DOMAIN <<p>> |-> Ask(<<p>>[i])]
      BY <2>4, <3>1 DEF Asks
    <3>3. Asks(k) = [i \in 1..1 |-> Ask(p)]
      BY <3>2
    <3>4. \A i \in 1..1 : Asks(k)[i] \in AskedFor /\ Asks(k)[i].since = opens /\ Asks(k)[i].pending = p
      BY <1>1, <3>3
    <3>5. Asks(k) \in Seq(AskedFor) /\ Len(Asks(k)) = 1
      BY <3>3, <3>4, SeqDef, LenProperties
    <3> QED
      BY <2>1, <2>4, <3>1, <3>4, <3>5
  <2> QED
    BY <2>2, <2>3, <2>4
<1> QED
  BY <1>1, <1>2

(* A key, with what it asks for and the window it leaves.                  *)
LEMMA KeyKeeps ==
  ASSUME ScreensInv, NEW s \in Seq(AskedFor), Asked(s),
         \A i \in 1..Len(s) : s[i].since <= opens /\ Kept(window', s[i]),
         window' \in Windows \cup {Absent}, Comes, opens' \in {opens, opens + 1},
         quit' \in BOOLEAN, presses' \in Nat, UNCHANGED <<version, foreign, lost>>
  PROVE  ScreensInv'
<1>1. /\ asked \in Seq(AskedFor) /\ version' \in [Doc -> Nat] /\ foreign' \in Nat
      /\ lost' \subseteq Losses /\ KeepsWhatWasTyped'
  BY DEF ScreensInv, ScreensTypes, KeepsWhatWasTyped
<1>2. /\ asked' \in Seq(AskedFor)
      /\ \A i \in 1..Len(asked') : \/ \E j \in 1..Len(asked) : asked'[i] = asked[j]
                                   \/ asked'[i].since <= opens /\ Kept(window', asked'[i])
  BY <1>1, AskMore
<1> QED
  BY <1>1, <1>2, ScreensKept

\* Nothing is asked.
LEMMA QuietKey ==
  ASSUME ScreensInv, asked' = asked, window' \in Windows \cup {Absent}, Comes,
         opens' \in {opens, opens + 1}, quit' \in BOOLEAN, presses' \in Nat,
         UNCHANGED <<version, foreign, lost>>
  PROVE  ScreensInv'
<1>1. asked \in Seq(AskedFor)
  BY DEF ScreensInv, ScreensTypes
<1>2. Asked(<<>>) /\ <<>> \in Seq(AskedFor) /\ Len(<<>>) = 0
  BY <1>1, AskNothing
<1>3. \A i \in 1..Len(<<>>) : <<>>[i].since <= opens /\ Kept(window', <<>>[i])
  BY <1>2
<1> QED
  BY <1>2, <1>3, KeyKeeps

\* One request, where no form is open but its own.
LEMMA AskingKey ==
  ASSUME ScreensInv, NEW q \in AskedFor, asked' = Append(asked, q), q.since = opens, Kept(window', q),
         window' \in Windows \cup {Absent}, Comes,
         opens' \in {opens, opens + 1}, quit' \in BOOLEAN, presses' \in Nat,
         UNCHANGED <<version, foreign, lost>>
  PROVE  ScreensInv'
<1>1. asked \in Seq(AskedFor) /\ opens \in Nat
  BY DEF ScreensInv, ScreensTypes
<1>2. Asked(<<q>>) /\ <<q>> \in Seq(AskedFor) /\ Len(<<q>>) = 1 /\ <<q>>[1] = q
  BY <1>1, AskOne
<1>3. \A i \in 1..Len(<<q>>) : <<q>>[i].since <= opens /\ Kept(window', <<q>>[i])
  BY <1>1, <1>2
<1> QED
  BY <1>2, <1>3, KeyKeeps

(* What stands alone, and what nothing is typed into.                      *)
LEMMA StandsAlone ==
  ASSUME NEW w \in Windows, w.back = Absent
  PROVE  Chain(w) = {w}
BY LeavesBehind

LEMMA NoForms ==
  /\ \A q : Kept(Absent, q)
  /\ \A w \in Windows : \A q : w.back = Absent /\ w.kind \in Listing => Kept(w, q)
<1>1. Listing \cap Typable = {}
  BY KindsOfWindows DEF Listing, Typable
<1> QED
  BY <1>1, LeavesBehind, StandsAlone DEF Kept

LEMMA OpenKeeps ==
  ASSUME ScreensInv, NEW kind, OpenWindow(kind)
  PROVE  ScreensInv'
<1>0. /\ opens \in Nat /\ presses \in Nat /\ asked \in Seq(AskedFor) /\ quit \in BOOLEAN
      /\ window \in Windows \cup {Absent} /\ version \in [Doc -> Nat]
  BY DEF ScreensInv, ScreensTypes
<1>1. kind \in Saving \cup Listing
  BY OpenableAssumption, ReplacesWhat DEF OpenWindow
<1>2. Stands(kind, Absent)
  BY <1>1 DEF Stands
<1>3. /\ window' \in Windows /\ window'.id = opens + 1 /\ window'.back = Absent /\ opens' = opens + 1
  <2>1. CASE Opened(New(kind, Absent))
    BY <1>0, <1>2, <2>1, NewWindow DEF Opened
  <2>2. CASE kind = "TaskForm" /\ \E t \in Doc : Opened(Editing(t))
    <3>0. PICK t \in Doc : Opened(Editing(t))
      BY <2>2
    <3>1. Opened([New(kind, Absent) EXCEPT !.task = t, !.version = version[t]])
      BY <2>2, <3>0 DEF Editing
    <3>2. version[t] \in Nat
      BY <1>0
    <3>4. window' = About(New(kind, Absent), t, version[t]) /\ opens' = opens + 1
      BY <3>1 DEF Opened, About
    <3>3. window' \in Windows /\ Alike(window', New(kind, Absent)) /\ opens' = opens + 1
      BY <1>0, <1>2, <3>2, <3>4, NewWindow
    <3> QED
      BY <1>0, <1>2, <3>3, NewWindow DEF Alike
  <2> QED
    BY <2>1, <2>2 DEF OpenWindow
<1>4. window' # Absent
  BY <1>3, AbsentAssumption
<1>5. Comes
  BY <1>0, <1>3, NewComes
<1>6. \A i \in 1..Len(Asks(kind)) : Asks(kind)[i].since = opens
  BY <1>0, WhatIsAsked
<1>7. \A q : q.since = opens => Kept(window', q)
  BY <1>0, <1>3, StandsAlone DEF Kept
<1>8. Asked(Asks(kind)) /\ Asks(kind) \in Seq(AskedFor)
  BY <1>0, WhatIsAsked DEF OpenWindow, Asked
<1>9. /\ quit' \in BOOLEAN /\ presses' \in Nat /\ UNCHANGED <<version, foreign, lost>>
  <2>1. Press /\ quit' = quit /\ World /\ Observations
    BY DEF OpenWindow
  <2> QED
    BY <1>0, <2>1 DEF Press, World, Observations
<1>10. \A i \in 1..Len(Asks(kind)) : Asks(kind)[i].since <= opens /\ Kept(window', Asks(kind)[i])
  BY <1>0, <1>6, <1>7
<1> QED
  BY <1>3, <1>5, <1>8, <1>9, <1>10, KeyKeeps

LEMMA ListKeeps ==
  ASSUME ScreensInv, NEW list \in DOMAIN PanelOf, AskForPanel(list)
  PROVE  ScreensInv'
<1>0. /\ opens \in Nat /\ presses \in Nat /\ asked \in Seq(AskedFor) /\ quit \in BOOLEAN
      /\ window \in Windows \cup {Absent}
  BY DEF ScreensInv, ScreensTypes
<1>1. list \in Purposes
  BY DEF Purposes
<1>2. Ask(list) \in AskedFor /\ Ask(list).since = opens
  BY <1>0, <1>1, WhatIsAsked
<1>3. window' \in {window, Absent} /\ Comes
  BY <1>0, ComesWhen DEF AskForPanel
<1>4. Kept(window', Ask(list))
  <2>1. CASE window = Absent \/ IsOpen({"Menu"})
    BY <1>3, <2>1, NoForms DEF AskForPanel, IsOpen
  <2>2. CASE IsOpen({"Programs"})
    <3>1. window \in Windows /\ window.kind \in Listing
      BY <1>0, <2>2 DEF IsOpen, Listing
    <3>2. window.back = Absent
      BY <3>1, <2>2, WindowParts, KindsOfWindows DEF Stands, IsOpen
    <3> QED
      BY <1>3, <3>1, <3>2, NoForms
  <2> QED
    BY <2>1, <2>2 DEF AskForPanel
<1>5. /\ asked' = Append(asked, Ask(list)) /\ opens' = opens /\ quit' = quit /\ presses' \in Nat
      /\ UNCHANGED <<version, foreign, lost>>
  BY <1>0 DEF AskForPanel, Press, World, Observations
<1>6. window' \in Windows \cup {Absent}
  BY <1>0, <1>3
<1> QED
  BY <1>0, <1>2, <1>3, <1>4, <1>5, <1>6, AskingKey

LEMMA ChildKeeps ==
  ASSUME ScreensInv,
         NEW kind \in {"PrintRules", "StepForm", "Colors", "Printer", "Codes", "PickColumn"}, OpenChild(kind)
  PROVE  ScreensInv'
<1>0. /\ opens \in Nat /\ presses \in Nat /\ asked \in Seq(AskedFor) /\ quit \in BOOLEAN
      /\ window \in Windows
  BY DEF ScreensInv, ScreensTypes, OpenChild
<1>1. Stands(kind, window)
  <2>1. DOMAIN Children = {"TaskForm", "TemplateForm", "ProgramForm", "StepForm", "Settings", "Columns"}
    BY DEF Children
  <2>2. /\ Children["TaskForm"] = {"PrintRules"} /\ Children["TemplateForm"] = {"PrintRules"}
        /\ Children["ProgramForm"] = {"StepForm"} /\ Children["StepForm"] = {"PrintRules"}
        /\ Children["Settings"] = {"Colors", "Printer", "Codes"} /\ Children["Columns"] = {"PickColumn"}
    BY DEF Children
  <2>3. window.kind \in DOMAIN Children /\ kind \in Children[window.kind]
    BY DEF OpenChild
  <2>4. \A k \in Saving : window.kind = k => window \in FormWindow({k})
    BY <1>0, KindsOfWindows DEF Windows, FormWindow, ListWindow, StepWindow, RulesWindow, WindowOf, Listing
  <2>5. window.kind = "Columns" => window \in ListWindow({"Columns"})
    BY <1>0, KindsOfWindows DEF Windows, FormWindow, ListWindow, StepWindow, RulesWindow, WindowOf
  <2>6. window.kind = "StepForm" => window \in StepWindow
    BY <1>0, KindsOfWindows DEF Windows, FormWindow, ListWindow, StepWindow, RulesWindow, WindowOf, Listing
  <2>7. FormWindow({"TaskForm"}) \cup FormWindow({"TemplateForm"}) \subseteq FormWindow({"TaskForm", "TemplateForm"})
    BY DEF FormWindow, WindowOf
  <2> QED
    BY <2>1, <2>2, <2>3, <2>4, <2>5, <2>6, <2>7, KindsOfWindows DEF Stands
<1>2. window' \in Windows /\ window'.id = opens + 1 /\ window'.back = window /\ opens' = opens + 1
  <2>1. window' = New(kind, window) /\ opens' = opens + 1
    BY DEF OpenChild, Opened
  <2> QED
    BY <1>0, <1>1, <2>1, NewWindow
<1>3. window' # Absent
  BY <1>2, AbsentAssumption
<1>4. Comes
  BY <1>0, <1>2, NewComes
<1>5. /\ Asks(kind) \in Seq(AskedFor)
      /\ \A i \in 1..Len(Asks(kind)) : Asks(kind)[i].since = opens /\ Asks(kind)[i].pending = "StepMembers"
  BY <1>0, WhatIsAsked
<1>6. \A i \in 1..Len(Asks(kind)) : Asks(kind)[i].since <= opens /\ Kept(window', Asks(kind)[i])
  BY <1>0, <1>5 DEF Kept, Exempt
<1>7. Asked(Asks(kind))
  BY DEF OpenChild, Asked
<1>8. /\ quit' \in BOOLEAN /\ presses' \in Nat /\ UNCHANGED <<version, foreign, lost>>
  BY <1>0 DEF OpenChild, Press, World, Observations
<1> QED
  BY <1>2, <1>4, <1>5, <1>6, <1>7, <1>8, KeyKeeps

(* Which windows stand behind a window of a kind.                          *)
LEMMA KindOf ==
  ASSUME NEW w \in Windows
  PROVE  /\ w.kind \in Saving \cup Listing => w.back = Absent
         /\ w.kind \in Listing => w \in ListWindow(Listing)
         /\ w.kind \in {"TaskForm", "TemplateForm"} => w \in FormWindow({"TaskForm", "TemplateForm"})
         /\ w.kind = "PickColumn" => w.back \in ListWindow(Listing)
         /\ w.kind = "Confirm" => w.back \in ListWindow(Listing) \cup {Absent}
         /\ w.kind = "Conflict" => w.back \in FormWindow({"TaskForm", "TemplateForm"})
         /\ w.kind \in {"PrintRules", "StepForm", "Colors", "Printer"} =>
              w.back \in Windows /\ w.back.kind \in Typable
<1>1. Stands(w.kind, w.back) /\ w.back \in Windows \cup {Absent}
  BY WindowParts
<1>2. w.kind \in Saving \cup Listing => w.back = Absent
  BY <1>1, KindsOfWindows DEF Stands, Listing
<1>3. w.kind \in Listing => w \in ListWindow(Listing)
  BY KindsOfWindows DEF Listing, Windows, FormWindow, ListWindow, StepWindow, RulesWindow, WindowOf
<1>4. ASSUME w.kind \in {"TaskForm", "TemplateForm"}
      PROVE  w \in FormWindow({"TaskForm", "TemplateForm"})
  <2>1. w.kind \notin Listing
    BY <1>4, KindsOfWindows DEF Listing
  <2>2. w \in FormWindow(Saving)
    BY <1>4, <2>1 DEF Windows, ListWindow, StepWindow, RulesWindow, WindowOf
  <2> QED
    BY <1>4, <2>2 DEF FormWindow, WindowOf
<1>5. w.kind = "PickColumn" => w.back \in ListWindow(Listing)
  BY <1>1, KindsOfWindows DEF Stands, Listing, ListWindow, WindowOf
<1>6. w.kind = "Confirm" => w.back \in ListWindow(Listing) \cup {Absent}
  BY <1>1, KindsOfWindows DEF Stands, Listing
<1>7. w.kind = "Conflict" => w.back \in FormWindow({"TaskForm", "TemplateForm"})
  BY <1>1, KindsOfWindows DEF Stands, Listing
<1>8. w.kind \in {"PrintRules", "StepForm", "Colors", "Printer"} =>
        w.back \in Windows /\ w.back.kind \in Typable
  <2>1. \A x : x \in FormWindow({"ProgramForm"}) \/ x \in FormWindow({"Settings"}) \/ x \in StepWindow
               \/ x \in FormWindow({"TaskForm", "TemplateForm"}) => x.kind \in Typable
    BY KindsOfWindows DEF Typable, FormWindow, StepWindow, WindowOf
  <2>2. w.kind \in {"PrintRules", "StepForm", "Colors", "Printer"} => w.back.kind \in Typable /\ w.back # Absent
    <3>1. \A x : x \in FormWindow({"ProgramForm"}) \/ x \in FormWindow({"Settings"}) \/ x \in StepWindow
                 \/ x \in FormWindow({"TaskForm", "TemplateForm"}) => x \in Windows
      BY KindsOfWindows DEF Windows, FormWindow, StepWindow, WindowOf
    <3> QED
      BY <1>1, <2>1, <3>1, AbsentAssumption, KindsOfWindows DEF Stands, Listing
  <2> QED
    BY <1>1, <2>2
<1> QED
  BY <1>2, <1>3, <1>4, <1>5, <1>6, <1>7, <1>8

\* A list window, or none, is taken away without loss.
LEMMA ListIsNoForm ==
  ASSUME NEW w \in ListWindow(Listing) \cup {Absent}
  PROVE  w \in Windows \cup {Absent} /\ \A q : Kept(w, q)
<1>1. w # Absent => w \in Windows /\ w.back = Absent /\ w.kind \in Listing
  BY DEF Windows, ListWindow, WindowOf
<1> QED
  BY <1>1, NoForms

LEMMA DialogWindow ==
  ASSUME opens \in Nat, NEW then \in Purposes, NEW b \in ListWindow(Listing) \cup {Absent}
  PROVE  /\ Dialog(then, b) \in Windows /\ Dialog(then, b).id = opens + 1 /\ Dialog(then, b).back = b
<1>1. Stands("Confirm", b)
  BY DEF Stands
<1>2. Dialog(then, b) \in Windows /\ Alike(Dialog(then, b), New("Confirm", b))
  BY <1>1, NewWindow DEF Dialog
<1> QED
  BY <1>1, <1>2, NewWindow DEF Alike

LEMMA SaveRequest ==
  ASSUME opens \in Nat, NEW w \in Windows, w.kind \in Saving
  PROVE  Save(w) \in AskedFor /\ Save(w).since = opens /\ Save(w).form = w.id
<1> DEFINE p == SavedAs[w.kind]
<1>1. p \in Purposes
  BY KindsOfWindows
<1>2. Save(w) = [pending |-> p, form |-> w.id, task |-> w.task, version |-> w.version, since |-> opens,
                  code |-> Absent]
  <2> DEFINE r(f, t, v) == [pending |-> p, form |-> f, task |-> t, version |-> v, since |-> opens, code |-> Absent]
  <2>1. [Ask(p) EXCEPT !.form = w.id] = r(w.id, Absent, 0)
    BY DEF Ask
  <2>2. [r(w.id, Absent, 0) EXCEPT !.task = w.task] = r(w.id, w.task, 0)
    OBVIOUS
  <2>3. [r(w.id, w.task, 0) EXCEPT !.version = w.version] = r(w.id, w.task, w.version)
    OBVIOUS
  <2> HIDE DEF r
  <2>4. Save(w) = [[[Ask(p) EXCEPT !.form = w.id] EXCEPT !.task = w.task] EXCEPT !.version = w.version]
    BY DEF Save
  <2>5. Save(w) = r(w.id, w.task, w.version)
    BY <2>1, <2>2, <2>3, <2>4
  <2> QED
    BY <2>5 DEF r
<1>3. w.id \in Nat /\ w.task \in Doc \cup {Absent} /\ w.version \in Nat
  BY WindowParts
<1> HIDE DEF p
<1> QED
  BY <1>1, <1>2, <1>3 DEF AskedFor, Codes

(* The other keys.                                                         *)
LEMMA LeaveKeeps ==
  ASSUME ScreensInv, Leave \/ FinishChild \/ Type
  PROVE  ScreensInv'
<1>0. /\ opens \in Nat /\ presses \in Nat /\ asked \in Seq(AskedFor) /\ quit \in BOOLEAN
      /\ window \in Windows
  BY DEF ScreensInv, ScreensTypes, Leave, FinishChild, Type, IsOpen
<1>1. /\ opens' = opens /\ quit' \in BOOLEAN /\ presses' \in Nat /\ UNCHANGED <<version, foreign, lost>>
  BY <1>0 DEF Leave, FinishChild, Type, Press, World, Observations
<1>2. window.back \in Windows \cup {Absent}
  BY <1>0, WindowParts
<1>3. CASE Leave
  <2>1. window' = window.back /\ Comes
    BY <1>0, <1>2, <1>3, ComesWhen, AbsentAssumption DEF Leave
  <2>2. CASE window.kind = "ProgramForm"
    <3>1. window' = Absent
      BY <1>0, <2>1, <2>2, KindOf, KindsOfWindows
    <3>2. "ProgramsPanel" \in Purposes
      BY KindsOfWindows DEF Purposes
    <3>3. /\ asked' = Append(asked, Ask("ProgramsPanel")) /\ Ask("ProgramsPanel") \in AskedFor
          /\ Ask("ProgramsPanel").since = opens
      BY <1>0, <1>3, <2>2, <3>2, WhatIsAsked DEF Leave
    <3>4. Kept(window', Ask("ProgramsPanel"))
      BY <3>1, NoForms
    <3> QED
      BY <1>1, <2>1, <3>1, <3>3, <3>4, AskingKey
  <2>3. CASE window.kind # "ProgramForm"
    <3>1. asked' = asked
      BY <1>3, <2>3 DEF Leave
    <3> QED
      BY <1>1, <1>2, <2>1, <3>1, QuietKey
  <2> QED
    BY <2>2, <2>3
<1>4. CASE FinishChild
  <2>1. window.back \in Windows /\ window.back.kind \in Typable
    BY <1>0, <1>4, KindOf DEF FinishChild, IsOpen
  <2>2. window' = [window.back EXCEPT !.typed = TRUE] /\ asked' = asked
    BY <1>4 DEF FinishChild
  <2>3. window' \in Windows /\ Alike(window', window.back)
    BY <2>1, <2>2, Changes
  <2>4. Comes
    BY <1>0, <2>1, <2>3, ComesWhen, AbsentAssumption
  <2> QED
    BY <1>1, <2>2, <2>3, <2>4, QuietKey
<1>5. CASE Type
  <2>1. window.kind \in Typable
    BY <1>5 DEF Type, IsOpen, Typable
  <2>2. window' = [window EXCEPT !.typed = TRUE] /\ asked' = asked
    BY <1>5 DEF Type
  <2>3. window' \in Windows /\ Alike(window', window)
    BY <1>0, <2>1, <2>2, Changes
  <2>4. Comes
    BY <1>0, <2>3, ComesWhen, AbsentAssumption
  <2> QED
    BY <1>1, <2>2, <2>3, <2>4, QuietKey
<1> QED
  BY <1>3, <1>4, <1>5

\* A save asks for its own form, which nothing stands behind.
LEMMA SaveKept ==
  ASSUME opens \in Nat, NEW w \in Windows, w.kind \in Saving, NEW v \in Windows, Alike(v, w)
  PROVE  Kept(v, Save(w))
<1>1. Save(w).form = w.id
  BY SaveRequest
<1>2. w.back = Absent
  BY KindOf
<1>3. Chain(v) = {v} /\ v.id = w.id
  BY <1>2, StandsAlone DEF Alike
<1> QED
  BY <1>1, <1>3 DEF Kept

LEMMA SaveKeeps == ScreensInv /\ SaveForm => ScreensInv'
<1> SUFFICES ASSUME ScreensInv, SaveForm PROVE ScreensInv'
  OBVIOUS
<1>0. /\ opens \in Nat /\ presses \in Nat /\ asked \in Seq(AskedFor) /\ quit \in BOOLEAN
      /\ window \in Windows /\ window.kind \in Saving
  BY DEF ScreensInv, ScreensTypes, SaveForm, IsOpen
<1>1. /\ opens' = opens /\ quit' \in BOOLEAN /\ presses' \in Nat /\ UNCHANGED <<version, foreign, lost>>
  BY <1>0 DEF SaveForm, Press, World, Observations
<1>2. window' = [window EXCEPT !.saving = TRUE] /\ asked' = Append(asked, Save(window))
  BY DEF SaveForm
<1>3. window' \in Windows /\ Alike(window', window)
  BY <1>0, <1>2, Changes
<1>4. Comes
  BY <1>0, <1>3, ComesWhen, AbsentAssumption
<1>5. Kept(window', Save(window))
  BY <1>0, <1>3, SaveKept
<1>6. Save(window) \in AskedFor /\ Save(window).since = opens
  BY <1>0, SaveRequest
<1> QED
  BY <1>1, <1>2, <1>3, <1>4, <1>5, <1>6, AskingKey

LEMMA DialogKeeps == ScreensInv /\ (OpenDialog \/ CtrlC) => ScreensInv'
<1> SUFFICES ASSUME ScreensInv, OpenDialog \/ CtrlC PROVE ScreensInv'
  OBVIOUS
<1>0. /\ opens \in Nat /\ presses \in Nat /\ asked \in Seq(AskedFor) /\ quit \in BOOLEAN
      /\ window \in Windows \cup {Absent}
  BY DEF ScreensInv, ScreensTypes
<1>1. /\ asked' = asked /\ quit' \in BOOLEAN /\ presses' \in Nat /\ UNCHANGED <<version, foreign, lost>>
  BY <1>0 DEF OpenDialog, CtrlC, Press, World, Observations
<1>2. PICK then \in Purposes, b \in ListWindow(Listing) \cup {Absent} :
        /\ window' = Dialog(then, b) /\ opens' = opens + 1
        /\ \/ b \in {Absent, window}
           \/ window # Absent /\ b = window.back
  <2>1. CASE CtrlC
    BY <2>1 DEF CtrlC, Opened, Purposes
  <2>2. CASE OpenDialog /\ IsOpen({"BoardForm"}) /\ Opened(Dialog("BoardOp", Absent))
    BY <2>2 DEF Opened, Purposes
  <2>3. CASE /\ OpenDialog /\ IsOpen(DOMAIN Confirmed)
             /\ Opened(Dialog(Confirmed[window.kind], IF window.kind = "PickColumn" THEN window.back ELSE window))
    <3>1. window \in Windows /\ window.kind \in DOMAIN Confirmed /\ Confirmed[window.kind] \in Purposes
      BY <1>0, <2>3, KindsOfWindows DEF IsOpen
    <3>2. CASE window.kind = "PickColumn"
      BY <2>3, <3>1, <3>2, KindOf, AbsentAssumption DEF Opened
    <3>3. CASE window.kind # "PickColumn"
      <4>1. window.kind \in Listing
        BY <3>1, <3>3, KindsOfWindows DEF Listing
      <4> QED
        BY <2>3, <3>1, <3>3, <4>1, KindOf DEF Opened
    <3> QED
      BY <3>2, <3>3
  <2> QED
    BY <2>1, <2>2, <2>3 DEF OpenDialog
<1>3. window' \in Windows /\ window'.id = opens + 1 /\ window'.back = b
  BY <1>0, <1>2, DialogWindow
<1>4. Comes
  BY <1>0, <1>2, <1>3, NewComes
<1> QED
  BY <1>1, <1>2, <1>3, <1>4, QuietKey

LEMMA AnswerDialogKeeps ==
  ASSUME ScreensInv, NEW yes \in BOOLEAN, AnswerDialog(yes)
  PROVE  ScreensInv'
<1>0. /\ opens \in Nat /\ presses \in Nat /\ asked \in Seq(AskedFor)
      /\ window \in Windows /\ window.kind = "Confirm" /\ window.then \in Purposes \cup {Absent}
  BY WindowParts DEF ScreensInv, ScreensTypes, AnswerDialog, IsOpen
<1>1. /\ opens' = opens /\ quit' \in BOOLEAN /\ presses' \in Nat /\ UNCHANGED <<version, foreign, lost>>
  <2>1. quit' = (yes /\ window.then = "Quit")
    BY DEF AnswerDialog
  <2>2. quit' \in BOOLEAN
    BY <2>1
  <2> QED
    BY <1>0, <2>2 DEF AnswerDialog, Press, World, Observations
<1>2. window.back \in ListWindow(Listing) \cup {Absent}
  BY <1>0, KindOf
<1>3. window' = window.back
  BY DEF AnswerDialog
<1>4. window' \in Windows \cup {Absent} /\ \A q : Kept(window', q)
  BY <1>2, <1>3, ListIsNoForm
<1>5. Comes
  BY <1>0, <1>3, <1>4, ComesWhen, AbsentAssumption
<1>6. CASE asked' = asked
  BY <1>1, <1>4, <1>5, <1>6, QuietKey
<1>7. CASE asked' = Append(asked, Ask(window.then))
  <2>1. Ask(window.then) \in AskedFor /\ Ask(window.then).since = opens
    BY <1>0, WhatIsAsked
  <2> QED
    BY <1>1, <1>4, <1>5, <1>7, <2>1, AskingKey
<1> QED
  BY <1>6, <1>7 DEF AnswerDialog

LEMMA AnswerConflictKeeps ==
  ASSUME ScreensInv, NEW key, AnswerConflict(key)
  PROVE  ScreensInv'
<1> DEFINE form == [window.back EXCEPT !.version = window.version]
<1>0. /\ opens \in Nat /\ presses \in Nat /\ asked \in Seq(AskedFor) /\ quit \in BOOLEAN
      /\ window \in Windows /\ window.kind = "Conflict" /\ window # Absent
  BY AbsentAssumption DEF ScreensInv, ScreensTypes, AnswerConflict, IsOpen
<1>1. /\ quit' \in BOOLEAN /\ presses' \in Nat /\ UNCHANGED <<version, foreign, lost>>
  <2>1. Press /\ quit' = quit /\ World /\ Observations
    BY DEF AnswerConflict
  <2> QED
    BY <1>0, <2>1 DEF Press, World, Observations
<1>2. window.version \in Nat /\ window.task \in Doc \cup {Absent}
  BY <1>0, WindowParts
<1>3. window.back \in Windows /\ window.back.kind \in Saving
  BY <1>0, KindOf, KindsOfWindows DEF FormWindow, Windows, WindowOf
<1>4. form \in Windows /\ Alike(form, window.back)
  BY <1>2, <1>3, Changes
<1>5. window.back # Absent /\ form # Absent
  BY <1>3, <1>4, AbsentAssumption
<1> HIDE DEF form
<1>6. CASE asked' = asked \o Asks("TaskForm")
           /\ Opened([New("TaskForm", Absent) EXCEPT !.task = window.task, !.version = window.version])
  <2>1. window' = About(New("TaskForm", Absent), window.task, window.version) /\ opens' = opens + 1
    BY <1>6 DEF Opened, About
  <2>2. Stands("TaskForm", Absent)
    BY KindsOfWindows DEF Stands
  <2>a. window' \in Windows /\ Alike(window', New("TaskForm", Absent))
    BY <1>0, <1>2, <2>1, <2>2, NewWindow
  <2>b. New("TaskForm", Absent).id = opens + 1 /\ New("TaskForm", Absent).back = Absent
    BY <1>0, <2>2, NewWindow
  <2>3. window' \in Windows /\ window'.id = opens + 1 /\ window'.back = Absent
    BY <2>a, <2>b DEF Alike
  <2>4. Comes
    BY <1>0, <2>1, <2>3, NewComes
  <2>5. \A q : q.since = opens => Kept(window', q)
    BY <1>0, <2>3, StandsAlone DEF Kept
  <2>6. /\ Asked(Asks("TaskForm")) /\ Asks("TaskForm") \in Seq(AskedFor)
        /\ \A i \in 1..Len(Asks("TaskForm")) : Asks("TaskForm")[i].since = opens
    BY <1>0, <1>6, WhatIsAsked DEF Asked
  <2>7. \A i \in 1..Len(Asks("TaskForm")) : /\ Asks("TaskForm")[i].since <= opens
                                            /\ Kept(window', Asks("TaskForm")[i])
    BY <1>0, <2>5, <2>6
  <2> QED
    BY <1>1, <2>1, <2>3, <2>4, <2>6, <2>7, KeyKeeps
<1>7. CASE window' = [form EXCEPT !.saving = TRUE] /\ asked' = Append(asked, Save(form)) /\ opens' = opens
  <2>1. window' \in Windows /\ Alike(window', form)
    BY <1>4, <1>7, Changes
  <2>2. window' # Absent /\ Alike(window', window.back) /\ form.kind \in Saving
    BY <1>3, <1>4, <2>1, AbsentAssumption DEF Alike
  <2>3. Comes
    BY <1>0, <1>5, <2>1, <2>2, ComesWhen
  <2>4. Save(form) \in AskedFor /\ Save(form).since = opens /\ Kept(window', Save(form))
    BY <1>0, <1>4, <2>1, <2>2, SaveRequest, SaveKept
  <2> QED
    BY <1>1, <1>7, <2>1, <2>3, <2>4, AskingKey
<1>8. CASE window' = form /\ UNCHANGED <<asked, opens>>
  <2>1. Comes
    BY <1>0, <1>4, <1>5, <1>8, ComesWhen
  <2> QED
    BY <1>1, <1>4, <1>8, <2>1, QuietKey
<1> QED
  BY <1>6, <1>7, <1>8 DEF AnswerConflict, form

LEMMA PlainKeeps ==
  ASSUME ScreensInv, NEW p \in {"MoveTask", "Scan", "OpenBoard", "MemberOp", "StopRepeat"}, SendPlain(p)
  PROVE  ScreensInv'
<1>0. /\ opens \in Nat /\ presses \in Nat /\ asked \in Seq(AskedFor) /\ quit \in BOOLEAN
      /\ window \in Windows \cup {Absent}
  BY DEF ScreensInv, ScreensTypes
<1>1. /\ window' = window /\ opens' = opens /\ quit' \in BOOLEAN /\ presses' \in Nat
      /\ UNCHANGED <<version, foreign, lost>> /\ asked' = Append(asked, Ask(p))
  BY <1>0 DEF SendPlain, Press, World, Observations
<1>2. p \in Purposes
  BY DEF Purposes, ByCode
<1>3. Ask(p) \in AskedFor /\ Ask(p).since = opens
  BY <1>0, <1>2, WhatIsAsked
<1>4. Comes
  BY <1>0, <1>1, ComesWhen
<1>5. Kept(window, Ask(p))
  <2>1. CASE window = Absent
    BY <2>1, NoForms
  <2>2. CASE IsOpen({"Members"}) \/ IsOpen({"Repeats"})
    <3>1. window \in Windows /\ window.kind \in Listing
      BY <1>0, <2>2 DEF IsOpen, Listing
    <3> QED
      BY <3>1, KindOf, NoForms
  <2> QED
    BY <2>1, <2>2 DEF SendPlain
<1> QED
  BY <1>0, <1>1, <1>3, <1>4, <1>5, AskingKey

LEMMA ForeignKeeps ==
  ASSUME ScreensInv, NEW t \in Doc, Foreign(t)
  PROVE  ScreensInv'
<1>0. /\ opens \in Nat /\ presses \in Nat /\ foreign \in Nat /\ asked \in Seq(AskedFor) /\ quit \in BOOLEAN
      /\ window \in Windows \cup {Absent} /\ version \in [Doc -> Nat]
      /\ lost \subseteq Losses /\ KeepsWhatWasTyped
  BY DEF ScreensInv, ScreensTypes
<1>1. /\ window' = window /\ asked' = asked /\ opens' = opens /\ quit' = quit /\ presses' = presses /\ lost' = lost
      /\ foreign' \in Nat /\ version' \in [Doc -> Nat]
  BY <1>0 DEF Foreign
<1>2. Comes
  BY <1>0, <1>1, ComesWhen
<1>3. KeepsWhatWasTyped'
  BY <1>0, <1>1 DEF KeepsWhatWasTyped
<1> QED
  BY <1>0, <1>1, <1>2, <1>3, ScreensKept

(* The answers.  What a refusal leaves.                                    *)
LEMMA RefusedTo ==
  ASSUME NEW q, NEW w \in AfterRefusal(q)
  PROVE  \/ w = window
         \/ q.pending \in {"MoveTask", "Scan"} /\ w = Dialog("MoveAnyway", Absent)
         \/ q.pending = "MemberOp" /\ IsOpen({"Members"}) /\ w = Dialog("UnassignMember", window)
         \/ q.pending = "MemberOp" /\ w = Absent
         \/ IsOpen(FormsOf(PendingAs(q.pending))) /\ w = Unlocked(window)
<1>1. CASE q.pending \in {"MoveTask", "Scan"}
  BY <1>1 DEF AfterRefusal
<1>2. CASE q.pending = "MemberOp"
  BY <1>2 DEF AfterRefusal
<1>3. CASE q.pending \notin {"MoveTask", "Scan", "MemberOp"} /\ IsOpen(FormsOf(PendingAs(q.pending)))
  BY <1>3 DEF AfterRefusal
<1>4. CASE q.pending \notin {"MoveTask", "Scan", "MemberOp"} /\ ~IsOpen(FormsOf(PendingAs(q.pending)))
  BY <1>4 DEF AfterRefusal
<1> QED
  BY <1>1, <1>2, <1>3, <1>4

\* Where an answer leads.
Outcome(q) ==
  \/ window' = window
  \/ q.pending # "StepMembers" /\ window' = Absent
  \/ q.pending # "StepMembers" /\ \E list \in DOMAIN PanelOf : window' = New(PanelOf[list], Absent)
  \/ q.pending # "StepMembers" /\ window' = Dialog("MoveAnyway", Absent)
  \/ q.pending # "StepMembers" /\ IsOpen({"Members"}) /\ window' = Dialog("UnassignMember", window)
  \/ q.pending # "StepMembers" /\ window # Absent /\ window' = Unlocked(window)
  \/ /\ q.pending # "StepMembers" /\ IsOpen({"TaskForm", "TemplateForm"}) /\ q.task # Absent
     /\ window' = About(New("Conflict", Unlocked(window)), q.task, version[q.task])

LEMMA Outcomes ==
  ASSUME NEW q, \/ Stale(q) /\ window' = Conflicting(q)
                \/ window' = Accepted(q)
                \/ window' \in AfterRefusal(q)
  PROVE  Outcome(q)
<1>1. CASE Stale(q) /\ window' = Conflicting(q)
  <2>1. q.pending = "SaveTask" /\ q.task # Absent
    BY <1>1 DEF Stale
  <2> QED
    BY <1>1, <2>1 DEF Conflicting, Outcome, About
<1>2. FormsOf("StepMembers") = {}
  BY KindsOfWindows DEF FormsOf
<1>3. ~IsOpen({})
  BY DEF IsOpen
<1>4. CASE window' = Accepted(q)
  <2>1. CASE q.pending \in DOMAIN PanelOf
    BY <1>4, <2>1, KindsOfWindows DEF Accepted, Outcome
  <2>2. CASE q.pending \notin DOMAIN PanelOf
    BY <1>2, <1>3, <1>4, <2>2 DEF Accepted, Outcome
  <2> QED
    BY <2>1, <2>2
<1>5. CASE window' \in AfterRefusal(q)
  <2>1. \A k : IsOpen(k) => window # Absent
    BY DEF IsOpen
  <2>2. q.pending = "StepMembers" => ~IsOpen(FormsOf(PendingAs(q.pending)))
    BY <1>2, <1>3 DEF PendingAs
  <2> QED
    BY <1>5, <2>1, <2>2, RefusedTo DEF Outcome
<1> QED
  BY <1>1, <1>4, <1>5

LEMMA OutcomeComes ==
  ASSUME ScreensInv, NEW q \in AskedFor, Outcome(q),
         CountWindow
  PROVE  /\ window' \in Windows \cup {Absent} /\ Comes
<1>0. /\ opens \in Nat /\ window \in Windows \cup {Absent} /\ version \in [Doc -> Nat]
  BY DEF ScreensInv, ScreensTypes
<1>1. ASSUME window' \in Windows, window'.id = opens + 1 PROVE opens' = opens + 1
  BY <1>0, <1>1, AbsentAssumption DEF CountWindow
<1>2. CASE window' = window \/ window' = Absent
  BY <1>0, <1>2, ComesWhen
<1>3. CASE \E list \in DOMAIN PanelOf : window' = New(PanelOf[list], Absent)
  <2>1. PICK list \in DOMAIN PanelOf : window' = New(PanelOf[list], Absent)
    BY <1>3
  <2>2. Stands(PanelOf[list], Absent)
    BY KindsOfWindows DEF Stands
  <2>3. window' \in Windows /\ window'.id = opens + 1 /\ window'.back = Absent
    BY <1>0, <2>1, <2>2, NewWindow
  <2> QED
    BY <1>0, <1>1, <2>3, NewComes
<1>4. CASE window' = Dialog("MoveAnyway", Absent)
  <2>1. window' \in Windows /\ window'.id = opens + 1 /\ window'.back = Absent
    BY <1>0, <1>4, DialogWindow DEF Purposes
  <2> QED
    BY <1>0, <1>1, <2>1, NewComes
<1>5. CASE IsOpen({"Members"}) /\ window' = Dialog("UnassignMember", window)
  <2>1. window \in Windows /\ window.kind \in Listing
    BY <1>0, <1>5 DEF IsOpen, Listing
  <2>2. window \in ListWindow(Listing) /\ "UnassignMember" \in Purposes
    BY <2>1, KindOf DEF Purposes
  <2>3. window' \in Windows /\ window'.id = opens + 1 /\ window'.back = window
    BY <1>0, <1>5, <2>2, DialogWindow
  <2> QED
    BY <1>0, <1>1, <2>3, NewComes
<1>6. window # Absent => Unlocked(window) \in Windows /\ Alike(Unlocked(window), window)
  BY <1>0, Changes DEF Unlocked
<1>7. CASE window # Absent /\ window' = Unlocked(window)
  BY <1>0, <1>6, <1>7, ComesWhen, AbsentAssumption
<1>8. CASE /\ IsOpen({"TaskForm", "TemplateForm"}) /\ q.task # Absent
           /\ window' = About(New("Conflict", Unlocked(window)), q.task, version[q.task])
  <2>1. window # Absent /\ window.kind \in {"TaskForm", "TemplateForm"}
    BY <1>8 DEF IsOpen
  <2>2. Unlocked(window) \in FormWindow({"TaskForm", "TemplateForm"})
    BY <1>6, <2>1, KindOf DEF Alike
  <2>3. Stands("Conflict", Unlocked(window))
    BY <2>2 DEF Stands
  <2>4. q.task \in Doc /\ version[q.task] \in Nat
    BY <1>0, <1>8 DEF AskedFor
  <2>5. window' \in Windows /\ Alike(window', New("Conflict", Unlocked(window)))
    BY <1>0, <1>8, <2>3, <2>4, NewWindow
  <2>6. New("Conflict", Unlocked(window)).id = opens + 1 /\ New("Conflict", Unlocked(window)).back = Unlocked(window)
    BY <1>0, <2>3, NewWindow
  <2>7. window'.id = opens + 1 /\ window'.back = Unlocked(window)
    BY <2>5, <2>6 DEF Alike
  <2>8. window'.back # Absent /\ Alike(window'.back, window)
    BY <1>6, <2>1, <2>7, AbsentAssumption
  <2> QED
    BY <1>0, <1>1, <2>1, <2>5, <2>7, <2>8, NewComes
<1> QED
  BY <1>2, <1>3, <1>4, <1>5, <1>7, <1>8 DEF Outcome

(* What is asked for after an answer follows the request that was answered. *)
LEMMA FollowsUp ==
  ASSUME ScreensInv, NEW q \in AskedFor, q.since <= opens, Kept(window, q), Comes
  PROVE  /\ FollowUp(q) \in Seq(AskedFor)
         /\ \A i \in 1..Len(FollowUp(q)) : /\ FollowUp(q)[i].since <= opens
                                           /\ Kept(window', FollowUp(q)[i])
<1> DEFINE p == Relisted[q.pending]
           r == [pending |-> p, form |-> q.form, task |-> Absent, version |-> 0, since |-> q.since, code |-> Absent]
<1>1. CASE FollowUp(q) = <<>>
  BY <1>1
<1>2. CASE FollowUp(q) # <<>>
  <2>1. FollowUp(q) = <<[Ask(p) EXCEPT !.since = q.since, !.form = q.form]>> /\ q.pending \in DOMAIN Relisted
    BY <1>2 DEF FollowUp
  <2>2. [Ask(p) EXCEPT !.since = q.since, !.form = q.form] = r
    <3> DEFINE u == [pending |-> p, form |-> Absent, task |-> Absent, version |-> 0, since |-> q.since,
                     code |-> Absent]
    <3>1. [Ask(p) EXCEPT !.since = q.since] = u
      BY DEF Ask
    <3>2. [u EXCEPT !.form = q.form] = r
      OBVIOUS
    <3> QED
      BY <3>1, <3>2
  <2>3. p \in Purposes
    BY <2>1, KindsOfWindows
  <2>4. q.pending \notin {"StepMembers", "Lookup"} /\ q.code = Absent
    <3>1. q.pending \notin ForACode \cup {"StepMembers", "Lookup"}
      BY <2>1 DEF Relisted, ByCode, ForACode
    <3> QED
      BY <3>1 DEF AskedFor
  <2>5. q.form \in Nat \cup {Absent} /\ q.since \in Nat /\ opens \in Nat
    BY DEF AskedFor, ScreensInv, ScreensTypes
  <2>6. r \in AskedFor /\ r.since = q.since /\ r.form = q.form /\ r.code = q.code
    BY <2>3, <2>4, <2>5 DEF AskedFor, Codes
  <2> HIDE DEF r
  <2>7. ASSUME ~Exempt(q), NEW y \in Chain(window'), y.kind \in Typable PROVE y.id > q.since \/ y.id = q.form
    BY <2>5, <2>7 DEF Comes, Kept
  <2>8. Kept(window', r)
    BY <2>4, <2>6, <2>7 DEF Kept, Exempt
  <2>9. FollowUp(q) = <<r>>
    BY <2>1, <2>2
  <2> QED
    BY <2>6, <2>8, <2>9
<1> QED
  BY <1>1, <1>2

(* Requests for a control code.                                            *)
LEMMA CodeRequest ==
  ASSUME opens \in Nat, NEW p \in ForACode, NEW n \in Nat,
         NEW c \in Codes
  PROVE  /\ ForCode(p, n, c) \in AskedFor /\ ForCode(p, n, c).since = n /\ ForCode(p, n, c).code = c
         /\ ForCode(p, n, c).pending = p /\ ForCode(p, n, c).form = Absent
<1> DEFINE r(m, k) == [pending |-> p, form |-> Absent, task |-> Absent, version |-> 0, since |-> m, code |-> k]
<1>1. [Ask(p) EXCEPT !.since = n] = r(n, Absent)
  BY DEF Ask
<1>2. [r(n, Absent) EXCEPT !.code = c] = r(n, c)
  OBVIOUS
<1>3. ForCode(p, n, c) = [[Ask(p) EXCEPT !.since = n] EXCEPT !.code = c]
  BY DEF ForCode
<1> HIDE DEF r
<1>4. ForCode(p, n, c) = r(n, c)
  BY <1>1, <1>2, <1>3
<1>5. p \in Purposes
  BY DEF Purposes, ByCode, ForACode
<1> QED
  BY <1>4, <1>5 DEF r, AskedFor

\* Nothing that may be asked afterwards is in the way of a form.
StillSpared ==
  /\ asked' \in Seq(AskedFor)
  /\ \A i \in 1..Len(asked') : \/ \E j \in 1..Len(asked) : asked'[i] = asked[j]
                               \/ asked'[i].since <= opens /\ Kept(window', asked'[i])

\* What was asked, and perhaps without the first.
LEMMA SparedStill ==
  ASSUME asked \in Seq(AskedFor), NEW rest, rest = asked \/ (asked # <<>> /\ rest = Tail(asked))
  PROVE  /\ rest \in Seq(AskedFor)
         /\ asked' = rest => StillSpared
         /\ \A s \in Seq(AskedFor) :
              asked' = rest \o s /\ (\A i \in 1..Len(s) : s[i].since <= opens /\ Kept(window', s[i]))
                => StillSpared
         /\ \A q \in AskedFor : asked' = Append(rest, q) /\ q.since <= opens /\ Kept(window', q) => StillSpared
<1>1. rest \in Seq(AskedFor)
  BY HeadTailProperties
<1>2. ASSUME NEW s \in Seq(AskedFor), asked' = rest \o s,
             \A i \in 1..Len(s) : s[i].since <= opens /\ Kept(window', s[i])
      PROVE  StillSpared
  <2>1. Asked(s)
    BY <1>2 DEF Asked
  <2> QED
    BY <1>2, <2>1, AskMore DEF StillSpared
<1>3. ASSUME asked' = rest PROVE StillSpared
  <2>1. Asked(<<>>) /\ <<>> \in Seq(AskedFor) /\ Len(<<>>) = 0
    BY <1>3, AskNothing
  <2>2. \A i \in 1..Len(<<>>) : <<>>[i].since <= opens /\ Kept(window', <<>>[i])
    BY <2>1
  <2> QED
    BY <2>1, <2>2, AskMore DEF StillSpared
<1>4. ASSUME NEW q \in AskedFor, asked' = Append(rest, q), q.since <= opens, Kept(window', q)
      PROVE  StillSpared
  <2>1. asked' = rest \o <<q>>
    BY <1>1, <1>4, AppendIsConcat
  <2>2. <<q>> \in Seq(AskedFor) /\ Len(<<q>>) = 1 /\ <<q>>[1] = q
    OBVIOUS
  <2>3. \A i \in 1..Len(<<q>>) : <<q>>[i].since <= opens /\ Kept(window', <<q>>[i])
    BY <1>4, <2>2
  <2> QED
    BY <1>2, <2>1, <2>2, <2>3
<1> QED
  BY <1>1, <1>2, <1>3, <1>4

\* A window that is opened and counted.
LEMMA OpenedByAnswer ==
  ASSUME ScreensInv, CountWindow, window' \in Windows, window'.id = opens + 1, window'.back = Absent
  PROVE  /\ Comes /\ opens' = opens + 1
         /\ \A k : asked' = asked \o Asks(k) \/ (asked # <<>> /\ asked' = Tail(asked) \o Asks(k)) => StillSpared
<1>0. /\ opens \in Nat /\ window \in Windows \cup {Absent} /\ asked \in Seq(AskedFor) /\ window' # Absent
  BY AbsentAssumption DEF ScreensInv, ScreensTypes
<1>1. opens' = opens + 1
  BY <1>0 DEF CountWindow
<1>2. Comes
  BY <1>0, <1>1, NewComes
<1>3. \A q : q.since = opens => Kept(window', q)
  BY <1>0, StandsAlone DEF Kept
<1>4. ASSUME NEW k, asked' = asked \o Asks(k) \/ (asked # <<>> /\ asked' = Tail(asked) \o Asks(k))
      PROVE  StillSpared
  <2>1. Asks(k) \in Seq(AskedFor) /\ \A i \in 1..Len(Asks(k)) : Asks(k)[i].since = opens
    BY <1>0, WhatIsAsked
  <2>2. \A i \in 1..Len(Asks(k)) : Asks(k)[i].since <= opens /\ Kept(window', Asks(k)[i])
    BY <1>0, <1>3, <2>1
  <2>3. CASE asked' = asked \o Asks(k)
    BY <1>0, <2>1, <2>2, <2>3, SparedStill
  <2>4. CASE asked # <<>> /\ asked' = Tail(asked) \o Asks(k)
    BY <1>0, <2>1, <2>2, <2>4, SparedStill
  <2> QED
    BY <1>4, <2>3, <2>4
<1> QED
  BY <1>1, <1>2, <1>4

LEMMA EditingWindow ==
  ASSUME ScreensInv, NEW t \in Doc
  PROVE  Editing(t) \in Windows /\ Editing(t).id = opens + 1 /\ Editing(t).back = Absent
<1>0. opens \in Nat /\ version[t] \in Nat
  BY DEF ScreensInv, ScreensTypes
<1>1. Stands("TaskForm", Absent)
  BY KindsOfWindows DEF Stands
<1>2. Editing(t) = About(New("TaskForm", Absent), t, version[t])
  BY DEF Editing, About
<1>3. /\ Editing(t) \in Windows /\ Alike(Editing(t), New("TaskForm", Absent))
  BY <1>0, <1>1, <1>2, NewWindow
<1>4. New("TaskForm", Absent).id = opens + 1 /\ New("TaskForm", Absent).back = Absent
  BY <1>0, <1>1, NewWindow
<1> QED
  BY <1>3, <1>4 DEF Alike

LEMMA ListingWindow ==
  ASSUME ScreensInv, NEW k \in Listing
  PROVE  New(k, Absent) \in Windows /\ New(k, Absent).id = opens + 1 /\ New(k, Absent).back = Absent
<1>1. opens \in Nat /\ Stands(k, Absent)
  BY DEF ScreensInv, ScreensTypes, Stands
<1> QED
  BY <1>1, NewWindow

\* The armed command acts, after a key or an answer.
LEMMA ArmedKeeps ==
  ASSUME ScreensInv, CountWindow, NEW rest, rest = asked \/ (asked # <<>> /\ rest = Tail(asked)),
         NEW since \in Nat, since <= opens, ArmedWindow(rest, since)
  PROVE  window' \in Windows \cup {Absent} /\ Comes /\ StillSpared
<1>0. opens \in Nat /\ window \in Windows \cup {Absent} /\ asked \in Seq(AskedFor)
  BY DEF ScreensInv, ScreensTypes
<1>1. CASE window' = window /\ asked' = rest
  BY <1>0, <1>1, ComesWhen, SparedStill
<1>2. CASE window' \in {New("ColumnPick", Absent), New("TaskDetail", Absent)} /\ asked' = rest
  <2>1. window' \in Windows /\ window'.id = opens + 1 /\ window'.back = Absent
    BY <1>2, ListingWindow DEF Listing
  <2> QED
    BY <1>0, <1>2, <2>1, OpenedByAnswer, SparedStill
<1>3. CASE \E t \in Doc : window' = Editing(t) /\ asked' = rest \o Asks("TaskForm")
  <2>1. window' \in Windows /\ window'.id = opens + 1 /\ window'.back = Absent
    BY <1>3, EditingWindow
  <2> QED
    BY <1>3, <2>1, OpenedByAnswer
<1>4. CASE window' = window /\ asked' = Append(rest, ForCode("MoveTask", since, "Armed"))
  <2>1. "Armed" \in Codes
    BY DEF Codes, AskingCodes
  <2>a. "MoveTask" \in ForACode
    BY DEF ForACode
  <2>2. /\ ForCode("MoveTask", since, "Armed") \in AskedFor /\ ForCode("MoveTask", since, "Armed").since = since
        /\ ForCode("MoveTask", since, "Armed").code = "Armed"
    BY <1>0, <2>1, <2>a, CodeRequest
  <2>3. Kept(window', ForCode("MoveTask", since, "Armed"))
    BY <2>2 DEF Kept, Exempt
  <2> QED
    BY <1>0, <1>4, <2>2, <2>3, ComesWhen, SparedStill
<1> QED
  BY <1>1, <1>2, <1>3, <1>4 DEF ArmedWindow

\* The keys of control codes, and of what they ask.
LEMMA CodeKeeps ==
  ASSUME ScreensInv, PickOption \/ CodeSelected \/ \E c \in Scannable : ScanCode(c)
  PROVE  ScreensInv'
<1>0. /\ opens \in Nat /\ presses \in Nat /\ foreign \in Nat /\ asked \in Seq(AskedFor) /\ quit \in BOOLEAN
      /\ window \in Windows \cup {Absent} /\ version \in [Doc -> Nat] /\ lost \subseteq Losses
      /\ KeepsWhatWasTyped
  BY DEF ScreensInv, ScreensTypes
<1>1. /\ quit' \in BOOLEAN /\ presses' \in Nat /\ UNCHANGED <<version, foreign, lost>>
  <2>1. CASE PickOption
    BY <1>0, <2>1 DEF PickOption, Press, World, Observations
  <2>2. CASE CodeSelected
    BY <1>0, <2>2 DEF CodeSelected, Press, World, Observations
  <2>3. CASE \E c \in Scannable : ScanCode(c)
    BY <1>0, <2>3 DEF ScanCode, Press, World, Observations
  <2> QED
    BY <2>1, <2>2, <2>3
<1>2. CASE PickOption
  <2>1. window' = Absent /\ asked' = Append(asked, Ask("MoveTask")) /\ opens' = opens
    BY <1>2 DEF PickOption
  <2>2. Ask("MoveTask") \in AskedFor /\ Ask("MoveTask").since = opens
    BY <1>0, WhatIsAsked DEF Purposes
  <2>3. Comes
    BY <1>0, <2>1, ComesWhen
  <2>4. Kept(window', Ask("MoveTask"))
    BY <2>1, NoForms
  <2>5. window' \in Windows \cup {Absent}
    BY <2>1
  <2> QED
    BY <1>1, <2>1, <2>2, <2>3, <2>4, <2>5, AskingKey
<1>3. CASE CodeSelected
  <2>1. window' \in Windows \cup {Absent} /\ Comes /\ StillSpared
    BY <1>0, <1>3, ArmedKeeps DEF CodeSelected
  <2>2. opens' \in {opens, opens + 1}
    BY <1>3 DEF CodeSelected, CountWindow
  <2>3. lost' \subseteq Losses /\ KeepsWhatWasTyped' /\ version' \in [Doc -> Nat] /\ foreign' \in Nat
    BY <1>0, <1>1 DEF KeepsWhatWasTyped
  <2> QED
    BY <1>1, <2>1, <2>2, <2>3, ScreensKept DEF StillSpared
<1>4. CASE \E c \in Scannable : ScanCode(c)
  <2>1. PICK c \in Scannable : ScanCode(c)
    BY <1>4
  <2>2. c \in Codes
    BY ScannableAssumption DEF Codes
  <2>3. PICK p \in {"Resolve", "Lookup"} : /\ asked' = Append(asked, ForCode(p, opens, c))
                                           /\ c # "Armed" => p = "Lookup"
    BY <2>1 DEF ScanCode
  <2>4. p \in ForACode
    BY DEF ByCode, ForACode
  <2>5. /\ ForCode(p, opens, c) \in AskedFor /\ ForCode(p, opens, c).since = opens
        /\ ForCode(p, opens, c).code = c /\ ForCode(p, opens, c).pending = p
    BY <1>0, <2>2, <2>4, CodeRequest
  <2>6. Kept(window', ForCode(p, opens, c))
    BY <2>3, <2>5 DEF Kept, Exempt
  <2>7. window' = window /\ opens' = opens
    BY <2>1 DEF ScanCode
  <2>8. Comes
    BY <1>0, <2>7, ComesWhen
  <2> QED
    BY <1>0, <1>1, <2>3, <2>5, <2>6, <2>7, <2>8, AskingKey
<1> QED
  BY <1>2, <1>3, <1>4

(* What the answers to control codes leave.                                *)
LEMMA BoardOpenedKeeps ==
  ASSUME ScreensInv, CountWindow, NEW q \in AskedFor, q.since <= opens, asked # <<>>, BoardOpened(q)
  PROVE  window' \in Windows \cup {Absent} /\ Comes /\ StillSpared
<1>0. opens \in Nat /\ window \in Windows \cup {Absent} /\ asked \in Seq(AskedFor) /\ q.since \in Nat
  BY DEF ScreensInv, ScreensTypes, AskedFor
<1>1. CASE window' = window /\ asked' = Tail(asked)
  BY <1>0, <1>1, ComesWhen, SparedStill
<1>2. CASE window' = New("Question", Absent) /\ asked' = Tail(asked)
  <2>1. window' \in Windows /\ window'.id = opens + 1 /\ window'.back = Absent
    BY <1>2, ListingWindow DEF Listing
  <2> QED
    BY <1>0, <1>2, <2>1, OpenedByAnswer, SparedStill
<1>3. CASE ArmedWindow(Tail(asked), q.since)
  BY <1>0, <1>3, ArmedKeeps
<1> QED
  BY <1>1, <1>2, <1>3 DEF BoardOpened

LEMMA TaskNamedKeeps ==
  ASSUME ScreensInv, CountWindow, NEW q \in AskedFor, q.since <= opens, asked # <<>>, TaskNamed(q)
  PROVE  window' \in Windows \cup {Absent} /\ Comes /\ StillSpared
<1>0. opens \in Nat /\ window \in Windows \cup {Absent} /\ asked \in Seq(AskedFor) /\ q.since \in Nat
  BY DEF ScreensInv, ScreensTypes, AskedFor
<1>1. CASE ArmedWindow(Tail(asked), q.since)
  BY <1>0, <1>1, ArmedKeeps
<1>2. CASE window' = window /\ asked' = Append(Tail(asked), ForCode("OpenBoard", q.since, "Armed"))
  <2>1. "Armed" \in Codes /\ "OpenBoard" \in ForACode
    BY DEF Codes, AskingCodes, ByCode, ForACode
  <2>2. PICK r : r = ForCode("OpenBoard", q.since, "Armed")
    OBVIOUS
  <2>3. r \in AskedFor /\ r.since = q.since /\ r.code = "Armed"
    BY <1>0, <2>1, <2>2, CodeRequest
  <2>4. Kept(window', r)
    BY <2>3 DEF Kept, Exempt
  <2> QED
    BY <1>0, <1>2, <2>2, <2>3, <2>4, ComesWhen, SparedStill
<1> QED
  BY <1>1, <1>2 DEF TaskNamed

LEMMA TargetNamedKeeps ==
  ASSUME ScreensInv, CountWindow, NEW q \in AskedFor, q.since <= opens, asked # <<>>, TargetNamed(q)
  PROVE  /\ window' \in Windows \cup {Absent} /\ Comes /\ StillSpared
         /\ window' = window \/ window = Absent
<1>0. opens \in Nat /\ window \in Windows \cup {Absent} /\ asked \in Seq(AskedFor) /\ q.since \in Nat
  BY DEF ScreensInv, ScreensTypes, AskedFor
<1>1. CASE window' = window /\ asked' = Tail(asked)
  BY <1>0, <1>1, ComesWhen, SparedStill
<1>2. CASE /\ q.code \in DOMAIN OpenedBy /\ window = Absent /\ window' = New(OpenedBy[q.code], Absent)
           /\ asked' = Tail(asked) \o Asks(OpenedBy[q.code])
  <2>1. Stands(OpenedBy[q.code], Absent)
    BY <1>2, KindsOfWindows DEF OpenedBy, Stands
  <2>2. window' \in Windows /\ window'.id = opens + 1 /\ window'.back = Absent
    BY <1>0, <1>2, <2>1, NewWindow
  <2> QED
    BY <1>2, <2>2, OpenedByAnswer
<1>3. CASE /\ window = Absent /\ window' = window
           /\ asked' = Append(Tail(asked), ForCode("OpenBoard", q.since, Absent))
  <2>1. Absent \in Codes /\ "OpenBoard" \in ForACode
    BY DEF Codes, ByCode, ForACode
  <2>2. PICK r : r = ForCode("OpenBoard", q.since, Absent)
    OBVIOUS
  <2>3. r \in AskedFor /\ r.since = q.since
    BY <1>0, <2>1, <2>2, CodeRequest
  <2>4. Kept(window', r)
    BY <1>3, NoForms
  <2> QED
    BY <1>0, <1>3, <2>2, <2>3, <2>4, ComesWhen, SparedStill
<1>4. CASE /\ q.code \in DOMAIN Unseen /\ window' = window
           /\ asked' = Append(Tail(asked), ForCode(Unseen[q.code], q.since, q.code))
  <2>1. q.code \in Codes /\ Unseen[q.code] \in ForACode
    BY <1>4 DEF AskedFor, Unseen, ForACode
  <2>2. PICK r : r = ForCode(Unseen[q.code], q.since, q.code)
    OBVIOUS
  <2>3. r \in AskedFor /\ r.since = q.since /\ r.code = q.code
    BY <1>0, <2>1, <2>2, CodeRequest
  <2>4. Kept(window', r)
    BY <1>4, <2>3 DEF Kept, Exempt
  <2> QED
    BY <1>0, <1>4, <2>2, <2>3, <2>4, ComesWhen, SparedStill
<1> QED
  BY <1>1, <1>2, <1>3, <1>4 DEF TargetNamed

LEMMA FormAnswerKeeps ==
  ASSUME ScreensInv, CountWindow, NEW q \in AskedFor, q.since <= opens, Kept(window, q), asked # <<>>,
         FormAnswer(q)
  PROVE  /\ window' \in Windows \cup {Absent} /\ Comes /\ StillSpared
         /\ q.pending = "StepMembers" => window' = window
         /\ version' \in [Doc -> Nat]
<1>0. opens \in Nat /\ asked \in Seq(AskedFor) /\ version \in [Doc -> Nat]
  BY DEF ScreensInv, ScreensTypes
<1>1. /\ \/ Stale(q) /\ window' = Conflicting(q)
         \/ window' = Accepted(q)
         \/ window' \in AfterRefusal(q)
      /\ asked' = Tail(asked) \/ asked' = Tail(asked) \o FollowUp(q)
  BY DEF FormAnswer
<1>2. Outcome(q)
  BY <1>1, Outcomes
<1>3. window' \in Windows \cup {Absent} /\ Comes
  BY <1>2, OutcomeComes
<1>4. /\ FollowUp(q) \in Seq(AskedFor)
      /\ \A i \in 1..Len(FollowUp(q)) : FollowUp(q)[i].since <= opens /\ Kept(window', FollowUp(q)[i])
  BY <1>3, FollowsUp
<1>5. StillSpared
  BY <1>0, <1>1, <1>4, SparedStill
<1>6. q.pending = "StepMembers" => window' = window
  BY <1>2 DEF Outcome
<1>7. version' \in [Doc -> Nat]
  <2>1. \/ version' = version
        \/ q.task # Absent /\ version' = [version EXCEPT ![q.task] = version[q.task] + 1]
    BY DEF FormAnswer
  <2>2. q.task # Absent => q.task \in Doc
    BY DEF AskedFor
  <2> QED
    BY <1>0, <2>1, <2>2
<1> QED
  BY <1>3, <1>5, <1>6, <1>7

\* What is noticed when an answer comes to a request that was in nobody's way.
LEMMA Noticed ==
  ASSUME ScreensInv, NEW q \in AskedFor, Kept(window, q), Notice(q),
         q.pending \in {"StepMembers", "Lookup"} => window' = window \/ window = Absent
  PROVE  lost' \subseteq Losses /\ KeepsWhatWasTyped'
<1>0. window \in Windows \cup {Absent} /\ lost \subseteq Losses /\ KeepsWhatWasTyped
  BY DEF ScreensInv, ScreensTypes
<1>1. ASSUME NEW l \in lost', l \notin lost
      PROVE  /\ l \in Losses
             /\ l.form = l.own \/ l.since < l.form \/ l.code = "Armed" \/ l.code \in DOMAIN Unseen
  <2>1. PICK f \in Typed(window) \ Typed(window') :
          l = [form |-> f, since |-> q.since, own |-> q.form, code |-> q.code]
    BY <1>1 DEF Notice
  <2>2. PICK x \in Chain(window) : x.typed /\ x.id = f
    BY <2>1 DEF Typed
  <2>3. x \in Windows /\ x.id \in Nat
    BY <1>0, ChainWindows
  <2>4. x.kind \in Typable
    BY <2>2, <2>3, WindowParts
  <2>5. q.pending \notin {"StepMembers", "Lookup"}
    <3>1. window' # window
      BY <2>1
    <3>2. window # Absent
      BY <2>2, LeavesBehind
    <3> QED
      BY <3>1, <3>2
  <2>6. f > q.since \/ f = q.form \/ q.code = "Armed" \/ q.code \in DOMAIN Unseen
    BY <2>2, <2>4, <2>5 DEF Kept, Exempt
  <2>7. f \in Nat /\ q.since \in Nat /\ q.form \in Nat \cup {Absent} /\ q.code \in Codes
    BY <2>2, <2>3 DEF AskedFor
  <2>8. l \in Losses
    BY <2>1, <2>7 DEF Losses
  <2> QED
    BY <2>1, <2>6, <2>7, <2>8
<1>2. \A l \in lost' : l \in Losses
  BY <1>0, <1>1
<1>3. KeepsWhatWasTyped'
  BY <1>0, <1>1 DEF KeepsWhatWasTyped
<1> QED
  BY <1>2, <1>3

LEMMA AnswerKeeps == ScreensInv /\ AnswerArrives => ScreensInv'
<1> SUFFICES ASSUME ScreensInv, AnswerArrives PROVE ScreensInv'
  OBVIOUS
<1>0. /\ opens \in Nat /\ presses \in Nat /\ foreign \in Nat /\ asked \in Seq(AskedFor) /\ quit \in BOOLEAN
      /\ window \in Windows \cup {Absent} /\ version \in [Doc -> Nat] /\ asked # <<>>
  BY DEF ScreensInv, ScreensTypes, AnswerArrives
<1>1. PICK q \in AskedFor : q = Head(asked) /\ q.since <= opens /\ Kept(window, q)
  <2>1. Len(asked) \in Nat /\ Len(asked) # 0 /\ Head(asked) = asked[1]
    BY <1>0, EmptySeq, LenProperties, HeadTailProperties
  <2>2. 1 \in 1..Len(asked)
    BY <2>1
  <2>3. asked[1] \in AskedFor /\ asked[1].since <= opens /\ Kept(window, asked[1])
    BY <1>0, <2>2, ElementOfSeq DEF ScreensInv, Spared
  <2> QED
    BY <2>1, <2>3
<1>2. /\ \/ q.pending = "Resolve" /\ TaskNamed(q) /\ UNCHANGED version
         \/ q.pending = "OpenBoard" /\ BoardOpened(q) /\ UNCHANGED version
         \/ q.pending = "Lookup" /\ TargetNamed(q) /\ UNCHANGED version
         \/ q.pending \notin ByCode /\ FormAnswer(q)
      /\ CountWindow /\ Notice(q) /\ UNCHANGED <<quit, presses, foreign>>
  BY <1>1 DEF AnswerArrives
<1>3. /\ window' \in Windows \cup {Absent} /\ Comes /\ StillSpared /\ version' \in [Doc -> Nat]
      /\ q.pending \in {"StepMembers", "Lookup"} => window' = window \/ window = Absent
  <2>1. CASE q.pending = "Resolve" /\ TaskNamed(q) /\ UNCHANGED version
    BY <1>0, <1>1, <1>2, <2>1, TaskNamedKeeps
  <2>2. CASE q.pending = "OpenBoard" /\ BoardOpened(q) /\ UNCHANGED version
    BY <1>0, <1>1, <1>2, <2>2, BoardOpenedKeeps
  <2>3. CASE q.pending = "Lookup" /\ TargetNamed(q) /\ UNCHANGED version
    BY <1>0, <1>1, <1>2, <2>3, TargetNamedKeeps
  <2>4. CASE q.pending \notin ByCode /\ FormAnswer(q)
    <3>1. q.pending # "Lookup"
      BY <2>4 DEF ByCode
    <3> QED
      BY <1>0, <1>1, <1>2, <2>4, <3>1, FormAnswerKeeps
  <2> QED
    BY <1>2, <2>1, <2>2, <2>3, <2>4
<1>4. lost' \subseteq Losses /\ KeepsWhatWasTyped'
  BY <1>1, <1>2, <1>3, Noticed
<1>5. opens' \in {opens, opens + 1} /\ quit' \in BOOLEAN /\ presses' \in Nat /\ foreign' \in Nat
  BY <1>0, <1>2 DEF CountWindow
<1> QED
  BY <1>3, <1>4, <1>5, ScreensKept DEF StillSpared

LEMMA ScreensInvInit == ScreensInit => ScreensInv
<1> SUFFICES ASSUME ScreensInit PROVE ScreensInv
  OBVIOUS
<1>1. ScreensTypes
  BY EmptySeq DEF ScreensInit, ScreensTypes
<1>2. Numbered
  BY LeavesBehind DEF ScreensInit, Numbered
<1>3. Spared
  BY EmptySeq DEF ScreensInit, Spared
<1>4. KeepsWhatWasTyped
  BY DEF ScreensInit, KeepsWhatWasTyped
<1> QED
  BY <1>1, <1>2, <1>3, <1>4 DEF ScreensInv

LEMMA ScreensInvNext == ScreensInv /\ [ScreensNext]_screens => ScreensInv'
<1> SUFFICES ASSUME ScreensInv, [ScreensNext]_screens PROVE ScreensInv'
  OBVIOUS
<1>1. CASE UNCHANGED screens
  BY <1>1 DEF screens, ScreensInv, ScreensTypes, Numbered, Spared, Kept, KeepsWhatWasTyped
<1>2. CASE ScreensNext
  BY <1>2, OpenKeeps, ListKeeps, ChildKeeps, LeaveKeeps, SaveKeeps, DialogKeeps, AnswerDialogKeeps,
     AnswerConflictKeeps, PlainKeeps, CodeKeeps, ForeignKeeps, AnswerKeeps DEF ScreensNext
<1> QED
  BY <1>1, <1>2

(* Type correctness of the windows, the requests and what was noted: which *)
(* window stands over which (Overlay, app.rs).                             *)
THEOREM ScreensTypeCorrect == ScreensSpec => []ScreensTypes
<1>1. ScreensInv => ScreensTypes
  BY DEF ScreensInv
<1> QED
  BY <1>1, ScreensInvInit, ScreensInvNext, PTL DEF ScreensSpec

(* No answer takes a form with what was typed away, unless it is the       *)
(* answer to its own save, or to something asked before it was opened, or  *)
(* to the code of a task for an armed command, or to a code that makes     *)
(* something unseen (on_response, on_error, on_resolved, on_found).        *)
THEOREM KeptCorrect == ScreensSpec => []KeepsWhatWasTyped
<1>1. ScreensInv => KeepsWhatWasTyped
  BY DEF ScreensInv
<1> QED
  BY <1>1, ScreensInvInit, ScreensInvNext, PTL DEF ScreensSpec

-----------------------------------------------------------------------------
(* The open board.  Types.                                                 *)
CardFields == {"col", "pos", "archived", "asked", "version"}
IsRow(r) == r = [x \in CardFields |-> r[x]] /\ r.archived \in BOOLEAN /\ r.version \in Nat

ViewFields == {"rows", "byDue", "col", "row", "picked", "drag"}
IsView(v) == v = [x \in ViewFields |-> v[x]] /\ v.rows = [t \in Card |-> v.rows[t]]

IsSequence(s) == \E S : s \in Seq(S)

BoardTypes ==
  /\ table = [t \in Card |-> table[t]] /\ \A t \in Card : IsRow(table[t])
  /\ heard \in [Card -> Nat]
  /\ view = Nothing \/ IsView(view)
  /\ events = [queue |-> events.queue, lagged |-> events.lagged]
  /\ IsSequence(events.queue) /\ IsSequence(wire) /\ IsSequence(sent)
  /\ handling # Nothing => handling.kind = "Task"

(* What a card shows once everything has arrived, and what an event or an  *)
(* answer makes of it.                                                     *)
Final(t) == IF table[t].archived THEN Nothing ELSE table[t]
Announced(e) == IF e.change \in {"Deleted", "Archived"} THEN Nothing ELSE e.row
Concerns(m, t) ==
  m.kind = "Board" \/ (m.kind = "Task" /\ m.task = t) \/ (m.kind = "Event" /\ m.event.task = t)
Brings(m, t) ==
  IF m.kind = "Board" THEN Listed(m.rows)[t]
  ELSE IF m.kind = "Task" THEN (IF m.pending = "DeleteTask" THEN Nothing ELSE m.row)
  ELSE Announced(m.event)

LEMMA Appended ==
  ASSUME NEW s, NEW x, IsSequence(s)
  PROVE  /\ IsSequence(Append(s, x)) /\ Len(s) \in Nat /\ Len(Append(s, x)) = Len(s) + 1
         /\ \A i \in 1..Len(s) : Append(s, x)[i] = s[i]
         /\ Append(s, x)[Len(s) + 1] = x
<1>1. PICK S : s \in Seq(S)
  BY DEF IsSequence
<1>2. s \in Seq(S \cup {x}) /\ x \in S \cup {x}
  BY <1>1
<1> QED
  BY <1>2 DEF IsSequence

LEMMA Shortened ==
  ASSUME NEW s, s # <<>>, IsSequence(s)
  PROVE  /\ IsSequence(Tail(s)) /\ Len(s) \in Nat /\ Len(s) >= 1 /\ Len(Tail(s)) = Len(s) - 1
         /\ Head(s) = s[1] /\ \A i \in 1..(Len(s) - 1) : Tail(s)[i] = s[i + 1]
<1>1. PICK S : s \in Seq(S)
  BY DEF IsSequence
<1> QED
  BY <1>1, HeadTailProperties DEF IsSequence

LEMMA SomeField ==
  ASSUME NEW F, NEW f, f = [x \in F |-> f[x]], NEW w \in F, NEW v
  PROVE  [f EXCEPT ![w] = v] = [x \in F |-> IF x = w THEN v ELSE f[x]]
  OBVIOUS

\* The cursor leaves the cards alone.
LEMMA CursorMoves ==
  ASSUME NEW v, IsView(v), NEW w \in {"col", "row", "picked", "drag"}, NEW x
  PROVE  /\ IsView([v EXCEPT ![w] = x])
         /\ [v EXCEPT ![w] = x].rows = v.rows /\ [v EXCEPT ![w] = x].byDue = v.byDue
<1>1. w \in ViewFields /\ "rows" \in ViewFields /\ "byDue" \in ViewFields /\ w # "rows" /\ w # "byDue"
  BY DEF ViewFields
<1>2. [v EXCEPT ![w] = x] = [y \in ViewFields |-> IF y = w THEN x ELSE v[y]]
  BY <1>1, SomeField DEF IsView
<1> QED
  BY <1>1, <1>2 DEF IsView

LEMMA Clamped ==
  ASSUME NEW v, IsView(v)
  PROVE  IsView(Clamp(v)) /\ Clamp(v).rows = v.rows /\ Clamp(v).byDue = v.byDue
<1>1. PICK x : Clamp(v) = [v EXCEPT !["row"] = x]
  BY DEF Clamp
<1>2. LET w == [v EXCEPT !["row"] = x] IN IsView(w) /\ w.rows = v.rows /\ w.byDue = v.byDue
  BY CursorMoves
<1> QED
  BY <1>1, <1>2

LEMMA SelectMoves ==
  ASSUME NEW v, IsView(v), NEW t
  PROVE  IsView(Select(v, t)) /\ Select(v, t).rows = v.rows /\ Select(v, t).byDue = v.byDue
<1>1. Select(v, t) # v => \E x, y : Select(v, t) = [[v EXCEPT !["col"] = x] EXCEPT !["row"] = y]
  BY DEF Select
<1>2. ASSUME NEW x, NEW y
      PROVE  LET w == [[v EXCEPT !["col"] = x] EXCEPT !["row"] = y]
             IN  IsView(w) /\ w.rows = v.rows /\ w.byDue = v.byDue
  <2> DEFINE u == [v EXCEPT !["col"] = x]
  <2>1. IsView(u) /\ u.rows = v.rows /\ u.byDue = v.byDue
    BY CursorMoves
  <2> HIDE DEF u
  <2>2. IsView([u EXCEPT !["row"] = y]) /\ [u EXCEPT !["row"] = y].rows = u.rows
        /\ [u EXCEPT !["row"] = y].byDue = u.byDue
    BY <2>1, CursorMoves
  <2> QED
    BY <2>1, <2>2 DEF u
<1>3. CASE \E x, y : Select(v, t) = [[v EXCEPT !["col"] = x] EXCEPT !["row"] = y]
  <2>1. PICK x, y : Select(v, t) = [[v EXCEPT !["col"] = x] EXCEPT !["row"] = y]
    BY <1>3
  <2> DEFINE w == [[v EXCEPT !["col"] = x] EXCEPT !["row"] = y]
  <2>2. IsView(w) /\ w.rows = v.rows /\ w.byDue = v.byDue
    BY <1>2
  <2>3. Select(v, t) = w
    BY <2>1
  <2> HIDE DEF w
  <2> QED
    BY <2>2, <2>3
<1> QED
  BY <1>1, <1>3

\* A card that is put in or taken out, and nothing else.
LEMMA CardPut ==
  ASSUME NEW v, IsView(v), NEW t, NEW r
  PROVE  LET w == PutIn(v, t, r)
         IN  /\ IsView(w) /\ w.byDue = v.byDue
             /\ \A u \in Card : w.rows[u] = IF u = t THEN r ELSE v.rows[u]
<1> DEFINE u == [v EXCEPT !["rows"] = [v.rows EXCEPT ![t] = r]]
<1>1. PutIn(v, t, r) = Clamp(u)
  BY DEF PutIn, IsView
<1>2. "rows" \in ViewFields /\ "byDue" \in ViewFields
  BY DEF ViewFields
<1>3. u = [y \in ViewFields |-> IF y = "rows" THEN [v.rows EXCEPT ![t] = r] ELSE v[y]]
  BY <1>2, SomeField DEF IsView
<1>4. u = [y \in ViewFields |-> u[y]] /\ u.byDue = v.byDue /\ u.rows = [v.rows EXCEPT ![t] = r]
  BY <1>2, <1>3
<1> HIDE DEF u
<1>5. IsView(u) /\ \A c \in Card : u.rows[c] = IF c = t THEN r ELSE v.rows[c]
  BY <1>4 DEF IsView
<1> QED
  BY <1>1, <1>4, <1>5, Clamped

-----------------------------------------------------------------------------
(* The inductive invariant.  What is on its way to the client is in three   *)
(* places: not told yet, in the bus's queue, on the wire.  While nothing    *)
(* about a card is in the first two, the last that is on the wire brings    *)
(* the card as it is, and when nothing is, the board shows it so.           *)
WireFor(t) == {i \in 1..Len(wire) : Concerns(wire[i], t)}
EventsOf(q, t) == {i \in 1..Len(q) : q[i].task = t}
Newest(q, t, i) == i \in EventsOf(q, t) /\ \A j \in EventsOf(q, t) : j <= i
QueueFor(t) == EventsOf(events.queue, t)
Untold(t) == \E e \in unpublished : e.task = t
Awaited(t) == t \in overtaken \cup dropped \/ Untold(t) \/ QueueFor(t) # {}

Arriving(t) ==
  /\ WireFor(t) = {} => view = Nothing \/ view.rows[t] = Final(t)
  /\ \A i \in WireFor(t) : (\A j \in WireFor(t) : j <= i) => Brings(wire[i], t) = Final(t)
Cards == \A t \in Card : Awaited(t) \/ Arriving(t)

\* An event is never newer than the card, and as new only if it is about the
\* card as it is.
Honest(e) ==
  e.task \in Card =>
    /\ e.row.version \in Nat /\ e.row.version <= table[e.task].version
    /\ e.row.version = table[e.task].version => Announced(e) = Final(e.task)
Honesty ==
  /\ \A e \in unpublished : Honest(e)
  /\ \A i \in 1..Len(events.queue) : Honest(events.queue[i])

\* The newest row was told, or still has to be.
Telling ==
  \A t \in Card :
    /\ heard[t] <= table[t].version
    /\ \/ heard[t] = table[t].version
       \/ \E e \in unpublished : e.task = t /\ e.row.version = table[t].version

\* The last event that is queued is the newest, unless it was overtaken.
Queued ==
  \A t \in Card : t \notin overtaken =>
    \A i \in 1..Len(events.queue) : Newest(events.queue, t, i) => events.queue[i].row.version = heard[t]

\* What is about to be answered has its event ahead of it.
Answering ==
  handling # Nothing /\ handling.task \in Card =>
    handling.task \in dropped \/ Untold(handling.task) \/ QueueFor(handling.task) # {}

\* The order of the columns comes with the whole board, which is asked for when
\* the event about it arrives.
BoardsComing == {i \in 1..Len(wire) : wire[i].kind = "Board" \/ (wire[i].kind = "Event" /\ wire[i].event.task = Nothing)}
BoardAsked == \E i \in 1..Len(sent) : sent[i].op = "GetBoard"
Sorted ==
  \/ Nothing \in dropped \/ Untold(Nothing) \/ QueueFor(Nothing) # {}
  \/ /\ \A i \in BoardsComing :
          (\A j \in BoardsComing : j <= i) /\ wire[i].kind = "Board" => wire[i].byDue = byDue
     /\ BoardsComing # {} \/ view = Nothing \/ view.byDue = byDue \/ BoardAsked

BoardInv == BoardTypes /\ Honesty /\ Telling /\ Queued /\ Answering /\ Cards /\ Sorted

-----------------------------------------------------------------------------
(* The wire.                                                                *)
LEMMA WireGrows ==
  ASSUME IsSequence(wire), NEW m, wire' = Append(wire, m), view' = view, NEW t, Final(t)' = Final(t),
         IF Concerns(m, t) THEN Brings(m, t) = Final(t) ELSE Arriving(t)
  PROVE  Arriving(t)'
<1> DEFINE n == Len(wire)
<1>1. n \in Nat /\ Len(wire') = n + 1 /\ wire'[n + 1] = m /\ \A i \in 1..n : wire'[i] = wire[i]
  BY Appended
<1> HIDE DEF n
<1>2. 1..Len(wire') = 1..n \cup {n + 1}
  BY <1>1
<1>3. CASE Concerns(m, t)
  <2>1. n + 1 \in WireFor(t)' /\ \A i \in WireFor(t)' : i <= n + 1
    BY <1>1, <1>2, <1>3 DEF WireFor, n
  <2>2. \A i \in WireFor(t)' : (\A j \in WireFor(t)' : j <= i) => i = n + 1
    <3>1. \A i \in WireFor(t)' : i \in Int
      BY <1>1 DEF WireFor
    <3> QED
      BY <1>1, <2>1, <3>1
  <2> QED
    BY <1>1, <1>3, <2>1, <2>2 DEF Arriving
<1>4. CASE ~Concerns(m, t)
  <2>1. WireFor(t)' = WireFor(t)
    BY <1>1, <1>2, <1>4 DEF WireFor, n
  <2>2. \A i \in WireFor(t) : wire'[i] = wire[i]
    BY <1>1 DEF WireFor, n
  <2> QED
    BY <1>4, <2>1, <2>2 DEF Arriving
<1> QED
  BY <1>3, <1>4

LEMMA Shifted ==
  ASSUME NEW n \in Nat, NEW I \in SUBSET (1..n), NEW J \in SUBSET (1..(n - 1)),
         \A i \in 1..(n - 1) : i \in J <=> i + 1 \in I
  PROVE  /\ J = {} => I \subseteq {1}
         /\ \A i \in J : (\A j \in J : j <= i) => i + 1 \in I /\ \A j \in I : j <= i + 1
<1>1. \A i \in I : i # 1 => i - 1 \in J /\ (i - 1) + 1 = i
  <2> TAKE i \in I
  <2> HAVE i # 1
  <2>1. i - 1 \in 1..(n - 1) /\ (i - 1) + 1 = i
    OBVIOUS
  <2> QED
    BY <2>1
<1>2. ASSUME NEW i \in J, \A j \in J : j <= i PROVE i + 1 \in I /\ \A j \in I : j <= i + 1
  <2>1. i \in 1..(n - 1) /\ i + 1 \in I
    OBVIOUS
  <2>2. ASSUME NEW j \in I PROVE j <= i + 1
    <3>1. CASE j = 1
      BY <2>1, <3>1
    <3>2. CASE j # 1
      <4>1. j - 1 <= i
        BY <1>1, <1>2, <3>2
      <4> QED
        BY <2>1, <4>1
    <3> QED
      BY <3>1, <3>2
  <2> QED
    BY <2>1, <2>2
<1> QED
  BY <1>1, <1>2

LEMMA WireShrinks ==
  ASSUME IsSequence(wire), wire # <<>>, wire' = Tail(wire), NEW t, Final(t)' = Final(t), Arriving(t),
         IF Concerns(Head(wire), t) THEN view' = Nothing \/ view'.rows[t] = Brings(Head(wire), t)
         ELSE view' = Nothing \/ (view # Nothing /\ view'.rows[t] = view.rows[t])
  PROVE  Arriving(t)'
<1> DEFINE n == Len(wire)
<1>1. /\ n \in Nat /\ n >= 1 /\ Len(wire') = n - 1 /\ Head(wire) = wire[1]
      /\ \A i \in 1..(n - 1) : wire'[i] = wire[i + 1]
  BY Shortened
<1> HIDE DEF n
<1>2. \A i \in 1..(n - 1) : i \in WireFor(t)' <=> i + 1 \in WireFor(t)
  BY <1>1 DEF WireFor, n
<1>3. WireFor(t) \in SUBSET (1..n) /\ WireFor(t)' \in SUBSET (1..(n - 1))
  BY <1>1 DEF WireFor, n
<1>4. ASSUME WireFor(t)' = {} PROVE view' = Nothing \/ view'.rows[t] = Final(t)
  <2>1. WireFor(t) \subseteq {1}
    BY <1>1, <1>2, <1>3, <1>4, Shifted
  <2>2. CASE WireFor(t) = {}
    <3>1. ~Concerns(Head(wire), t)
      BY <1>1, <2>2 DEF WireFor, n
    <3> QED
      BY <2>2, <3>1 DEF Arriving
  <2>3. CASE WireFor(t) # {}
    <3>1. 1 \in WireFor(t) /\ \A j \in WireFor(t) : j <= 1
      BY <2>1, <2>3
    <3>2. Brings(wire[1], t) = Final(t) /\ Concerns(wire[1], t)
      BY <3>1 DEF Arriving, WireFor
    <3> QED
      BY <1>1, <3>2
  <2> QED
    BY <2>2, <2>3
<1>5. ASSUME NEW i \in WireFor(t)', \A j \in WireFor(t)' : j <= i PROVE Brings(wire'[i], t) = Final(t)
  <2>1. i + 1 \in WireFor(t) /\ \A j \in WireFor(t) : j <= i + 1
    BY <1>1, <1>2, <1>3, <1>5, Shifted
  <2>2. wire'[i] = wire[i + 1]
    BY <1>1, <1>3
  <2> QED
    BY <2>1, <2>2 DEF Arriving
<1> QED
  BY <1>4, <1>5 DEF Arriving

\* The whole board on the wire, as for a card.
LEMMA BoardsGrow ==
  ASSUME IsSequence(wire), NEW m, wire' = Append(wire, m)
  PROVE  /\ m.kind = "Board" \/ (m.kind = "Event" /\ m.event.task = Nothing) =>
              /\ BoardsComing' # {}
              /\ \A i \in BoardsComing' : (\A j \in BoardsComing' : j <= i) => wire'[i] = m
         /\ ~(m.kind = "Board" \/ (m.kind = "Event" /\ m.event.task = Nothing)) =>
              BoardsComing' = BoardsComing /\ \A i \in BoardsComing : wire'[i] = wire[i]
<1> DEFINE n == Len(wire)
<1>1. n \in Nat /\ Len(wire') = n + 1 /\ wire'[n + 1] = m /\ \A i \in 1..n : wire'[i] = wire[i]
  BY Appended
<1> HIDE DEF n
<1>2. 1..Len(wire') = 1..n \cup {n + 1}
  BY <1>1
<1>3. CASE m.kind = "Board" \/ (m.kind = "Event" /\ m.event.task = Nothing)
  <2>1. n + 1 \in BoardsComing' /\ \A i \in BoardsComing' : i \in Int /\ i <= n + 1
    BY <1>1, <1>2, <1>3 DEF BoardsComing, n
  <2>2. \A i \in BoardsComing' : (\A j \in BoardsComing' : j <= i) => i = n + 1
    BY <1>1, <2>1
  <2> QED
    BY <1>1, <1>3, <2>1, <2>2
<1>4. CASE ~(m.kind = "Board" \/ (m.kind = "Event" /\ m.event.task = Nothing))
  <2>1. BoardsComing' = BoardsComing
    BY <1>1, <1>2, <1>4 DEF BoardsComing, n
  <2> QED
    BY <1>1, <1>4, <2>1 DEF BoardsComing, n
<1> QED
  BY <1>3, <1>4

LEMMA BoardsShrink ==
  ASSUME IsSequence(wire), wire # <<>>, wire' = Tail(wire)
  PROVE  /\ BoardsComing' = {} => BoardsComing \subseteq {1}
         /\ 1 \in BoardsComing <=>
              Head(wire).kind = "Board" \/ (Head(wire).kind = "Event" /\ Head(wire).event.task = Nothing)
         /\ Head(wire) = wire[1]
         /\ \A i \in BoardsComing' : (\A j \in BoardsComing' : j <= i) =>
              /\ wire'[i] = wire[i + 1] /\ i + 1 \in BoardsComing
              /\ \A j \in BoardsComing : j <= i + 1
<1> DEFINE n == Len(wire)
<1>1. /\ n \in Nat /\ n >= 1 /\ Len(wire') = n - 1 /\ Head(wire) = wire[1]
      /\ \A i \in 1..(n - 1) : wire'[i] = wire[i + 1]
  BY Shortened
<1> HIDE DEF n
<1>2. \A i \in 1..(n - 1) : i \in BoardsComing' <=> i + 1 \in BoardsComing
  BY <1>1 DEF BoardsComing, n
<1>3. BoardsComing \in SUBSET (1..n) /\ BoardsComing' \in SUBSET (1..(n - 1))
  BY <1>1 DEF BoardsComing, n
<1>4. 1 \in BoardsComing <=>
        Head(wire).kind = "Board" \/ (Head(wire).kind = "Event" /\ Head(wire).event.task = Nothing)
  BY <1>1 DEF BoardsComing, n
<1>5. \A i \in BoardsComing' : wire'[i] = wire[i + 1]
  BY <1>1, <1>3
<1> DEFINE I == BoardsComing J == BoardsComing'
<1>6. /\ J = {} => I \subseteq {1}
      /\ \A i \in J : (\A j \in J : j <= i) => i + 1 \in I /\ \A j \in I : j <= i + 1
  <2>1. I \in SUBSET (1..n) /\ J \in SUBSET (1..(n - 1)) /\ \A i \in 1..(n - 1) : i \in J <=> i + 1 \in I
    BY <1>2, <1>3
  <2> HIDE DEF I, J
  <2> QED
    BY <1>1, <2>1, Shifted
<1> QED
  BY <1>1, <1>4, <1>5, <1>6

-----------------------------------------------------------------------------
(* The daemon's steps.                                                      *)

\* What only changes a card's row, or who is still told, leaves the copies
\* that are on their way.
LEMMA CardsStay ==
  ASSUME Cards, wire' = wire, view' = view,
         \A t \in Card : Awaited(t)' \/ (Final(t)' = Final(t) /\ (Awaited(t) => Awaited(t)'))
  PROVE  Cards'
<1> SUFFICES ASSUME NEW t \in Card, ~Awaited(t)', Arriving(t), Final(t)' = Final(t) PROVE Arriving(t)'
  BY DEF Cards
<1>1. WireFor(t)' = WireFor(t)
  BY DEF WireFor
<1> QED
  BY <1>1 DEF Arriving

\* A row gets a newer version, and the event about it is not told yet.
LEMMA Committed ==
  ASSUME BoardInv, NEW t, NEW r, NEW change, NEW mine, CommitChange(t, r, change, mine),
         t \in Card => IsRow(r) /\ r.version = table[t].version + 1
                       /\ (r.archived <=> change \in {"Deleted", "Archived"}),
         UNCHANGED <<events, wire, view, observed>>
  PROVE  /\ table' = [u \in Card |-> table'[u]] /\ \A u \in Card : IsRow(table'[u])
         /\ Honesty' /\ Telling' /\ Queued' /\ Cards'
         /\ \A u : Untold(u)' <=> Untold(u) \/ u = t
<1>1. PICK e : /\ table' = [table EXCEPT ![t] = r] /\ unpublished' = unpublished \cup {e}
               /\ e.task = t /\ e.row = r /\ e.change = change
  <2> DEFINE d == [task |-> t, row |-> r, change |-> change, mine |-> mine, at |-> changes]
  <2>1. table' = [table EXCEPT ![t] = r] /\ unpublished' = unpublished \cup {d}
    BY DEF CommitChange
  <2>2. d.task = t /\ d.row = r /\ d.change = change
    OBVIOUS
  <2> HIDE DEF d
  <2> QED
    BY <2>1, <2>2
<1>2. /\ table = [u \in Card |-> table[u]] /\ \A u \in Card : IsRow(table[u])
  BY DEF BoardInv, BoardTypes
<1>3. /\ table' = [u \in Card |-> table'[u]]
      /\ \A u \in Card : table'[u] = IF u = t THEN r ELSE table[u]
  BY <1>1, <1>2
<1>4. \A u \in Card : IsRow(table'[u])
  BY <1>2, <1>3
<1>5. \A u : Untold(u)' <=> Untold(u) \/ u = t
  BY <1>1 DEF Untold
<1>6. \A u \in Card : u # t => Final(u)' = Final(u)
  BY <1>3 DEF Final
<1>7. ASSUME NEW d, Honest(d) PROVE Honest(d)'
  <2> SUFFICES ASSUME d.task \in Card PROVE Honest(d)'
    BY DEF Honest
  <2>1. d.row.version \in Nat /\ d.row.version <= table[d.task].version /\ table[d.task].version \in Nat
    BY <1>2, <1>7 DEF Honest, IsRow
  <2>2. CASE d.task = t
    BY <1>3, <2>1, <2>2 DEF Honest
  <2>3. CASE d.task # t
    <3>1. table'[d.task] = table[d.task] /\ Final(d.task)' = Final(d.task)
      BY <1>3, <1>6, <2>3
    <3> QED
      BY <1>7, <3>1 DEF Honest
  <2> QED
    BY <2>2, <2>3
<1>8. Honest(e)'
  <2> SUFFICES ASSUME t \in Card PROVE Honest(e)'
    BY <1>1 DEF Honest
  <2>1. table'[t] = r /\ IsRow(r)
    BY <1>3
  <2>2. Announced(e) = Final(t)'
    BY <1>1, <2>1 DEF Announced, Final
  <2> QED
    BY <1>1, <2>1, <2>2 DEF Honest, IsRow
<1>9. Honesty'
  BY <1>1, <1>7, <1>8 DEF BoardInv, Honesty
<1>10. Telling'
  <2> SUFFICES ASSUME NEW u \in Card
               PROVE /\ heard[u] <= table'[u].version
                     /\ \/ heard[u] = table'[u].version
                        \/ \E d \in unpublished' : d.task = u /\ d.row.version = table'[u].version
    BY DEF Telling, observed
  <2>1. /\ heard[u] <= table[u].version /\ heard[u] \in Nat /\ table[u].version \in Nat
        /\ \/ heard[u] = table[u].version
           \/ \E d \in unpublished : d.task = u /\ d.row.version = table[u].version
    BY <1>2 DEF BoardInv, Telling, BoardTypes, IsRow
  <2>2. CASE u = t
    <3>1. table'[u] = r /\ r.version = table[u].version + 1
      BY <1>3, <2>2
    <3> QED
      BY <1>1, <2>1, <2>2, <3>1
  <2>3. CASE u # t
    BY <1>1, <1>3, <2>1, <2>3
  <2> QED
    BY <2>2, <2>3
<1>11. Queued'
  BY DEF BoardInv, Queued, QueueFor, observed
<1>12. Cards'
  <2>1. \A u \in Card : Awaited(u)' \/ (Final(u)' = Final(u) /\ (Awaited(u) => Awaited(u)'))
    <3> TAKE u \in Card
    <3>1. QueueFor(u)' = QueueFor(u) /\ overtaken' = overtaken /\ dropped' = dropped
      BY DEF QueueFor, observed
    <3> QED
      BY <1>5, <1>6, <3>1 DEF Awaited
  <2> QED
    BY <2>1, CardsStay DEF BoardInv
<1> QED
  BY <1>3, <1>4, <1>5, <1>9, <1>10, <1>11, <1>12

\* The order of the columns, while nothing else is told of the board.
LEMMA SortedStays ==
  ASSUME Sorted, UNCHANGED <<byDue, events, wire, view, dropped>>, IsSequence(sent),
         BoardAsked => BoardAsked', Untold(Nothing) => Untold(Nothing)'
  PROVE  Sorted'
  BY DEF Sorted, QueueFor, BoardsComing

\* Another client changes a task, or how a column is sorted.
LEMMA NextRow ==
  ASSUME NEW t, NEW r, IsRow(r)
  PROVE  IsRow(NextVersion(t, r)) /\ NextVersion(t, r).version = r.version + 1
         /\ NextVersion(t, r).archived = r.archived
<1>1. "version" \in CardFields /\ "archived" \in CardFields /\ "version" # "archived"
  BY DEF CardFields
<1> DEFINE n == [r EXCEPT !["version"] = r.version + 1]
<1>2. n = [x \in CardFields |-> IF x = "version" THEN r.version + 1 ELSE r[x]]
  BY <1>1, SomeField DEF IsRow
<1>3. NextVersion(t, r) = n
  BY DEF NextVersion
<1> HIDE DEF n
<1>4. n = [x \in CardFields |-> n[x]] /\ n.version = r.version + 1 /\ n.archived = r.archived
  BY <1>1, <1>2
<1> QED
  BY <1>3, <1>4 DEF IsRow

LEMMA FieldSet ==
  ASSUME NEW r, IsRow(r), NEW w \in CardFields, w # "version", NEW x, w = "archived" => x \in BOOLEAN
  PROVE  LET n == [r EXCEPT ![w] = x]
         IN  IsRow(n) /\ n.version = r.version /\ n.archived = IF w = "archived" THEN x ELSE r.archived
<1>1. "version" \in CardFields /\ "archived" \in CardFields /\ "version" # "archived"
  BY DEF CardFields
<1> DEFINE n == [r EXCEPT ![w] = x]
<1>2. n = [y \in CardFields |-> IF y = w THEN x ELSE r[y]]
  BY SomeField DEF IsRow
<1> HIDE DEF n
<1>3. n = [y \in CardFields |-> n[y]] /\ n.version = r.version
      /\ n.archived = IF w = "archived" THEN x ELSE r.archived
  BY <1>1, <1>2
<1>4. IsRow(n)
  BY <1>3 DEF IsRow
<1> QED
  BY <1>3, <1>4 DEF n

LEMMA ArchivedSet ==
  ASSUME NEW r, IsRow(r), NEW x \in BOOLEAN
  PROVE  LET n == [r EXCEPT !["archived"] = x]
         IN  IsRow(n) /\ n.version = r.version /\ n.archived = x
<1>1. "archived" \in CardFields /\ "archived" # "version"
  BY DEF CardFields
<1> QED
  BY <1>1, FieldSet

LEMMA MoveRow ==
  ASSUME NEW t, IsRow(table[t]), NEW c, NEW p, NEW answered
  PROVE  IsRow(Moved(t, c, p, answered)) /\ Moved(t, c, p, answered).version = table[t].version + 1
         /\ Moved(t, c, p, answered).archived = table[t].archived
<1> DEFINE r == table[t]
           one == [r EXCEPT !["col"] = c]
<1>1. PICK x, y : Moved(t, c, p, answered) = NextVersion(t, [[one EXCEPT !["pos"] = x] EXCEPT !["asked"] = y])
  BY DEF Moved
<1>2. /\ "col" \in CardFields /\ "pos" \in CardFields /\ "asked" \in CardFields
      /\ "col" \notin {"version", "archived"} /\ "pos" \notin {"version", "archived"} /\ "asked" \notin {"version", "archived"}
  BY DEF CardFields
<1>3. IsRow(one) /\ one.version = r.version /\ one.archived = r.archived
  BY <1>2, FieldSet
<1> HIDE DEF one
<1> DEFINE two == [one EXCEPT !["pos"] = x]
<1>4. IsRow(two) /\ two.version = one.version /\ two.archived = one.archived
  BY <1>2, <1>3, FieldSet
<1> HIDE DEF two
<1> DEFINE three == [two EXCEPT !["asked"] = y]
<1>5. IsRow(three) /\ three.version = two.version /\ three.archived = two.archived
  BY <1>2, <1>4, FieldSet
<1>6. Moved(t, c, p, answered) = NextVersion(t, three)
  BY <1>1 DEF two
<1> HIDE DEF three
<1> QED
  BY <1>3, <1>4, <1>5, <1>6, NextRow

\* A change of somebody else keeps the invariant.
LEMMA BoardOthersKeep ==
  ASSUME BoardInv, NEW t, NEW r, NEW change, NEW mine, CommitChange(t, r, change, mine),
         t \in Card => IsRow(r) /\ r.version = table[t].version + 1
                       /\ (r.archived <=> change \in {"Deleted", "Archived"}),
         UNCHANGED <<handling, events, wire, sent, view, observed>>,
         byDue' = byDue \/ t = Nothing
  PROVE  BoardInv'
<1>1. /\ table' = [u \in Card |-> table'[u]] /\ \A u \in Card : IsRow(table'[u])
      /\ Honesty' /\ Telling' /\ Queued' /\ Cards'
      /\ \A u : Untold(u)' <=> Untold(u) \/ u = t
  BY Committed
<1>2. BoardTypes'
  BY <1>1 DEF BoardInv, BoardTypes, observed
<1>3. Answering'
  BY <1>1 DEF BoardInv, Answering, QueueFor, observed
<1>4. Sorted'
  <2>1. CASE t = Nothing
    BY <1>1, <2>1 DEF Sorted
  <2>2. CASE t # Nothing
    <3>1. UNCHANGED <<byDue, events, wire, view, dropped>> /\ IsSequence(sent)
      BY <2>2 DEF BoardInv, BoardTypes, observed
    <3>2. BoardAsked => BoardAsked'
      BY DEF BoardAsked
    <3> QED
      BY <1>1, <3>1, <3>2, SortedStays DEF BoardInv
  <2> QED
    BY <2>1, <2>2
<1> QED
  BY <1>1, <1>2, <1>3, <1>4 DEF BoardInv

LEMMA OtherChangeKeeps ==
  ASSUME BoardInv, NEW t \in Card, OtherChange(t)
  PROVE  BoardInv'
<1> DEFINE r == table[t]
<1>1. IsRow(r) /\ "archived" \in CardFields /\ "pos" \in CardFields /\ "archived" # "version" /\ "pos" # "version"
      /\ "pos" # "archived"
  BY DEF BoardInv, BoardTypes, CardFields
<1>2. UNCHANGED <<byDue, handling, events, wire, sent, view, question, keys, observed>>
  BY DEF OtherChange
<1>3. CASE \E c \in 1..Columns \ {r.col} : ~r.archived /\ CommitChange(t, Moved(t, c, Nothing, FALSE), "Moved", FALSE)
  <2>1. PICK c : ~r.archived /\ CommitChange(t, Moved(t, c, Nothing, FALSE), "Moved", FALSE)
    BY <1>3
  <2> DEFINE n == Moved(t, c, Nothing, FALSE)
  <2>2. IsRow(n) /\ n.version = table[t].version + 1 /\ ~n.archived
    BY <1>1, <2>1, MoveRow
  <2> HIDE DEF n
  <2> QED
    BY <1>2, <2>1, <2>2, BoardOthersKeep DEF n
<1>4. CASE ~r.archived /\ CommitChange(t, NextVersion(t, [r EXCEPT !.archived = TRUE]), "Archived", FALSE)
  <2> DEFINE m == [r EXCEPT !["archived"] = TRUE]
             n == NextVersion(t, m)
  <2>1. IsRow(m) /\ m.version = r.version /\ m.archived
    BY <1>1, ArchivedSet
  <2>2. CommitChange(t, n, "Archived", FALSE)
    BY <1>4
  <2> HIDE DEF m
  <2>3. IsRow(n) /\ n.version = table[t].version + 1 /\ n.archived
    BY <2>1, NextRow
  <2> HIDE DEF n
  <2> QED
    BY <1>2, <2>2, <2>3, BoardOthersKeep
<1>5. CASE CommitChange(t, NextVersion(t, [r EXCEPT !.archived = FALSE, !.pos = EndPos(r.col)]), "Restored", FALSE)
  <2> DEFINE k == [r EXCEPT !["archived"] = FALSE]
             m == [k EXCEPT !["pos"] = EndPos(r.col)]
             n == NextVersion(t, m)
  <2>1. IsRow(k) /\ k.version = r.version /\ k.archived = FALSE
    BY <1>1, ArchivedSet
  <2>2. CommitChange(t, n, "Restored", FALSE)
    BY <1>5
  <2> HIDE DEF k
  <2>3. IsRow(m) /\ m.version = k.version /\ m.archived = k.archived
    BY <1>1, <2>1, FieldSet
  <2> HIDE DEF m
  <2>4. IsRow(n) /\ n.version = table[t].version + 1 /\ n.archived = FALSE
    BY <2>1, <2>3, NextRow
  <2> HIDE DEF n
  <2> QED
    BY <1>2, <2>2, <2>4, BoardOthersKeep
<1>6. CASE ~r.archived /\ CommitChange(t, NextVersion(t, r), "Updated", FALSE)
  <2> DEFINE n == NextVersion(t, r)
  <2>1. IsRow(n) /\ n.version = table[t].version + 1 /\ ~n.archived
    BY <1>1, <1>6, NextRow
  <2>2. CommitChange(t, n, "Updated", FALSE)
    BY <1>6
  <2> HIDE DEF n
  <2> QED
    BY <1>2, <2>1, <2>2, BoardOthersKeep
<1> QED
  BY <1>3, <1>4, <1>5, <1>6 DEF OtherChange

LEMMA OtherSortKeeps ==
  ASSUME BoardInv, NEW c, OtherSort(c)
  PROVE  BoardInv'
<1>1. table' = [table EXCEPT ![Nothing] = Nothing]
  BY NothingAssumption DEF OtherSort, BoardInv, BoardTypes
<1>2. CommitChange(Nothing, Nothing, "BoardUpdated", FALSE)
  BY <1>1 DEF OtherSort, CommitChange
<1>3. UNCHANGED <<handling, events, wire, sent, view, observed>>
  BY DEF OtherSort
<1> QED
  BY <1>2, <1>3, NothingAssumption, BoardOthersKeep

-----------------------------------------------------------------------------
(* The bus's queue for this client.                                         *)
LEMMA QueueTail ==
  ASSUME NEW q, IsSequence(q), q # <<>>, NEW t
  PROVE  /\ Head(q).task # t /\ EventsOf(q, t) # {} => EventsOf(Tail(q), t) # {}
         /\ Head(q).task = t /\ EventsOf(Tail(q), t) = {} => Newest(q, t, 1)
         /\ \A i : Newest(Tail(q), t, i) => Newest(q, t, i + 1) /\ i + 1 \in 1..Len(q) /\ Tail(q)[i] = q[i + 1]
<1> DEFINE n == Len(q) I == EventsOf(q, t) J == EventsOf(Tail(q), t)
<1>1. /\ n \in Nat /\ n >= 1 /\ Len(Tail(q)) = n - 1 /\ Head(q) = q[1]
      /\ \A i \in 1..(n - 1) : Tail(q)[i] = q[i + 1]
  BY Shortened
<1>2. I \in SUBSET (1..n) /\ J \in SUBSET (1..(n - 1)) /\ \A i \in 1..(n - 1) : i \in J <=> i + 1 \in I
  BY <1>1 DEF EventsOf
<1>3. 1 \in I <=> Head(q).task = t
  BY <1>1 DEF EventsOf
<1>4. /\ J = {} => I \subseteq {1}
      /\ \A i \in J : (\A j \in J : j <= i) => i + 1 \in I /\ \A j \in I : j <= i + 1
  <2> HIDE DEF n, I, J
  <2> QED
    BY <1>1, <1>2, Shifted
<1>5. ASSUME NEW i, Newest(Tail(q), t, i)
      PROVE  Newest(q, t, i + 1) /\ i + 1 \in 1..Len(q) /\ Tail(q)[i] = q[i + 1]
  <2>1. i \in J /\ \A j \in J : j <= i
    BY <1>5 DEF Newest
  <2> HIDE DEF n, I, J
  <2>2. i + 1 \in I /\ (\A j \in I : j <= i + 1) /\ i \in 1..(n - 1)
    BY <1>2, <1>4, <2>1
  <2>3. Tail(q)[i] = q[i + 1] /\ i + 1 \in 1..n
    BY <1>1, <1>2, <2>2
  <2> QED
    BY <2>2, <2>3 DEF I, n, Newest
<1>6. ASSUME Head(q).task = t, J = {} PROVE Newest(q, t, 1)
  <2>1. 1 \in I /\ \A j \in I : j = 1
    BY <1>3, <1>4, <1>6
  <2> QED
    BY <2>1 DEF Newest
<1>7. ASSUME Head(q).task # t, I # {} PROVE J # {}
  BY <1>3, <1>4, <1>7
<1> QED
  BY <1>5, <1>6, <1>7

LEMMA QueueAppend ==
  ASSUME NEW q, IsSequence(q), NEW e, NEW t
  PROVE  /\ e.task # t => EventsOf(Append(q, e), t) = EventsOf(q, t)
         /\ e.task = t => EventsOf(Append(q, e), t) # {}
         /\ \A i : Newest(Append(q, e), t, i) /\ e.task = t => Append(q, e)[i] = e
         /\ \A i : Newest(Append(q, e), t, i) /\ e.task # t =>
              Newest(q, t, i) /\ i \in 1..Len(q) /\ Append(q, e)[i] = q[i]
<1> DEFINE n == Len(q) s == Append(q, e)
<1>1. n \in Nat /\ Len(s) = n + 1 /\ s[n + 1] = e /\ \A i \in 1..n : s[i] = q[i]
  BY Appended
<1> HIDE DEF n, s
<1>2. 1..Len(s) = 1..n \cup {n + 1}
  BY <1>1
<1>3. CASE e.task = t
  <2>1. n + 1 \in EventsOf(s, t) /\ \A i \in EventsOf(s, t) : i \in Int /\ i <= n + 1
    BY <1>1, <1>2, <1>3 DEF EventsOf
  <2>2. \A i : Newest(s, t, i) => i = n + 1
    BY <1>1, <2>1 DEF Newest
  <2> QED
    BY <1>1, <1>3, <2>1, <2>2 DEF s
<1>4. CASE e.task # t
  <2>1. EventsOf(s, t) = EventsOf(q, t) /\ \A i \in EventsOf(q, t) : i \in 1..n
    BY <1>1, <1>2, <1>4 DEF EventsOf, n
  <2> QED
    BY <1>1, <1>4, <2>1 DEF Newest, s, n
<1> QED
  BY <1>3, <1>4

\* What is published takes the last place of the queue; of another card at
\* most the oldest event is lost, which the observation notes.
LastOf(t, e) == \E j \in 1..Len(events.queue) : Newest(events.queue, t, j) /\ e = events.queue[j]

LEMMA Published ==
  ASSUME BoardInv, NEW e, PublishEvent(e), NEW t
  PROVE  /\ e.task = t => QueueFor(t)' # {}
         /\ e.task # t /\ QueueFor(t) # {} => QueueFor(t)' # {} \/ t \in dropped'
         /\ \A i : Newest(events'.queue, t, i) /\ e.task = t => events'.queue[i] = e
         /\ \A i : Newest(events'.queue, t, i) /\ e.task # t => LastOf(t, events'.queue[i])
         /\ e.task # t /\ t \in dropped => t \in dropped'
<1> DEFINE full == Len(events.queue) = Receivable
           q == IF full THEN Tail(events.queue) ELSE events.queue
<1>1. /\ events'.queue = Append(q, e)
      /\ dropped' = (dropped \cup (IF full THEN {Head(events.queue).task} ELSE {})) \ {e.task}
  BY DEF PublishEvent
<1>2. full => events.queue # <<>>
  BY ReceivableAssumption
<1>3. IsSequence(events.queue)
  BY DEF BoardInv, BoardTypes
<1>4. IsSequence(q)
  BY <1>2, <1>3, Shortened
<1>5. e.task # t /\ QueueFor(t) # {} => EventsOf(q, t) # {} \/ t \in dropped'
  <2> HAVE e.task # t /\ QueueFor(t) # {}
  <2>1. CASE full
    <3>1. Head(events.queue).task = t => t \in dropped'
      BY <1>1, <2>1
    <3>2. Head(events.queue).task # t => EventsOf(Tail(events.queue), t) # {}
      BY <1>2, <1>3, <2>1, QueueTail DEF QueueFor
    <3> QED
      BY <2>1, <3>1, <3>2
  <2>2. CASE ~full
    BY <2>2 DEF QueueFor
  <2> QED
    BY <2>1, <2>2
<1>6. \A i : Newest(q, t, i) /\ i \in 1..Len(q) =>
        \E j \in 1..Len(events.queue) : Newest(events.queue, t, j) /\ q[i] = events.queue[j]
  <2>1. CASE full
    <3> TAKE i
    <3> HAVE Newest(q, t, i) /\ i \in 1..Len(q)
    <3>1. Newest(Tail(events.queue), t, i) /\ q = Tail(events.queue)
      BY <2>1
    <3>2. Newest(events.queue, t, i + 1) /\ i + 1 \in 1..Len(events.queue) /\ Tail(events.queue)[i] = events.queue[i + 1]
      BY <1>2, <1>3, <2>1, <3>1, QueueTail
    <3> QED
      BY <3>1, <3>2
  <2>2. CASE ~full
    BY <2>2
  <2> QED
    BY <2>1, <2>2
<1> HIDE DEF q, full
<1>7. /\ e.task # t => EventsOf(Append(q, e), t) = EventsOf(q, t)
      /\ e.task = t => EventsOf(Append(q, e), t) # {}
      /\ \A i : Newest(Append(q, e), t, i) /\ e.task = t => Append(q, e)[i] = e
      /\ \A i : Newest(Append(q, e), t, i) /\ e.task # t =>
           Newest(q, t, i) /\ i \in 1..Len(q) /\ Append(q, e)[i] = q[i]
  BY <1>4, QueueAppend
<1>8. QueueFor(t)' = EventsOf(Append(q, e), t) /\ \A i : Newest(events'.queue, t, i) <=> Newest(Append(q, e), t, i)
  BY <1>1 DEF QueueFor
<1>9. e.task # t /\ t \in dropped => t \in dropped'
  BY <1>1
<1>10. ASSUME NEW i, Newest(events'.queue, t, i)
       PROVE /\ e.task = t => events'.queue[i] = e
             /\ e.task # t => LastOf(t, events'.queue[i])
  <2>1. CASE e.task = t
    BY <1>1, <1>7, <1>8, <1>10, <2>1
  <2>2. CASE e.task # t
    <3>1. Newest(q, t, i) /\ i \in 1..Len(q) /\ events'.queue[i] = q[i]
      BY <1>1, <1>7, <1>8, <1>10, <2>2
    <3> QED
      BY <1>6, <2>2, <3>1 DEF LastOf
  <2> QED
    BY <2>1, <2>2
<1> QED
  BY <1>5, <1>7, <1>8, <1>9, <1>10

LEMMA PublishKeeps ==
  ASSUME BoardInv, NEW e \in unpublished, PublishEvent(e)
  PROVE  BoardInv'
<1>1. UNCHANGED <<table, byDue, handling, wire, sent, view, question, changes, keys>>
  BY DEF PublishEvent
<1>2. \A t \in Card : heard[t] \in Nat /\ table[t].version \in Nat
  BY DEF BoardInv, BoardTypes, IsRow
<1>3. Honest(e) /\ unpublished' = unpublished \ {e}
  BY DEF BoardInv, Honesty, PublishEvent
<1>4. \A d : Honest(d) => Honest(d)'
  BY <1>1 DEF Honest, Final
<1>5. ASSUME NEW t \in Card, e.task # t
      PROVE  /\ heard'[t] = heard[t] /\ (t \in overtaken' <=> t \in overtaken)
  BY <1>2, <1>5 DEF PublishEvent, BoardInv, BoardTypes
<1>6. ASSUME e.task \in Card
      PROVE  /\ heard'[e.task] = IF e.row.version > heard[e.task] THEN e.row.version ELSE heard[e.task]
             /\ e.task \in overtaken' <=> e.row.version < heard[e.task]
  BY <1>2, <1>6, NothingAssumption DEF PublishEvent, BoardInv, BoardTypes
<1>7. ASSUME NEW t PROVE Untold(t) /\ e.task # t => Untold(t)'
  BY <1>3 DEF Untold
<1>8. BoardTypes'
  <2>1. heard' \in [Card -> Nat]
    <3>1. heard' = heard \/ \E v : heard' = [heard EXCEPT ![e.task] = v]
      BY DEF PublishEvent
    <3>2. heard' = [t \in Card |-> heard'[t]]
      BY <3>1 DEF BoardInv, BoardTypes
    <3>3. \A t \in Card : heard'[t] \in Nat
      BY <1>2, <1>3, <1>5, <1>6 DEF Honest
    <3> QED
      BY <3>2, <3>3
  <2>2. \E l : events' = [queue |-> events'.queue, lagged |-> l] /\ events'.lagged = l
    BY DEF PublishEvent
  <2>3. IsSequence(events'.queue)
    <3> DEFINE full == Len(events.queue) = Receivable
    <3>1. PICK q : q = IF full THEN Tail(events.queue) ELSE events.queue
      OBVIOUS
    <3>2. events'.queue = Append(q, e)
      BY <3>1 DEF PublishEvent
    <3>3. IsSequence(q)
      BY <3>1, ReceivableAssumption, Shortened DEF BoardInv, BoardTypes
    <3> QED
      BY <3>2, <3>3, Appended
  <2> QED
    BY <1>1, <2>1, <2>2, <2>3 DEF BoardInv, BoardTypes
<1>9. Honesty'
  <2>1. ASSUME NEW i \in 1..Len(events'.queue)
        PROVE  events'.queue[i] = e \/ \E j \in 1..Len(events.queue) : events'.queue[i] = events.queue[j]
    <3> DEFINE full == Len(events.queue) = Receivable
    <3>1. PICK q : q = IF full THEN Tail(events.queue) ELSE events.queue
      OBVIOUS
    <3>2. events'.queue = Append(q, e)
      BY <3>1 DEF PublishEvent
    <3>3. IsSequence(q) /\ \A j \in 1..Len(q) : \E k \in 1..Len(events.queue) : q[j] = events.queue[k]
      <4>1. CASE ~full
        BY <3>1, <4>1 DEF BoardInv, BoardTypes
      <4>2. CASE full
        <5>1. q = Tail(events.queue) /\ events.queue # <<>> /\ IsSequence(events.queue)
          BY <3>1, <4>2, ReceivableAssumption DEF BoardInv, BoardTypes
        <5>2. /\ IsSequence(q) /\ Len(events.queue) \in Nat /\ Len(q) = Len(events.queue) - 1
              /\ \A j \in 1..(Len(events.queue) - 1) : q[j] = events.queue[j + 1]
          BY <5>1, Shortened
        <5> QED
          BY <5>2
      <4> QED
        BY <4>1, <4>2
    <3>4. Len(q) \in Nat /\ Len(Append(q, e)) = Len(q) + 1 /\ Append(q, e)[Len(q) + 1] = e
          /\ \A j \in 1..Len(q) : Append(q, e)[j] = q[j]
      BY <3>3, Appended
    <3>5. i \in 1..Len(q) \/ i = Len(q) + 1
      BY <3>2, <3>4
    <3> QED
      BY <3>2, <3>3, <3>4, <3>5
  <2>2. ASSUME NEW i \in 1..Len(events'.queue) PROVE Honest(events.queue[i])'
    <3>1. PICK d : d = events'.queue[i] /\ Honest(d)
      BY <1>3, <2>1 DEF BoardInv, Honesty
    <3>2. Honest(d)'
      BY <1>4, <3>1
    <3> QED
      BY <3>1, <3>2 DEF Honest
  <2>3. \A d \in unpublished' : Honest(d)'
    BY <1>3, <1>4 DEF BoardInv, Honesty
  <2> QED
    BY <2>2, <2>3 DEF Honesty
<1>10. Telling'
  <2> SUFFICES ASSUME NEW t \in Card
               PROVE /\ heard'[t] <= table[t].version
                     /\ \/ heard'[t] = table[t].version
                        \/ \E d \in unpublished' : d.task = t /\ d.row.version = table[t].version
    BY <1>1 DEF Telling
  <2>1. /\ heard[t] <= table[t].version
        /\ \/ heard[t] = table[t].version
           \/ \E d \in unpublished : d.task = t /\ d.row.version = table[t].version
    BY DEF BoardInv, Telling
  <2>2. CASE e.task # t
    BY <1>3, <1>5, <2>1, <2>2
  <2>3. CASE e.task = t
    <3>1. e.row.version \in Nat /\ e.row.version <= table[t].version
      BY <1>3, <2>3 DEF Honest
    <3>2. heard'[t] = IF e.row.version > heard[t] THEN e.row.version ELSE heard[t]
      BY <1>6, <2>3
    <3>3. heard[t] \in Nat /\ table[t].version \in Nat
      BY <1>2
    <3>4. heard'[t] <= table[t].version
      BY <2>1, <3>1, <3>2, <3>3
    <3>5. CASE heard[t] = table[t].version
      BY <3>1, <3>2, <3>3, <3>5
    <3>6. CASE \E d \in unpublished : d.task = t /\ d.row.version = table[t].version
      <4>1. PICK d \in unpublished : d.task = t /\ d.row.version = table[t].version
        BY <3>6
      <4>2. CASE d = e
        BY <2>1, <3>2, <3>3, <3>4, <4>1, <4>2
      <4>3. CASE d # e
        BY <1>3, <3>4, <4>1, <4>3
      <4> QED
        BY <4>2, <4>3
    <3> QED
      BY <2>1, <3>5, <3>6
  <2> QED
    BY <2>2, <2>3
<1>11. Queued'
  <2> SUFFICES ASSUME NEW t \in Card, t \notin overtaken', NEW i, Newest(events'.queue, t, i)
               PROVE events'.queue[i].row.version = heard'[t]
    BY DEF Queued
  <2>1. CASE e.task = t
    <3>1. events'.queue[i] = e
      BY <2>1, Published
    <3>2. e.row.version \in Nat /\ heard[t] \in Nat /\ ~(e.row.version < heard[t])
      BY <1>2, <1>3, <1>6, <2>1 DEF Honest
    <3> QED
      BY <1>6, <2>1, <3>1, <3>2
  <2>2. CASE e.task # t
    <3>1. LastOf(t, events'.queue[i])
      BY <2>2, Published
    <3>2. PICK j \in 1..Len(events.queue) : Newest(events.queue, t, j) /\ events'.queue[i] = events.queue[j]
      BY <3>1 DEF LastOf
    <3> QED
      BY <1>5, <2>2, <3>2 DEF BoardInv, Queued
  <2> QED
    BY <2>1, <2>2
<1>12. ASSUME NEW t \in Card PROVE Awaited(t) => Awaited(t)'
  <2>1. CASE e.task = t
    BY <2>1, Published DEF Awaited
  <2>2. CASE e.task # t
    BY <1>5, <1>7, <2>2, Published DEF Awaited
  <2> QED
    BY <2>1, <2>2
<1>13. Cards'
  <2>1. \A t \in Card : Final(t)' = Final(t)
    BY <1>1 DEF Final
  <2> QED
    BY <1>1, <1>12, <2>1, CardsStay DEF BoardInv
<1>14. ASSUME NEW t, t \in dropped \/ Untold(t) \/ QueueFor(t) # {}
       PROVE  t \in dropped' \/ Untold(t)' \/ QueueFor(t)' # {}
  BY <1>7, <1>14, Published
<1>15. Answering'
  BY <1>1, <1>14 DEF BoardInv, Answering
<1>16. Sorted'
  <2>1. CASE Nothing \in dropped \/ Untold(Nothing) \/ QueueFor(Nothing) # {}
    BY <1>14, <2>1 DEF Sorted
  <2>2. CASE ~(Nothing \in dropped \/ Untold(Nothing) \/ QueueFor(Nothing) # {})
    <3>1. BoardsComing' = BoardsComing /\ BoardAsked' = BoardAsked
      BY <1>1 DEF BoardsComing, BoardAsked
    <3> QED
      BY <1>1, <2>2, <3>1 DEF BoardInv, Sorted
  <2> QED
    BY <2>1, <2>2
<1> QED
  BY <1>8, <1>9, <1>10, <1>11, <1>13, <1>15, <1>16 DEF BoardInv

-----------------------------------------------------------------------------
(* What the connection writes.                                              *)
LEMMA CardsGrow ==
  ASSUME Cards, IsSequence(wire), NEW m, wire' = Append(wire, m), view' = view,
         \A t \in Card : \/ Awaited(t)'
                         \/ /\ Final(t)' = Final(t)
                            /\ Concerns(m, t) => Brings(m, t) = Final(t)
                            /\ ~Concerns(m, t) => (Awaited(t) => Awaited(t)')
  PROVE  Cards'
<1> SUFFICES ASSUME NEW t \in Card, ~Awaited(t)' PROVE Arriving(t)'
  BY DEF Cards
<1>1. /\ Final(t)' = Final(t)
      /\ Concerns(m, t) => Brings(m, t) = Final(t)
      /\ ~Concerns(m, t) => Arriving(t)
  BY DEF Cards
<1>2. CASE Concerns(m, t)
  BY <1>1, <1>2, WireGrows
<1>3. CASE ~Concerns(m, t)
  BY <1>1, <1>3, WireGrows
<1> QED
  BY <1>2, <1>3

LEMMA SortedGrows ==
  ASSUME Sorted, IsSequence(wire), NEW m, wire' = Append(wire, m), UNCHANGED <<view, byDue>>,
         m.kind # "Board", ~(m.kind = "Event" /\ m.event.task = Nothing), BoardAsked => BoardAsked',
         Nothing \in dropped \/ Untold(Nothing) \/ QueueFor(Nothing) # {} =>
           Nothing \in dropped' \/ Untold(Nothing)' \/ QueueFor(Nothing)' # {}
  PROVE  Sorted'
<1>1. BoardsComing' = BoardsComing /\ \A i \in BoardsComing : wire'[i] = wire[i]
  BY BoardsGrow
<1> QED
  BY <1>1 DEF Sorted

LEMMA SentShrinks ==
  ASSUME IsSequence(sent), sent # <<>>, sent' = Tail(sent)
  PROVE  IsSequence(sent') /\ (Head(sent).op # "GetBoard" => (BoardAsked => BoardAsked'))
<1>1. /\ IsSequence(sent') /\ Len(sent) \in Nat /\ Len(sent') = Len(sent) - 1 /\ Head(sent) = sent[1]
      /\ \A i \in 1..(Len(sent) - 1) : sent'[i] = sent[i + 1]
  BY Shortened
<1>2. ASSUME Head(sent).op # "GetBoard", NEW i \in 1..Len(sent), sent[i].op = "GetBoard"
      PROVE  BoardAsked'
  <2>1. i - 1 \in 1..Len(sent') /\ sent'[i - 1] = sent[i]
    <3>1. i # 1
      BY <1>1, <1>2
    <3>2. i - 1 \in 1..(Len(sent) - 1) /\ (i - 1) + 1 = i
      BY <1>1, <3>1
    <3> QED
      BY <1>1, <3>2
  <2> QED
    BY <1>2, <2>1 DEF BoardAsked
<1> QED
  BY <1>1, <1>2 DEF BoardAsked

LEMMA SentGrows ==
  ASSUME IsSequence(sent), sent' = sent \/ \E q : sent' = Append(sent, q)
  PROVE  IsSequence(sent') /\ (BoardAsked => BoardAsked')
<1>1. CASE sent' = sent
  BY <1>1 DEF BoardAsked
<1>2. CASE \E q : sent' = Append(sent, q)
  <2>1. PICK q : sent' = Append(sent, q)
    BY <1>2
  <2>2. /\ IsSequence(sent') /\ Len(sent) \in Nat /\ Len(sent') = Len(sent) + 1
        /\ \A i \in 1..Len(sent) : sent'[i] = sent[i]
    BY <2>1, Appended
  <2> QED
    BY <2>2 DEF BoardAsked
<1> QED
  BY <1>1, <1>2

LEMMA ForwardKeeps ==
  ASSUME BoardInv, ForwardEvent
  PROVE  BoardInv'
<1>1. /\ handling = Nothing
      /\ UNCHANGED <<table, byDue, unpublished, handling, sent, view, question, changes, keys, observed>>
  BY DEF ForwardEvent
<1>2. IsSequence(wire) /\ IsSequence(events.queue)
  BY DEF BoardInv, BoardTypes
<1>3. BoardAsked' = BoardAsked /\ \A t : Untold(t)' = Untold(t) /\ Final(t)' = Final(t)
  BY <1>1 DEF BoardAsked, Untold, Final
<1>4. Telling' /\ Answering'
  BY <1>1 DEF BoardInv, Telling, Answering, observed
<1>5. CASE wire' = Append(wire, [kind |-> "Notice"]) /\ events' = [events EXCEPT !.lagged = FALSE]
  <2> DEFINE m == [kind |-> "Notice"]
  <2>1. events'.queue = events.queue /\ events' = [queue |-> events'.queue, lagged |-> events'.lagged]
    BY <1>5 DEF BoardInv, BoardTypes
  <2>2. m.kind = "Notice" /\ wire' = Append(wire, m)
    BY <1>5
  <2> HIDE DEF m
  <2>3. BoardTypes'
    BY <1>1, <1>2, <2>1, <2>2, Appended DEF BoardInv, BoardTypes, observed
  <2>4. Honesty' /\ Queued'
    BY <1>1, <2>1 DEF BoardInv, Honesty, Queued, observed, Honest, Final
  <2>5. \A t : QueueFor(t)' = QueueFor(t)
    BY <2>1 DEF QueueFor
  <2>6. Cards'
    <3>1. \A t : (Awaited(t) => Awaited(t)') /\ ~Concerns(m, t)
      BY <1>1, <1>3, <2>2, <2>5 DEF Awaited, Concerns, observed
    <3> QED
      BY <1>1, <1>2, <1>3, <2>2, <3>1, CardsGrow DEF BoardInv
  <2>7. Sorted'
    <3>1. dropped' = dropped
      BY <1>1 DEF observed
    <3> QED
      BY <1>1, <1>2, <1>3, <2>2, <2>5, <3>1, SortedGrows DEF BoardInv
  <2> QED
    BY <1>4, <2>3, <2>4, <2>6, <2>7 DEF BoardInv
<1>6. CASE /\ events.queue # <<>>
           /\ wire' = Append(wire, [kind |-> "Event", event |-> Head(events.queue)])
           /\ events' = [events EXCEPT !.queue = Tail(@)]
  <2>1. PICK e : e = Head(events.queue)
    OBVIOUS
  <2>2. PICK m : m = [kind |-> "Event", event |-> e]
    OBVIOUS
  <2>3. wire' = Append(wire, m) /\ m.kind = "Event" /\ m.event = e
    BY <1>6, <2>1, <2>2
  <2>4. events'.queue = Tail(events.queue) /\ events' = [queue |-> events'.queue, lagged |-> events'.lagged]
    BY <1>6 DEF BoardInv, BoardTypes
  <2>5. /\ IsSequence(events'.queue) /\ Len(events.queue) \in Nat /\ Len(events.queue) >= 1
        /\ Len(events'.queue) = Len(events.queue) - 1 /\ e = events.queue[1]
        /\ \A i \in 1..(Len(events.queue) - 1) : events'.queue[i] = events.queue[i + 1]
    BY <1>2, <1>6, <2>1, <2>4, Shortened
  <2>6. BoardTypes'
    BY <1>1, <1>2, <2>3, <2>4, <2>5, Appended DEF BoardInv, BoardTypes, observed
  <2>7. Honesty'
    <3>1. ASSUME NEW i \in 1..Len(events'.queue) PROVE Honest(events.queue[i])'
      <4>1. PICK d : d = events'.queue[i] /\ Honest(d)
        BY <2>5 DEF BoardInv, Honesty
      <4> QED
        BY <1>1, <4>1 DEF Honest, Final
    <3>2. \A d : Honest(d) => Honest(d)'
      BY <1>1 DEF Honest, Final
    <3> QED
      BY <1>1, <3>1, <3>2 DEF BoardInv, Honesty
  <2>8. ASSUME NEW t
        PROVE  /\ e.task # t /\ QueueFor(t) # {} => QueueFor(t)' # {}
               /\ e.task = t /\ QueueFor(t)' = {} => Newest(events.queue, t, 1)
               /\ \A i : Newest(events'.queue, t, i) =>
                    Newest(events.queue, t, i + 1) /\ i + 1 \in 1..Len(events.queue) /\ events'.queue[i] = events.queue[i + 1]
    <3>1. PICK q : q = events.queue
      OBVIOUS
    <3>2. QueueFor(t) = EventsOf(q, t) /\ QueueFor(t)' = EventsOf(Tail(q), t) /\ events'.queue = Tail(q)
      BY <2>4, <3>1 DEF QueueFor
    <3>3. IsSequence(q) /\ q # <<>> /\ e = Head(q)
      BY <1>2, <1>6, <2>1, <3>1
    <3>4. /\ Head(q).task # t /\ EventsOf(q, t) # {} => EventsOf(Tail(q), t) # {}
          /\ Head(q).task = t /\ EventsOf(Tail(q), t) = {} => Newest(q, t, 1)
          /\ \A i : Newest(Tail(q), t, i) => Newest(q, t, i + 1) /\ i + 1 \in 1..Len(q) /\ Tail(q)[i] = q[i + 1]
      BY <3>3, QueueTail
    <3> QED
      BY <3>1, <3>2, <3>3, <3>4
  <2>9. Queued'
    <3>1. ASSUME NEW t \in Card, t \notin overtaken', NEW i, Newest(events'.queue, t, i)
          PROVE  events'.queue[i].row.version = heard'[t]
      <4>1. Newest(events.queue, t, i + 1) /\ i + 1 \in 1..Len(events.queue) /\ events'.queue[i] = events.queue[i + 1]
        BY <2>8, <3>1
      <4> QED
        BY <1>1, <3>1, <4>1 DEF BoardInv, Queued, observed
    <3> QED
      BY <3>1 DEF Queued
  <2>10. Cards'
    <3>1. ASSUME NEW t \in Card, ~Awaited(t)'
          PROVE  /\ Concerns(m, t) => Brings(m, t) = Final(t)
                 /\ ~Concerns(m, t) => ~Awaited(t)
      <4>1. CASE e.task = t
        <5>1. Newest(events.queue, t, 1) /\ 1 \in 1..Len(events.queue)
          BY <2>5, <2>8, <3>1, <4>1 DEF Awaited
        <5>2. t \notin overtaken /\ ~Untold(t)
          BY <1>1, <1>3, <3>1 DEF Awaited, observed
        <5>3. e.row.version = heard[t]
          BY <2>5, <5>1, <5>2 DEF BoardInv, Queued
        <5>4. heard[t] = table[t].version
          BY <5>2 DEF BoardInv, Telling, Untold
        <5>5. Honest(e)
          BY <2>5, <5>1 DEF BoardInv, Honesty
        <5>6. Announced(e) = Final(t)
          BY <4>1, <5>3, <5>4, <5>5 DEF Honest
        <5> QED
          BY <2>3, <4>1, <5>6 DEF Concerns, Brings
      <4>2. CASE e.task # t
        <5>1. ~Concerns(m, t)
          BY <2>3, <4>2 DEF Concerns
        <5> QED
          BY <1>1, <1>3, <2>8, <3>1, <4>2, <5>1 DEF Awaited, observed
      <4> QED
        BY <4>1, <4>2
    <3> QED
      BY <1>1, <1>2, <1>3, <2>3, <3>1, CardsGrow DEF BoardInv
  <2>11. Sorted'
    <3>1. dropped' = dropped
      BY <1>1 DEF observed
    <3>2. CASE e.task = Nothing
      <4>1. /\ BoardsComing' # {}
            /\ \A i \in BoardsComing' : (\A j \in BoardsComing' : j <= i) => wire'[i] = m
        BY <1>2, <2>3, <3>2, BoardsGrow
      <4> QED
        BY <2>3, <4>1 DEF Sorted
    <3>3. CASE e.task # Nothing
      BY <1>1, <1>2, <1>3, <2>3, <2>8, <3>1, <3>3, SortedGrows DEF BoardInv
    <3> QED
      BY <3>2, <3>3
  <2> QED
    BY <1>4, <2>6, <2>7, <2>9, <2>10, <2>11 DEF BoardInv
<1> QED
  BY <1>5, <1>6 DEF ForwardEvent

LEMMA ReplyKeeps ==
  ASSUME BoardInv, Reply
  PROVE  BoardInv'
<1>1. /\ handling # Nothing /\ handling' = Nothing /\ wire' = Append(wire, handling)
      /\ UNCHANGED <<table, byDue, unpublished, events, sent, view, question, changes, keys, observed>>
  BY DEF Reply
<1>2. IsSequence(wire) /\ handling.kind = "Task"
  BY <1>1 DEF BoardInv, BoardTypes
<1>3. BoardAsked' = BoardAsked /\ \A t : Untold(t)' = Untold(t) /\ Final(t)' = Final(t) /\ QueueFor(t)' = QueueFor(t)
  BY <1>1 DEF BoardAsked, Untold, Final, QueueFor
<1>4. Telling' /\ Answering' /\ Queued' /\ Honesty'
  BY <1>1 DEF BoardInv, Telling, Answering, Queued, Honesty, Honest, Final, observed
<1>5. BoardTypes'
  BY <1>1, <1>2, Appended DEF BoardInv, BoardTypes, observed
<1>6. dropped' = dropped /\ overtaken' = overtaken
  BY <1>1 DEF observed
<1>7. Cards'
  <2>1. \A t \in Card : Concerns(handling, t) => Awaited(t)
    BY <1>1, <1>2 DEF Concerns, BoardInv, Answering, Awaited
  <2>2. \A t \in Card : Awaited(t)' = Awaited(t)
    BY <1>3, <1>6 DEF Awaited
  <2> QED
    BY <1>1, <1>2, <1>3, <2>1, <2>2, CardsGrow DEF BoardInv
<1>8. Sorted'
  BY <1>1, <1>2, <1>3, <1>6, SortedGrows DEF BoardInv
<1> QED
  BY <1>4, <1>5, <1>7, <1>8 DEF BoardInv

LEMMA HandleKeeps ==
  ASSUME BoardInv, HandleRequest
  PROVE  BoardInv'
<1> DEFINE q == Head(sent)
<1>1. /\ handling = Nothing /\ sent # <<>> /\ sent' = Tail(sent)
      /\ UNCHANGED <<events, view, question, keys, heard, overtaken>>
  BY DEF HandleRequest
<1>2. IsSequence(sent') /\ (q.op # "GetBoard" => (BoardAsked => BoardAsked'))
  BY <1>1, SentShrinks DEF BoardInv, BoardTypes
<1>3. IsSequence(wire)
  BY DEF BoardInv, BoardTypes
<1>4. CASE /\ wire' = Append(wire, [kind |-> "Board", pending |-> q.pending, focus |-> q.task, rows |-> table, byDue |-> byDue])
           /\ dropped' = {}
           /\ UNCHANGED <<table, byDue, unpublished, handling, changes>>
  <2>1. PICK m : m = [kind |-> "Board", pending |-> q.pending, focus |-> q.task, rows |-> table, byDue |-> byDue]
    OBVIOUS
  <2>2. wire' = Append(wire, m) /\ m.kind = "Board" /\ m.rows = table /\ m.byDue = byDue
    BY <1>4, <2>1
  <2>3. /\ \A t : Untold(t)' = Untold(t) /\ Final(t)' = Final(t) /\ QueueFor(t)' = QueueFor(t)
    BY <1>1, <1>4 DEF Untold, Final, QueueFor
  <2>4. Telling' /\ Answering' /\ Queued' /\ Honesty'
    BY <1>1, <1>4 DEF BoardInv, Telling, Answering, Queued, Honesty, Honest, Final
  <2>5. BoardTypes'
    BY <1>1, <1>2, <1>3, <1>4, <2>2, Appended DEF BoardInv, BoardTypes
  <2>6. Cards'
    <3>1. \A t \in Card : Concerns(m, t) /\ Brings(m, t) = Final(t)
      BY <2>2 DEF Concerns, Brings, Final, Listed
    <3> QED
      BY <1>1, <1>3, <2>2, <2>3, <3>1, CardsGrow DEF BoardInv
  <2>7. Sorted'
    <3>1. /\ BoardsComing' # {}
          /\ \A i \in BoardsComing' : (\A j \in BoardsComing' : j <= i) => wire'[i] = m
      BY <1>3, <2>2, BoardsGrow
    <3> QED
      BY <1>4, <2>2, <3>1 DEF Sorted
  <2> QED
    BY <2>4, <2>5, <2>6, <2>7 DEF BoardInv
<1>5. CASE /\ wire' = Append(wire, [kind |-> "Err"]) /\ q.op # "GetBoard" /\ dropped' = dropped
           /\ UNCHANGED <<table, byDue, unpublished, handling, changes>>
  <2>1. PICK m : m = [kind |-> "Err"]
    OBVIOUS
  <2>2. wire' = Append(wire, m) /\ m.kind = "Err"
    BY <1>5, <2>1
  <2>3. /\ \A t : Untold(t)' = Untold(t) /\ Final(t)' = Final(t) /\ QueueFor(t)' = QueueFor(t)
    BY <1>1, <1>5 DEF Untold, Final, QueueFor
  <2>4. Telling' /\ Answering' /\ Queued' /\ Honesty'
    BY <1>1, <1>5 DEF BoardInv, Telling, Answering, Queued, Honesty, Honest, Final
  <2>5. BoardTypes'
    BY <1>1, <1>2, <1>3, <1>5, <2>2, Appended DEF BoardInv, BoardTypes
  <2>6. Cards'
    <3>1. \A t \in Card : ~Concerns(m, t) /\ Awaited(t)' = Awaited(t)
      BY <1>1, <1>5, <2>2, <2>3 DEF Concerns, Awaited
    <3> QED
      BY <1>1, <1>3, <2>2, <2>3, <3>1, CardsGrow DEF BoardInv
  <2>7. Sorted'
    BY <1>1, <1>2, <1>3, <1>5, <2>2, <2>3, SortedGrows DEF BoardInv
  <2> QED
    BY <2>4, <2>5, <2>6, <2>7 DEF BoardInv
<1>6. ASSUME NEW r, NEW change, CommitChange(q.task, r, change, TRUE), handling' = TaskReply(q, r),
             q.op # "GetBoard", UNCHANGED <<byDue, wire, dropped>>,
             q.task \in Card => IsRow(r) /\ r.version = table[q.task].version + 1
                                /\ (r.archived <=> change \in {"Deleted", "Archived"})
      PROVE  BoardInv'
  <2>1. PICK t : t = q.task
    OBVIOUS
  <2>2. UNCHANGED <<events, wire, view, observed>>
    BY <1>1, <1>6 DEF observed
  <2>3. /\ table' = [u \in Card |-> table'[u]] /\ \A u \in Card : IsRow(table'[u])
        /\ Honesty' /\ Telling' /\ Queued' /\ Cards'
        /\ \A u : Untold(u)' <=> Untold(u) \/ u = t
    BY <1>6, <2>1, <2>2, Committed
  <2>4. handling'.task = t /\ handling'.kind = "Task"
    BY <1>6, <2>1 DEF TaskReply
  <2>5. BoardTypes'
    BY <1>1, <1>2, <1>6, <2>3, <2>4 DEF BoardInv, BoardTypes
  <2>6. Answering'
    BY <2>3, <2>4 DEF Answering
  <2>7. Sorted'
    BY <1>1, <1>2, <1>6, <2>3, SortedStays DEF BoardInv, BoardTypes
  <2> QED
    BY <2>3, <2>5, <2>6, <2>7 DEF BoardInv
<1>7. CASE /\ q.op \in {"MoveTask", "AnswerQuestion", "DeleteTask"} /\ UNCHANGED <<byDue, wire, dropped>>
           /\ ~table[q.task].archived
           /\ \E r : /\ CommitChange(q.task, r, IF q.op = "DeleteTask" THEN "Deleted" ELSE "Moved", TRUE)
                     /\ handling' = TaskReply(q, r)
                     /\ r = CASE q.op = "MoveTask" -> Moved(q.task, q.col, q.pos, q.answered)
                              [] q.op = "AnswerQuestion" -> NextVersion(q.task, [table[q.task] EXCEPT !.asked = FALSE])
                              [] q.op = "DeleteTask" -> NextVersion(q.task, [table[q.task] EXCEPT !.archived = TRUE])
  <2>1. PICK r : /\ CommitChange(q.task, r, IF q.op = "DeleteTask" THEN "Deleted" ELSE "Moved", TRUE)
                 /\ handling' = TaskReply(q, r)
                 /\ r = CASE q.op = "MoveTask" -> Moved(q.task, q.col, q.pos, q.answered)
                          [] q.op = "AnswerQuestion" -> NextVersion(q.task, [table[q.task] EXCEPT !.asked = FALSE])
                          [] q.op = "DeleteTask" -> NextVersion(q.task, [table[q.task] EXCEPT !.archived = TRUE])
    BY <1>7
  <2>2. PICK t, o : t = q.task /\ o = q.op
    OBVIOUS
  <2>3. t \in Card => IsRow(table[t])
    BY DEF BoardInv, BoardTypes
  <2>4. CASE o = "MoveTask"
    <3>1. r = Moved(t, q.col, q.pos, q.answered)
      BY <2>1, <2>2, <2>4
    <3>2. t \in Card => IsRow(r) /\ r.version = table[t].version + 1 /\ ~r.archived
      BY <1>7, <2>2, <2>3, <3>1, MoveRow
    <3> QED
      BY <1>6, <1>7, <2>1, <2>2, <2>4, <3>2
  <2>5. CASE o = "AnswerQuestion"
    <3> DEFINE m == [table[t] EXCEPT !["asked"] = FALSE]
    <3>1. r = NextVersion(t, m)
      BY <2>1, <2>2, <2>5
    <3>2. "asked" \in CardFields /\ "asked" # "version" /\ "asked" # "archived"
      BY DEF CardFields
    <3>3. t \in Card => IsRow(m) /\ m.version = table[t].version /\ m.archived = table[t].archived
      BY <2>3, <3>2, FieldSet
    <3> HIDE DEF m
    <3>4. t \in Card => IsRow(r) /\ r.version = table[t].version + 1 /\ ~r.archived
      BY <1>7, <2>2, <3>1, <3>3, NextRow
    <3> QED
      BY <1>6, <1>7, <2>1, <2>2, <2>5, <3>4
  <2>6. CASE o = "DeleteTask"
    <3> DEFINE m == [table[t] EXCEPT !["archived"] = TRUE]
    <3>1. r = NextVersion(t, m)
      BY <2>1, <2>2, <2>6
    <3>2. t \in Card => IsRow(m) /\ m.version = table[t].version /\ m.archived
      BY <2>3, ArchivedSet
    <3> HIDE DEF m
    <3>3. t \in Card => IsRow(r) /\ r.version = table[t].version + 1 /\ r.archived
      BY <2>2, <3>1, <3>2, NextRow
    <3> QED
      BY <1>6, <1>7, <2>1, <2>2, <2>6, <3>3
  <2> QED
    BY <1>7, <2>2, <2>4, <2>5, <2>6
<1> QED
  BY <1>4, <1>5, <1>7 DEF HandleRequest

-----------------------------------------------------------------------------
(* The client's steps.                                                      *)
LEMMA CardTaken ==
  ASSUME NEW v, IsView(v), NEW t
  PROVE  LET w == TakeOut(v, t)
         IN  /\ IsView(w) /\ w.byDue = v.byDue
             /\ \A u \in Card : w.rows[u] = IF u = t THEN Nothing ELSE v.rows[u]
<1> DEFINE u == [v EXCEPT !["rows"] = [v.rows EXCEPT ![t] = Nothing]]
<1>1. PICK p : TakeOut(v, t) = Clamp([u EXCEPT !["picked"] = p])
  BY DEF TakeOut, IsView
<1>2. "rows" \in ViewFields /\ "byDue" \in ViewFields
  BY DEF ViewFields
<1>3. u = [y \in ViewFields |-> IF y = "rows" THEN [v.rows EXCEPT ![t] = Nothing] ELSE v[y]]
  BY <1>2, SomeField DEF IsView
<1>4. u = [y \in ViewFields |-> u[y]] /\ u.byDue = v.byDue /\ u.rows = [v.rows EXCEPT ![t] = Nothing]
  BY <1>2, <1>3
<1> HIDE DEF u
<1>5. IsView(u) /\ \A c \in Card : u.rows[c] = IF c = t THEN Nothing ELSE v.rows[c]
  BY <1>4 DEF IsView
<1> DEFINE w == [u EXCEPT !["picked"] = p]
<1>6. IsView(w) /\ w.rows = u.rows /\ w.byDue = u.byDue
  BY <1>5, CursorMoves
<1> HIDE DEF w
<1>7. IsView(Clamp(w)) /\ Clamp(w).rows = w.rows /\ Clamp(w).byDue = w.byDue
  BY <1>6, Clamped
<1> QED
  BY <1>1, <1>4, <1>5, <1>6, <1>7 DEF w

LEMMA OpenedShows ==
  ASSUME NEW rows, rows = [t \in Card |-> rows[t]], NEW sorted
  PROVE  LET v == OpenedView(rows, sorted) IN IsView(v) /\ v.rows = rows /\ v.byDue = sorted
<1> DEFINE v == OpenedView(rows, sorted)
<1>1. v = [x \in ViewFields |-> v[x]]
  BY ZenonT(60) DEF OpenedView, ViewFields
<1>2. v.rows = rows /\ v.byDue = sorted
  BY DEF OpenedView
<1> HIDE DEF v
<1>3. IsView(v)
  BY <1>1, <1>2 DEF IsView
<1> QED
  BY <1>2, <1>3 DEF v

\* Keys and clicks leave the cards as they are, or close the board.
LEMMA KeysKeep ==
  ASSUME BoardInv, UNCHANGED <<daemon, wire, observed>>, sent' = sent \/ \E q : sent' = Append(sent, q),
         \/ view' = Nothing \/ view' = view
         \/ view # Nothing /\ IsView(view') /\ view'.rows = view.rows /\ view'.byDue = view.byDue
  PROVE  BoardInv'
<1>1. UNCHANGED <<table, byDue, unpublished, handling, events, heard, overtaken, dropped>>
  BY DEF daemon, observed
<1>2. IsSequence(sent') /\ (BoardAsked => BoardAsked')
  BY SentGrows DEF BoardInv, BoardTypes
<1>3. \A t : Untold(t)' = Untold(t) /\ Final(t)' = Final(t) /\ QueueFor(t)' = QueueFor(t)
             /\ WireFor(t)' = WireFor(t)
  BY <1>1 DEF Untold, Final, QueueFor, WireFor
<1>4. Telling' /\ Answering' /\ Queued' /\ Honesty'
  <2>1. Telling' /\ Queued'
    BY <1>1 DEF BoardInv, Telling, Queued
  <2>2. Answering'
    BY <1>1, <1>3 DEF BoardInv, Answering
  <2>3. Honesty'
    BY <1>1 DEF BoardInv, Honesty, Honest, Final
  <2> QED
    BY <2>1, <2>2, <2>3
<1>5. BoardTypes'
  BY <1>1, <1>2 DEF BoardInv, BoardTypes
<1>6. Cards'
  <2>1. ASSUME NEW t \in Card, Arriving(t) PROVE Arriving(t)'
    BY <1>1, <1>3, <2>1 DEF Arriving
  <2>2. \A t \in Card : Awaited(t)' = Awaited(t)
    BY <1>1, <1>3 DEF Awaited
  <2> QED
    BY <2>1, <2>2 DEF BoardInv, Cards
<1>7. Sorted'
  <2>1. BoardsComing' = BoardsComing
    BY DEF BoardsComing
  <2> QED
    BY <1>1, <1>2, <1>3, <2>1 DEF BoardInv, Sorted
<1> QED
  BY <1>4, <1>5, <1>6, <1>7 DEF BoardInv

LEMMA RequestMoves ==
  ASSUME NEW t, NEW c, NEW p, RequestMove(t, c, p)
  PROVE  sent' = sent \/ \E q : sent' = Append(sent, q)
  BY DEF RequestMove, SendRequest

LEMMA BoardKeysKeep ==
  ASSUME BoardInv, Cursor \/ Pick \/ Carry \/ Drop \/ AnswerOrLeave \/ Delete \/ LeaveOrOpen
  PROVE  BoardInv'
<1>1. view # Nothing => IsView(view)
  BY DEF BoardInv, BoardTypes
<1>2. CASE Cursor
  <2>1. PICK c \in 1..Columns, i \in 0..Cardinality(Card) : view' = Clamp([view EXCEPT !.col = c, !.row = i])
    BY <1>2 DEF Cursor
  <2>2. view # Nothing /\ sent' = sent /\ UNCHANGED <<daemon, wire, observed>>
    BY <1>2 DEF Cursor
  <2> DEFINE u == [view EXCEPT !["col"] = c]
             w == [u EXCEPT !["row"] = i]
  <2>3. IsView(u) /\ u.rows = view.rows /\ u.byDue = view.byDue
    BY <1>1, <2>2, CursorMoves
  <2>4. view' = Clamp(w)
    BY <2>1
  <2> HIDE DEF u
  <2>5. IsView(w) /\ w.rows = u.rows /\ w.byDue = u.byDue
    BY <2>3, CursorMoves
  <2> HIDE DEF w
  <2>6. IsView(view') /\ view'.rows = w.rows /\ view'.byDue = w.byDue
    BY <2>4, <2>5, Clamped
  <2> QED
    BY <2>2, <2>3, <2>5, <2>6, KeysKeep
<1>3. CASE Pick
  <2>1. view # Nothing /\ sent' = sent /\ UNCHANGED <<daemon, wire, observed>> /\ IsView(view)
    BY <1>1, <1>3 DEF Pick
  <2>2. CASE \E x : view' = [view EXCEPT !["picked"] = x]
    <3>1. PICK x : view' = [view EXCEPT !["picked"] = x]
      BY <2>2
    <3>2. IsView(view') /\ view'.rows = view.rows /\ view'.byDue = view.byDue
      BY <2>1, <3>1, CursorMoves
    <3> QED
      BY <2>1, <3>2, KeysKeep
  <2>3. CASE \E t : view' = [Select(view, t) EXCEPT !["drag"] = t]
    <3>1. PICK t : view' = [Select(view, t) EXCEPT !["drag"] = t]
      BY <2>3
    <3>2. PICK u : u = Select(view, t)
      OBVIOUS
    <3>3. IsView(u) /\ u.rows = view.rows /\ u.byDue = view.byDue
      BY <2>1, <3>2, SelectMoves
    <3>4. IsView(view') /\ view'.rows = u.rows /\ view'.byDue = u.byDue
      BY <3>1, <3>2, <3>3, CursorMoves
    <3> QED
      BY <2>1, <3>3, <3>4, KeysKeep
  <2> QED
    BY <1>3, <2>2, <2>3 DEF Pick
<1>4. CASE Carry
  <2>1. PICK m \in MovePicked(view, view.picked) : RequestMove(view.picked, m[1], m[2])
    BY <1>4 DEF Carry
  <2>2. UNCHANGED <<daemon, wire, view, observed>>
    BY <1>4 DEF Carry
  <2> QED
    BY <2>1, <2>2, RequestMoves, KeysKeep
<1>5. CASE Drop
  <2>1. \E c, p : RequestMove(view.drag, c, p)
    BY <1>5 DEF Drop
  <2>2. view # Nothing /\ UNCHANGED <<daemon, wire, observed>> /\ view' = [view EXCEPT !["drag"] = Nothing]
    BY <1>5 DEF Drop
  <2>3. IsView(view') /\ view'.rows = view.rows /\ view'.byDue = view.byDue
    BY <1>1, <2>2, CursorMoves
  <2>4. sent' = sent \/ \E q : sent' = Append(sent, q)
    BY <2>1, RequestMoves
  <2> QED
    BY <2>2, <2>3, <2>4, KeysKeep
<1>6. CASE AnswerOrLeave
  BY <1>6, KeysKeep DEF AnswerOrLeave, SendRequest
<1>7. CASE Delete
  BY <1>7, KeysKeep DEF Delete, SendRequest
<1>8. CASE LeaveOrOpen
  BY <1>8, KeysKeep DEF LeaveOrOpen, SendRequest
<1> QED
  BY <1>2, <1>3, <1>4, <1>5, <1>6, <1>7, <1>8

\* What a message makes of the open board.
LEMMA Received ==
  ASSUME BoardInv, NEW m,
         OnOpenBoard(m) \/ OnRefresh(m) \/ OnTask(m) \/ OnTaskChanged(m) \/ OnBoardUpdated(m) \/ OnToast(m)
  PROVE  /\ view' = Nothing \/ IsView(view')
         /\ \A t \in Card : Concerns(m, t) => view' = Nothing \/ view'.rows[t] = Brings(m, t)
         /\ \A t \in Card : ~Concerns(m, t) => view' = Nothing \/ (view # Nothing /\ view'.rows[t] = view.rows[t])
         /\ m.kind = "Board" => view' = Nothing \/ view'.byDue = m.byDue
         /\ m.kind # "Board" => view' = Nothing \/ (view # Nothing /\ view'.byDue = view.byDue)
         /\ m.kind = "Event" /\ m.event.task = Nothing =>
              view' = Nothing \/ \E q : q.op = "GetBoard" /\ sent' = Append(sent, q)
         /\ sent' = sent \/ \E q : sent' = Append(sent, q)
<1>1. view = Nothing \/ IsView(view)
  BY DEF BoardInv, BoardTypes
<1>2. CASE OnOpenBoard(m)
  <2>1. m.kind = "Board" /\ sent' = sent
    BY <1>2 DEF OnOpenBoard
  <2>2. PICK rows : rows = Listed(m.rows)
    OBVIOUS
  <2>3. PICK v : v = OpenedView(rows, m.byDue)
    OBVIOUS
  <2>4. IsView(v) /\ v.rows = rows /\ v.byDue = m.byDue
    BY <2>2, <2>3, OpenedShows DEF Listed
  <2>5. view' = v \/ view' = Select(v, m.focus)
    BY <1>2, <2>2, <2>3 DEF OnOpenBoard
  <2>6. IsView(view') /\ view'.rows = v.rows /\ view'.byDue = v.byDue
    BY <2>4, <2>5, SelectMoves
  <2>7. \A t : Concerns(m, t) /\ Brings(m, t) = rows[t]
    BY <2>1, <2>2 DEF Concerns, Brings
  <2> QED
    BY <2>1, <2>4, <2>6, <2>7
<1>3. CASE OnRefresh(m)
  <2>1. m.kind = "Board" /\ sent' = sent
    BY <1>3 DEF OnRefresh
  <2>2. PICK rows : rows = Listed(m.rows)
    OBVIOUS
  <2>3. \A t : Concerns(m, t) /\ Brings(m, t) = rows[t]
    BY <2>1, <2>2 DEF Concerns, Brings
  <2>4. CASE view = Nothing
    <3>1. view' = Nothing
      BY <1>3, <2>4 DEF OnRefresh
    <3> QED
      BY <2>1, <2>3, <3>1
  <2>5. CASE view # Nothing
    <3> DEFINE u == [view EXCEPT !["rows"] = rows]
               w == [u EXCEPT !["byDue"] = m.byDue]
    <3>1. view' = Clamp(w)
      BY <1>3, <2>2, <2>5 DEF OnRefresh
    <3>2. "rows" \in ViewFields /\ "byDue" \in ViewFields
      BY DEF ViewFields
    <3>3. u = [y \in ViewFields |-> IF y = "rows" THEN rows ELSE view[y]]
      BY <1>1, <2>5, <3>2, SomeField DEF IsView
    <3>4. u = [y \in ViewFields |-> u[y]] /\ u.rows = rows
      BY <3>2, <3>3
    <3> HIDE DEF u
    <3>5. w = [y \in ViewFields |-> IF y = "byDue" THEN m.byDue ELSE u[y]]
      BY <3>2, <3>4, SomeField
    <3>6. w = [y \in ViewFields |-> w[y]] /\ w.rows = rows /\ w.byDue = m.byDue
      BY <3>2, <3>4, <3>5
    <3> HIDE DEF w
    <3>7. IsView(w)
      BY <2>2, <3>6 DEF IsView, Listed
    <3>8. IsView(view') /\ view'.rows = rows /\ view'.byDue = m.byDue
      BY <3>1, <3>6, <3>7, Clamped
    <3> QED
      BY <2>1, <2>3, <3>8
  <2> QED
    BY <2>4, <2>5
<1>4. CASE OnTask(m)
  <2>1. m.kind = "Task" /\ sent' = sent
    BY <1>4 DEF OnTask
  <2>2. \A t : Concerns(m, t) <=> t = m.task
    BY <2>1 DEF Concerns
  <2>3. CASE view = Nothing
    <3>1. view' = Nothing
      BY <1>4, <2>3 DEF OnTask
    <3> QED
      BY <2>1, <3>1
  <2>4. CASE view # Nothing /\ m.pending = "DeleteTask"
    <3>1. view' = TakeOut(view, m.task)
      BY <1>4, <2>4 DEF OnTask
    <3>2. \A t : Brings(m, t) = Nothing
      BY <2>1, <2>4 DEF Brings
    <3>3. /\ IsView(view') /\ view'.byDue = view.byDue
          /\ \A u \in Card : view'.rows[u] = IF u = m.task THEN Nothing ELSE view.rows[u]
      BY <1>1, <2>4, <3>1, CardTaken
    <3> QED
      BY <2>1, <2>2, <2>4, <3>2, <3>3
  <2>5. CASE view # Nothing /\ m.pending # "DeleteTask"
    <3>1. PICK v : v = PutIn(view, m.task, m.row)
      OBVIOUS
    <3>2. view' = v \/ view' = Select(v, m.task)
      BY <1>4, <2>5, <3>1 DEF OnTask
    <3>3. \A t : Brings(m, t) = m.row
      BY <2>1, <2>5 DEF Brings
    <3>4. /\ IsView(v) /\ v.byDue = view.byDue
          /\ \A u \in Card : v.rows[u] = IF u = m.task THEN m.row ELSE view.rows[u]
      BY <1>1, <2>5, <3>1, CardPut
    <3>5. IsView(view') /\ view'.rows = v.rows /\ view'.byDue = v.byDue
      BY <3>2, <3>4, SelectMoves
    <3> QED
      BY <2>1, <2>2, <2>5, <3>3, <3>4, <3>5
  <2> QED
    BY <2>3, <2>4, <2>5
<1>5. CASE OnTaskChanged(m)
  <2>1. m.kind = "Event" /\ m.event.task # Nothing /\ sent' = sent
    BY <1>5 DEF OnTaskChanged
  <2>2. \A t : (Concerns(m, t) <=> t = m.event.task) /\ Brings(m, t) = Announced(m.event)
    BY <2>1 DEF Concerns, Brings
  <2>3. CASE view = Nothing
    <3>1. view' = Nothing
      BY <1>5, <2>3 DEF OnTaskChanged
    <3> QED
      BY <2>1, <3>1
  <2>4. CASE view # Nothing /\ m.event.change \in {"Deleted", "Archived"}
    <3>1. view' = TakeOut(view, m.event.task) /\ Announced(m.event) = Nothing
      BY <1>5, <2>4 DEF OnTaskChanged, Announced
    <3>2. /\ IsView(view') /\ view'.byDue = view.byDue
          /\ \A u \in Card : view'.rows[u] = IF u = m.event.task THEN Nothing ELSE view.rows[u]
      BY <1>1, <2>4, <3>1, CardTaken
    <3> QED
      BY <2>1, <2>2, <2>4, <3>1, <3>2
  <2>5. CASE view # Nothing /\ m.event.change \notin {"Deleted", "Archived"}
    <3>1. view' = PutIn(view, m.event.task, m.event.row) /\ Announced(m.event) = m.event.row
      BY <1>5, <2>5 DEF OnTaskChanged, Announced
    <3>2. /\ IsView(view') /\ view'.byDue = view.byDue
          /\ \A u \in Card : view'.rows[u] = IF u = m.event.task THEN m.event.row ELSE view.rows[u]
      BY <1>1, <2>5, <3>1, CardPut
    <3> QED
      BY <2>1, <2>2, <2>5, <3>1, <3>2
  <2> QED
    BY <2>3, <2>4, <2>5
<1>6. CASE OnBoardUpdated(m)
  <2>1. m.kind = "Event" /\ m.event.task = Nothing /\ view' = view
    BY <1>6 DEF OnBoardUpdated
  <2>2. \A t \in Card : ~Concerns(m, t)
    BY <2>1, NothingAssumption DEF Concerns
  <2>3. CASE view = Nothing
    BY <1>6, <2>1, <2>2, <2>3 DEF OnBoardUpdated
  <2>4. CASE view # Nothing
    <3>1. PICK q : q = AskForBoard("RefreshBoard", Nothing)
      OBVIOUS
    <3>2. sent' = Append(sent, q)
      BY <1>6, <2>4, <3>1 DEF OnBoardUpdated, SendRequest
    <3>3. q.op = "GetBoard"
      BY <3>1 DEF AskForBoard
    <3> QED
      BY <1>1, <2>1, <2>2, <2>4, <3>2, <3>3
  <2> QED
    BY <2>3, <2>4
<1>7. CASE OnToast(m)
  <2>1. m.kind \in {"Err", "Notice"} /\ view' = view /\ sent' = sent
    BY <1>7 DEF OnToast
  <2>2. \A t \in Card : ~Concerns(m, t)
    BY <2>1 DEF Concerns
  <2> QED
    BY <1>1, <2>1, <2>2
<1> QED
  BY <1>2, <1>3, <1>4, <1>5, <1>6, <1>7

LEMMA ReceiveKeeps ==
  ASSUME BoardInv, Receive
  PROVE  BoardInv'
<1>1. PICK m : m = Head(wire)
  OBVIOUS
<1>2. /\ wire # <<>> /\ wire' = Tail(wire) /\ UNCHANGED <<daemon, changes, keys, observed>>
      /\ OnOpenBoard(m) \/ OnRefresh(m) \/ OnTask(m) \/ OnTaskChanged(m) \/ OnBoardUpdated(m) \/ OnToast(m)
  BY <1>1 DEF Receive
<1>3. /\ view' = Nothing \/ IsView(view')
      /\ \A t \in Card : Concerns(m, t) => view' = Nothing \/ view'.rows[t] = Brings(m, t)
      /\ \A t \in Card : ~Concerns(m, t) => view' = Nothing \/ (view # Nothing /\ view'.rows[t] = view.rows[t])
      /\ m.kind = "Board" => view' = Nothing \/ view'.byDue = m.byDue
      /\ m.kind # "Board" => view' = Nothing \/ (view # Nothing /\ view'.byDue = view.byDue)
      /\ m.kind = "Event" /\ m.event.task = Nothing =>
           view' = Nothing \/ \E q : q.op = "GetBoard" /\ sent' = Append(sent, q)
      /\ sent' = sent \/ \E q : sent' = Append(sent, q)
  BY <1>2, Received
<1>4. UNCHANGED <<table, byDue, unpublished, handling, events, heard, overtaken, dropped>>
  BY <1>2 DEF daemon, observed
<1>5. IsSequence(wire) /\ IsSequence(sent)
  BY DEF BoardInv, BoardTypes
<1>6. IsSequence(sent') /\ (BoardAsked => BoardAsked')
  BY <1>3, <1>5, SentGrows
<1>7. \A t : Untold(t)' = Untold(t) /\ Final(t)' = Final(t) /\ QueueFor(t)' = QueueFor(t)
  BY <1>4 DEF Untold, Final, QueueFor
<1>8. Telling' /\ Queued'
  BY <1>4 DEF BoardInv, Telling, Queued
<1>9. Answering'
  BY <1>4, <1>7 DEF BoardInv, Answering
<1>10. Honesty'
  BY <1>4 DEF BoardInv, Honesty, Honest, Final
<1>11. BoardTypes'
  BY <1>2, <1>3, <1>4, <1>5, <1>6, Shortened DEF BoardInv, BoardTypes
<1>12. Cards'
  <2>1. ASSUME NEW t \in Card, Arriving(t) PROVE Arriving(t)'
    <3>1. IF Concerns(Head(wire), t) THEN view' = Nothing \/ view'.rows[t] = Brings(Head(wire), t)
          ELSE view' = Nothing \/ (view # Nothing /\ view'.rows[t] = view.rows[t])
      BY <1>1, <1>3
    <3> QED
      BY <1>2, <1>5, <1>7, <2>1, <3>1, WireShrinks
  <2>2. \A t \in Card : Awaited(t)' = Awaited(t)
    BY <1>4, <1>7 DEF Awaited
  <2> QED
    BY <2>1, <2>2 DEF BoardInv, Cards
<1>13. Sorted'
  <2>1. CASE Nothing \in dropped \/ Untold(Nothing) \/ QueueFor(Nothing) # {}
    BY <1>4, <1>7, <2>1 DEF Sorted
  <2>2. CASE ~(Nothing \in dropped \/ Untold(Nothing) \/ QueueFor(Nothing) # {})
    <3>1. /\ \A i \in BoardsComing :
               (\A j \in BoardsComing : j <= i) /\ wire[i].kind = "Board" => wire[i].byDue = byDue
          /\ BoardsComing # {} \/ view = Nothing \/ view.byDue = byDue \/ BoardAsked
      BY <2>2 DEF BoardInv, Sorted
    <3>2. /\ BoardsComing' = {} => BoardsComing \subseteq {1}
          /\ 1 \in BoardsComing <=> m.kind = "Board" \/ (m.kind = "Event" /\ m.event.task = Nothing)
          /\ m = wire[1]
          /\ \A i \in BoardsComing' : (\A j \in BoardsComing' : j <= i) =>
               /\ wire'[i] = wire[i + 1] /\ i + 1 \in BoardsComing
               /\ \A j \in BoardsComing : j <= i + 1
      BY <1>1, <1>2, <1>5, BoardsShrink
    <3>3. \A i \in BoardsComing' :
            (\A j \in BoardsComing' : j <= i) /\ wire'[i].kind = "Board" => wire'[i].byDue = byDue
      BY <3>1, <3>2
    <3>4. ASSUME BoardsComing' = {} PROVE view' = Nothing \/ view'.byDue = byDue \/ BoardAsked'
      <4>1. CASE BoardsComing = {}
        <5>1. m.kind # "Board"
          BY <3>2, <4>1
        <5>2. view' = Nothing \/ (view # Nothing /\ view'.byDue = view.byDue)
          BY <1>3, <5>1
        <5> QED
          BY <1>6, <3>1, <4>1, <5>2
      <4>2. CASE BoardsComing # {} /\ m.kind = "Board"
        <5>1. 1 \in BoardsComing /\ \A j \in BoardsComing : j <= 1
          BY <3>2, <3>4, <4>2
        <5>2. m.byDue = byDue
          BY <3>1, <3>2, <4>2, <5>1
        <5> QED
          BY <1>3, <4>2, <5>2
      <4>3. CASE BoardsComing # {} /\ m.kind # "Board"
        <5>1. m.kind = "Event" /\ m.event.task = Nothing
          BY <3>2, <3>4, <4>3
        <5>2. CASE view' = Nothing
          BY <5>2
        <5>3. CASE \E q : q.op = "GetBoard" /\ sent' = Append(sent, q)
          <6>1. PICK q : q.op = "GetBoard" /\ sent' = Append(sent, q)
            BY <5>3
          <6>2. Len(sent) \in Nat /\ Len(sent') = Len(sent) + 1 /\ sent'[Len(sent) + 1] = q
            BY <1>5, <6>1, Appended
          <6>3. Len(sent) + 1 \in 1..Len(sent') /\ sent'[Len(sent) + 1].op = "GetBoard"
            BY <6>1, <6>2
          <6> QED
            BY <6>3 DEF BoardAsked
        <5> QED
          BY <1>3, <5>1, <5>2, <5>3
      <4> QED
        BY <4>1, <4>2, <4>3
    <3> QED
      BY <1>4, <3>3, <3>4 DEF Sorted
  <2> QED
    BY <2>1, <2>2
<1> QED
  BY <1>8, <1>9, <1>10, <1>11, <1>12, <1>13 DEF BoardInv

LEMMA InitShows ==
  ASSUME BoardInit
  PROVE  BoardInv
<1>1. ASSUME NEW c, NEW p PROVE IsRow(PlacedAt(c, p)) /\ PlacedAt(c, p).version = 0 /\ ~PlacedAt(c, p).archived
  <2>1. PICK r : r = PlacedAt(c, p)
    OBVIOUS
  <2>2. r = [x \in CardFields |-> r[x]]
    BY <2>1, ZenonT(60) DEF PlacedAt, CardFields
  <2>3. r.version = 0 /\ r.archived = FALSE
    BY <2>1 DEF PlacedAt
  <2>4. r.version \in Nat /\ r.archived \in BOOLEAN
    <3>1. r.version \in Nat
      BY <2>3
    <3>2. r.archived \in BOOLEAN
      BY <2>3, Zenon
    <3> QED
      BY <3>1, <3>2
  <2>5. IsRow(r)
    BY <2>2, <2>4 DEF IsRow
  <2> QED
    BY <2>1, <2>3, <2>5
<1>2. /\ table = [t \in Card |-> table[t]]
      /\ \A t \in Card : IsRow(table[t]) /\ table[t].version = 0 /\ ~table[t].archived
  BY <1>1 DEF BoardInit
<1>3. /\ byDue = {} /\ unpublished = {} /\ handling = Nothing /\ wire = <<>> /\ sent = <<>>
      /\ events = [queue |-> <<>>, lagged |-> FALSE] /\ heard = [t \in Card |-> 0]
  BY DEF BoardInit
<1>4. IsView(view) /\ view.rows = table /\ view.byDue = {}
  <2>1. view = OpenedView(table, {})
    BY DEF BoardInit
  <2> QED
    BY <1>2, <2>1, OpenedShows
<1>5. events.queue = <<>> /\ events = [queue |-> events.queue, lagged |-> events.lagged]
  BY <1>3
<1>6. IsSequence(<<>>) /\ Len(<<>>) = 0
  <2>1. <<>> \in Seq({})
    OBVIOUS
  <2> QED
    BY <2>1 DEF IsSequence
<1>7. BoardTypes
  BY <1>2, <1>3, <1>4, <1>5, <1>6 DEF BoardTypes
<1>8. Honesty /\ Queued
  BY <1>3, <1>5, <1>6 DEF Honesty, Queued
<1>9. Telling
  BY <1>2, <1>3 DEF Telling
<1>10. Answering
  BY <1>3 DEF Answering
<1>11. Cards
  <2>1. \A t \in Card : Final(t) = table[t]
    BY <1>2 DEF Final
  <2>2. \A t \in Card : WireFor(t) = {}
    BY <1>3, <1>6 DEF WireFor
  <2> QED
    BY <1>4, <2>1, <2>2 DEF Cards, Arriving
<1>12. Sorted
  <2>1. BoardsComing = {}
    BY <1>3, <1>6 DEF BoardsComing
  <2> QED
    BY <1>3, <1>4, <2>1 DEF Sorted
<1> QED
  BY <1>7, <1>8, <1>9, <1>10, <1>11, <1>12 DEF BoardInv

LEMMA BoardKeeps ==
  ASSUME BoardInv, [BoardNext]_boardVars
  PROVE  BoardInv'
<1>1. CASE UNCHANGED boardVars
  <2>1. UNCHANGED <<daemon, wire, observed>> /\ sent' = sent /\ view' = view
    BY <1>1 DEF boardVars
  <2> QED
    BY <2>1, KeysKeep
<1>2. CASE BoardNext
  BY <1>2, OtherChangeKeeps, OtherSortKeeps, PublishKeeps, ForwardKeeps, HandleKeeps, ReplyKeeps,
     BoardKeysKeep, ReceiveKeeps DEF BoardNext
<1> QED
  BY <1>1, <1>2

\* App::upsert, remove and refresh, and the events of the bus, keep the open
\* board's cards and sort order those of the daemon once everything that was
\* published, queued and answered has arrived, but for the cards whose events
\* reached the bus in the wrong order or fell out of it, for any number of
\* cards, columns, changes and keys.
THEOREM CopyCorrect == BoardSpec => []CopyCatchesUp
<1>1. BoardInit => BoardInv
  BY InitShows
<1>2. BoardInv /\ [BoardNext]_boardVars => BoardInv'
  BY BoardKeeps
<1>3. BoardInv => CopyCatchesUp
  <2> SUFFICES ASSUME BoardInv, Settled, view # Nothing
               PROVE  /\ \A t \in Card : Current(t) \/ t \in overtaken \cup dropped
                      /\ view.byDue = byDue \/ Nothing \in dropped
    BY DEF CopyCatchesUp
  <2>1. unpublished = {} /\ wire = <<>> /\ sent = <<>> /\ events.queue = <<>> /\ Len(<<>>) = 0
    BY DEF Settled
  <2>2. \A t : ~Untold(t) /\ QueueFor(t) = {}
    BY <2>1 DEF Untold, QueueFor, EventsOf
  <2>3. ASSUME NEW t \in Card, t \notin overtaken \cup dropped PROVE Current(t)
    <3>1. Arriving(t)
      BY <2>2, <2>3 DEF BoardInv, Cards, Awaited
    <3>2. WireFor(t) = {}
      BY <2>1 DEF WireFor
    <3> QED
      BY <3>1, <3>2 DEF Arriving, Current, Final
  <2>4. view.byDue = byDue \/ Nothing \in dropped
    <3>1. BoardsComing = {} /\ ~BoardAsked
      BY <2>1 DEF BoardsComing, BoardAsked
    <3> QED
      BY <2>2, <3>1 DEF BoardInv, Sorted
  <2> QED
    BY <2>3, <2>4
<1> QED
  BY <1>1, <1>2, <1>3, PTL DEF BoardSpec
=============================================================================
