------------------------------- MODULE Access -------------------------------
(* Who may see a board, and who still believes to: one board, the sessions   *)
(* that manage it, the events it sends to an audience, and the boards that   *)
(* clients show, here the client of one of them. A request loads the board,  *)
(* commits, and publishes, each in a step of its own; a connection does one  *)
(* request at a time and forwards no events meanwhile.                       *)
EXTENDS Naturals, Sequences

CONSTANTS
  Person,      \* with one session each
  Owner,
  Admin,       \* sessions that were admin's when they connected
  Requests,    \* what may be asked: updates, additions, removals, a deletion, assignments
  MaxTurns,    \* bound: how many requests
  MaxAsked,    \* bound: with how much under way the client asks to open the board
  Nil

ASSUME SessionsAssumption == Owner \in Person /\ Admin \subseteq Person

ASSUME RequestsAssumption ==
  Requests \subseteq
    [op : {"update"}, private : BOOLEAN \cup {Nil}, lock : BOOLEAN \cup {Nil}, settings : BOOLEAN]
      \cup [op : {"delete"}] \cup [op : {"add"}, uid : Person]
      \cup [op : {"remove"}, uid : Person, unassign : BOOLEAN]
      \cup [op : {"assign"}, to : SUBSET Person]

VARIABLES
  board,       \* the row, its members; Nil once it is deleted
  live,        \* who has a task of the board assigned
  req,         \* the request each session is at
  me,          \* whose client this is
  bus,         \* events published to it and not yet forwarded
  onTheWay,    \* what is on its way to the client
  wanted,      \* what the client has asked and the daemon not answered
  listed,      \* the client's list has the board
  displayed,   \* the client shows the board
  turns,
  crossed      \* observation: a change of the board was made by a request that
               \* had loaded it before another change

accessVars == <<board, live, req, me, bus, onTheWay, wanted, listed, displayed, turns, crossed>>

-----------------------------------------------------------------------------
\* permission.rs

IsMember(b, u) == u = Owner \/ ~b.private \/ u \in b.members

Privileged(u) == u \in Admin \/ u = Owner

CheckBoard(action, u, b) ==
  /\ IsMember(b, u) \/ (u \in Admin /\ action \in {"DeleteBoard", "ToggleLock"})
  /\ action \in {"View", "AddTask"} \/ Privileged(u)
  /\ action = "DeleteBoard" => ~b.locked

\* Editing a task: its assignees too, and whoever made it, here the owner.
CheckEdit(u, b, assignees) == IsMember(b, u) /\ (Privileged(u) \/ u \in assignees)

\* An update that changes no setting and is not about lock or privacy is
\* checked like one that does.
CheckUpdate(r, u, b) ==
  /\ r.lock # Nil => CheckBoard("ToggleLock", u, b)
  /\ r.private # Nil => CheckBoard("TogglePrivate", u, b)
  /\ r.settings \/ (r.lock = Nil /\ r.private = Nil) => CheckBoard("EditSettings", u, b)

-----------------------------------------------------------------------------
\* bus.rs: an audience is taken from a board as the handler has it.

ForBoard(b) == IF b.private THEN b.members \cup {Owner} ELSE Person

ForBoardOrAdmins(b) == ForBoard(b) \cup Admin

Told(audience, change) == [audience |-> audience, change |-> change]

\* Its having gone private is told to those who can see the board still.
ToldOfClosingAfter(before, after) == <<Told(ForBoard(after), "AccessRevoked")>>
\* What is published when a board has gone private.
ToldOfClosing(before, after) == <<Told(ForBoard(before), "AccessRevoked")>>

-----------------------------------------------------------------------------
BoardRow == [private : BOOLEAN, locked : BOOLEAN, members : SUBSET Person]
Change == {"Settings", "AccessRevoked", "Deleted", "Members", "Task"}
Event == [audience : SUBSET Person, change : Change]
UnderWay == [at : {"commit", "reload", "publish"}, request : Requests, before : BoardRow, todo : Seq(Event)]

ASSUME NilAssumption == Nil \notin BOOLEAN \cup BoardRow /\ Nil \notin UnderWay

AccessInit ==
  /\ board \in [private : BOOLEAN, locked : {FALSE}, members : {{Owner} \cup m : m \in SUBSET Person}]
  /\ live \in SUBSET {u \in Person : IsMember(board, u)}
  /\ req = [s \in Person |-> Nil]
  /\ me \in Person /\ bus = <<>> /\ onTheWay = <<>> /\ wanted = <<>>
  /\ listed = (IsMember(board, me) \/ me \in Admin)
  /\ displayed \in {TRUE, FALSE} /\ (displayed => IsMember(board, me))
  /\ turns = 0 /\ crossed = FALSE

clients == <<me, listed, displayed>>

\* The request is read and checked on a board that is loaded now.
Allowed(r, s, b) ==
  CASE r.op = "update" -> CheckUpdate(r, s, b)
    [] r.op = "delete" -> CheckBoard("DeleteBoard", s, b)
    [] r.op = "assign" -> CheckEdit(s, b, live)
    [] OTHER -> /\ CheckBoard("ManageMembers", s, b)
                /\ r.op = "remove" => r.uid # Owner

Load(s, r) ==
  /\ req[s] = Nil /\ board # Nil /\ Allowed(r, s, board)
  /\ turns < MaxTurns /\ turns' = turns + 1
  /\ req' = [req EXCEPT ![s] = [at |-> "commit", request |-> r, before |-> board, todo |-> <<>>]]
  /\ UNCHANGED <<board, live, bus, onTheWay, wanted, clients, crossed>>

Then(s, at, todo) == req' = [req EXCEPT ![s].at = at, ![s].todo = todo]
LetGo(s) == req' = [req EXCEPT ![s] = Nil]

Set(old, new) == IF new = Nil THEN old ELSE new

\* UpdateBoard: going private carries over whoever has work on the board.
CommitUpdate(s) ==
  LET before == req[s].before
      r == req[s].request
      set == [board EXCEPT !.private = Set(@, r.private), !.locked = Set(@, r.lock)]
      closes == ~before.private /\ set.private
      after == IF closes THEN [set EXCEPT !.members = @ \cup live] ELSE set
  IN  /\ r.op = "update"
      /\ IF board = Nil THEN LetGo(s) /\ UNCHANGED board
         ELSE /\ board' = after
              /\ Then(s, "publish",
                      <<Told(ForBoardOrAdmins(before), "Settings")>>
                        \o (IF closes THEN ToldOfClosing(before, after) ELSE <<>>))
      /\ UNCHANGED live

CommitDelete(s) ==
  /\ req[s].request.op = "delete"
  /\ board' = Nil /\ live' = {}
  /\ Then(s, "publish", <<Told(ForBoardOrAdmins(req[s].before), "Deleted")>>)

CommitAdd(s) ==
  /\ req[s].request.op = "add"
  /\ IF board = Nil THEN LetGo(s) /\ UNCHANGED board
     ELSE /\ board' = [board EXCEPT !.members = @ \cup {req[s].request.uid}]
          /\ Then(s, "reload", <<>>)
  /\ UNCHANGED live

\* RemoveMember: whoever has tasks stays, unless those are taken along.
CommitRemove(s) ==
  LET r == req[s].request
      revoked == IF req[s].before.private THEN <<Told({r.uid}, "AccessRevoked")>> ELSE <<>>
  IN  /\ r.op = "remove"
      /\ IF board = Nil \/ (r.uid \in live /\ ~r.unassign) THEN LetGo(s) /\ UNCHANGED <<board, live>>
         ELSE /\ live' = live \ {r.uid}
              /\ board' = [board EXCEPT !.members = @ \ {r.uid}]
              /\ Then(s, "reload", revoked)

\* UpdateTask: the assignees must be members of the board that was loaded.
CommitAssign(s) ==
  LET r == req[s].request
  IN  /\ r.op = "assign"
      /\ IF board # Nil /\ \A u \in r.to : IsMember(req[s].before, u)
         THEN live' = r.to /\ Then(s, "publish", <<Told(ForBoard(req[s].before), "Task")>>)
         ELSE LetGo(s) /\ UNCHANGED live
      /\ UNCHANGED board

Commit(s) ==
  /\ req[s] # Nil /\ req[s].at = "commit"
  /\ CommitUpdate(s) \/ CommitDelete(s) \/ CommitAdd(s) \/ CommitRemove(s) \/ CommitAssign(s)
  /\ crossed' = (crossed \/ (board' # board /\ req[s].before # board))
  /\ UNCHANGED <<bus, onTheWay, wanted, clients, turns>>

\* AddMember and RemoveMember publish to the board as it is now, if whoever
\* asked may still see it. The one removed is told before that.
Reload(s) ==
  /\ req[s] # Nil /\ req[s].at = "reload" /\ req[s].todo = <<>>
  /\ IF board = Nil \/ ~IsMember(board, s) THEN LetGo(s)
     ELSE Then(s, "publish", <<Told(ForBoardOrAdmins(board), "Members")>>)
  /\ UNCHANGED <<board, live, bus, onTheWay, wanted, clients, turns, crossed>>

Publish(s) ==
  /\ req[s] # Nil /\ req[s].todo # <<>>
  /\ LET e == Head(req[s].todo)
         rest == Tail(req[s].todo)
     IN  /\ bus' = IF me \in e.audience THEN Append(bus, e.change) ELSE bus
         /\ IF rest = <<>> /\ req[s].at = "publish" THEN LetGo(s) ELSE Then(s, req[s].at, rest)
  /\ UNCHANGED <<board, live, onTheWay, wanted, clients, turns, crossed>>

-----------------------------------------------------------------------------
\* server.rs: a connection forwards an event, or answers the next request.

Forward ==
  /\ req[me] = Nil /\ bus # <<>>
  /\ onTheWay' = Append(onTheWay, Head(bus)) /\ bus' = Tail(bus)
  /\ UNCHANGED <<board, live, req, wanted, clients, turns, crossed>>

\* Whether the client may open the board, and finds it in its list.
Visible == board # Nil /\ IsMember(board, me)
OnList == board # Nil /\ (IsMember(board, me) \/ me \in Admin)

AnswerTo(what) ==
  IF what = "ListBoards" THEN (IF OnList THEN "Listed" ELSE "Unlisted")
  ELSE IF ~Visible THEN "Denied" ELSE IF what = "OpenBoard" THEN "Opened" ELSE "Refreshed"

AnswerWanted ==
  /\ req[me] = Nil /\ wanted # <<>>
  /\ onTheWay' = Append(onTheWay, AnswerTo(Head(wanted))) /\ wanted' = Tail(wanted)
  /\ UNCHANGED <<board, live, req, bus, clients, turns, crossed>>

-----------------------------------------------------------------------------
\* app.rs: what the client makes of it.

\* Whatever changed, the list is asked for; a board that is gone is left.
OnBoardChanged(change) ==
  /\ displayed' = (displayed /\ change \notin {"Deleted", "AccessRevoked"})
  /\ wanted' = wanted \o (IF displayed' THEN <<"ListBoards", "GetBoard">> ELSE <<"ListBoards">>)
  /\ UNCHANGED listed

\* An open board that the list has no more is left.
OnAnswered(m) ==
  /\ listed' = IF m \in {"Listed", "Unlisted"} THEN m = "Listed" ELSE listed
  /\ displayed' = (m = "Opened" \/ (displayed /\ m # "Unlisted"))
  /\ UNCHANGED wanted

Read ==
  /\ onTheWay # <<>> /\ onTheWay' = Tail(onTheWay)
  /\ IF Head(onTheWay) \in {"Settings", "AccessRevoked", "Deleted", "Members"}
     THEN OnBoardChanged(Head(onTheWay)) ELSE OnAnswered(Head(onTheWay))
  /\ UNCHANGED <<board, live, req, me, bus, turns, crossed>>

\* Every Enter on the board in the list asks for it, whatever is under way.
AskToOpen ==
  /\ listed /\ ~displayed
  /\ Len(wanted) + Len(onTheWay) < MaxAsked
  /\ wanted' = Append(wanted, "OpenBoard")
  /\ UNCHANGED <<board, live, req, bus, onTheWay, clients, turns, crossed>>

AccessNext ==
  \/ \E s \in Person :
       \/ \E r \in Requests : Load(s, r)
       \/ Commit(s) \/ Reload(s) \/ Publish(s)
  \/ Forward \/ AnswerWanted \/ Read \/ AskToOpen

AccessSpec == AccessInit /\ [][AccessNext]_accessVars

-----------------------------------------------------------------------------
\* No request is at work and nothing is on its way to the client.
Quiet ==
  /\ \A s \in Person : req[s] = Nil
  /\ bus = <<>> /\ onTheWay = <<>> /\ wanted = <<>>

\* handlers.rs: "whoever could see it before gets told it changed, using the
\* wider audience so non members learn it disappeared". Whoever loses a board,
\* by its going private, a removal or its deletion, does not go on showing or
\* listing it, unless one manager's change was made on what another had changed
\* meanwhile.
LosesSight == Quiet /\ ~crossed => (displayed => Visible) /\ (listed => OnList)
=============================================================================
