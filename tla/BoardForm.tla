------------------------------- MODULE BoardForm -------------------------------
(* The form for boards (forms/board.rs): it makes a board, or changes the      *)
(* settings of the open one while others change it too. Only what differs from *)
(* the board as the form knows it is sent.                                     *)
EXTENDS Integers, FiniteSets, SequencesExt

CONSTANTS
  Begin,        \* the boards that may be open: the fields of Field and the columns
  People,       \* everybody but the one at the form, a sequence
  Carried,      \* whether somebody who is no member has a task here
  MaxTouches,   \* bound: changes to the fields, and openings
  MaxChanges    \* bound: changes by others

VARIABLES
  row,       \* the board as the daemon has it
  form,      \* the fields; base is the board the form compares with
  view,      \* "form", "confirm" while it asks about going private, or "none"
  asked,     \* the requests under way, answered in order
  wanted,    \* {} or what is sent once the question is answered
  touched,   \* the fields changed by hand
  heard,     \* the fields others changed while the form was open
  touches, changes,
  sent       \* {} or the last request, with touched and heard as they were

boardFormVars == <<row, form, view, asked, wanted, touched, heard, touches, changes, sent>>

Junk == {-1}
Roles == {"started", "paused", "finished"}
\* The delays stand for both; cards are the parts shown on one, due for all but the short id.
Field == Roles \cup {"name", "description", "archive", "cards", "private", "locked"}
Day == 2   \* seconds in a day

DaysText(seconds) == {seconds \div Day}
ParseDays(text) == Day * (CHOOSE d \in text : TRUE)
BadDays(text) == text \in {{}, Junk}

\* Every form writes whole days and no short id, and that is what a board starts with.
Usual == {"due"}
WholeDays == {seconds \in Nat : seconds % Day = 0}
IsBoard(b) ==
  /\ b = [x \in Field \cup {"columns"} |-> b[x]]
  /\ b.archive \in WholeDays /\ "shortId" \notin b.cards
ASSUME BeginAssumption == \A b \in Begin : IsBoard(b)

-----------------------------------------------------------------------------
Blank(mode, base) ==
  [mode |-> mode, base |-> base, name |-> "", description |-> "", lines |-> <<>>,
   started |-> 0, paused |-> 0, finished |-> 0, archive |-> {}, cards |-> Usual,
   private |-> FALSE, locked |-> FALSE, users |-> <<>>, error |-> FALSE, saving |-> FALSE]

\* A new board starts with four columns, and its roles are numbers of their lines.
Create(base) ==
  [Blank("Create", base) EXCEPT !.lines = <<"Todo", "Doing", "Waiting", "Done">>,
     !.started = 2, !.paused = 3, !.finished = 4, !.archive = {1}]

Edit(b) ==
  [Blank("Edit", b) EXCEPT !.name = b.name, !.description = b.description,
     !.started = b.started, !.paused = b.paused, !.finished = b.finished,
     !.archive = DaysText(b.archive), !.cards = b.cards, !.private = b.private, !.locked = b.locked]

Toggled(users, i) == [users EXCEPT ![i].on = ~@]
SetUsers(f) == [f EXCEPT !.users = [i \in DOMAIN People |-> [uid |-> People[i], on |-> FALSE]]]

\* Blank lines do not count.
Kept(lines) == SelectSeq(lines, LAMBDA l : l # "")

ColumnChoices(f) == IF f.mode = "Create" THEN DOMAIN Kept(f.lines) ELSE f.base.columns

\* The fields that take keys and clicks.
Ring(f) == Field \cup IF f.mode = "Create" THEN {"lines"} ELSE {}

Inputs(f, w) ==
  CASE w \in {"private", "locked"} -> {~f[w]}
    [] w \in {"name", "description"} -> {"", "other"}
    [] w \in Roles -> ColumnChoices(f)
    [] w = "archive" -> {{}, Junk, {3}}
    [] w = "cards" -> {{}, Usual}
    [] w = "lines" -> {<<"Todo", "", "Done", "Later">>, <<"Todo", "Todo", "Done">>}

ValidColumns(lines) == lines # <<>> /\ IsInjective(lines)

Invalid(f) ==
  \/ f.name = "" \/ BadDays(f.archive)
  \/ \E r \in Roles : f[r] \notin ColumnChoices(f)
  \/ f.mode = "Create" /\ ~ValidColumns(Kept(f.lines))

\* The fields as the request writes them: the short id has no box, and is never shown.
Value(f, x) ==
  CASE x = "archive" -> ParseDays(f.archive)
    [] x = "cards" -> f.cards \ {"shortId"}
    [] OTHER -> f[x]

\* A form that sends the roles as they are picked (a faulty variant).
DifferentOrRole(f) == Roles \cup {x \in Field : Value(f, x) # f.base[x]}
Different(f) == {x \in Field : Value(f, x) # f.base[x]}
Update(f) == [x \in Different(f) |-> Value(f, x)]

\* What is wrong with the fields, or that there is nothing to send.
Refusal(f) == IF Invalid(f) THEN TRUE ELSE f.mode = "Edit" /\ Different(f) = {}

NewBoard(f) ==
  [columns |-> Kept(f.lines), roles |-> [r \in Roles |-> f[r] - 1], private |-> f.private,
   members |-> IF f.private THEN {u.uid : u \in {v \in ToSet(f.users) : v.on}} ELSE {}]

-----------------------------------------------------------------------------
Typing == view = "form" /\ ~form.saving

Type ==
  /\ Typing /\ touches < MaxTouches
  /\ \/ \E w \in Ring(form) : \E v \in Inputs(form, w) :
          form' = [form EXCEPT ![w] = v] /\ touched' = touched \cup {w}
     \/ /\ form.mode = "Create" /\ form.private
        /\ \E i \in DOMAIN form.users : form' = [form EXCEPT !.users = Toggled(@, i)]
        /\ UNCHANGED touched
  /\ touches' = touches + 1
  /\ UNCHANGED <<row, view, asked, wanted, heard, changes, sent>>

Send(f, request) ==
  /\ form' = [f EXCEPT !.error = FALSE, !.saving = TRUE]
  /\ asked' = Append(asked, request)
  /\ sent' = {[request |-> request, touched |-> touched, heard |-> heard]}

\* F2 and the button. Going private asks first when it makes members of people.
SaveBoard ==
  /\ Typing
  /\ \/ /\ Refusal(form)
        /\ form' = [form EXCEPT !.error = TRUE]
        /\ UNCHANGED <<view, asked, wanted, sent>>
     \/ /\ ~Refusal(form) /\ form.mode = "Create"
        /\ Send(form, [kind |-> "Create", update |-> <<>>, board |-> {NewBoard(form)}])
        /\ UNCHANGED <<view, wanted>>
     \/ /\ ~Refusal(form) /\ form.mode = "Edit"
        /\ LET request == [kind |-> "Update", update |-> Update(form), board |-> {}]
               asks == Carried /\ "private" \in Different(form) /\ form.private
           IN  IF asks
               THEN /\ view' = "confirm"
                    /\ wanted' = {[request |-> request, touched |-> touched, heard |-> heard]}
                    /\ form' = [form EXCEPT !.error = FALSE] /\ UNCHANGED <<asked, sent>>
               ELSE Send(form, request) /\ UNCHANGED <<view, wanted>>
  /\ UNCHANGED <<row, touched, heard, touches, changes>>

\* The question does not keep the form: either answer leaves it.
Confirm ==
  /\ view = "confirm"
  /\ view' = "none" /\ wanted' = {}
  /\ \/ UNCHANGED <<asked, sent>>
     \/ \E w \in wanted : asked' = Append(asked, w.request) /\ sent' = {w}
  /\ UNCHANGED <<row, form, touched, heard, touches, changes>>

Cancel ==
  /\ Typing
  /\ view' = "none"
  /\ UNCHANGED <<row, form, asked, wanted, touched, heard, touches, changes, sent>>

\* Settings again, of the board as it was heard last.
OpenAgain ==
  /\ view = "none" /\ form.mode = "Edit" /\ touches < MaxTouches
  /\ form' = Edit(form.base) /\ view' = "form"
  /\ touched' = {} /\ heard' = {} /\ touches' = touches + 1
  /\ UNCHANGED <<row, asked, wanted, changes, sent>>

-----------------------------------------------------------------------------
\* Somebody else changes a setting or removes a column.
OthersChange ==
  /\ changes < MaxChanges
  /\ \/ \E x \in {"description", "locked", "started"} :
          row' = [row EXCEPT ![x] = CASE x = "locked" -> ~@
                                      [] x = "started" -> CHOOSE c \in row.columns : c # row.started
                                      [] OTHER -> "theirs"]
     \/ \E c \in row.columns \ {row[r] : r \in Roles} : row' = [row EXCEPT !.columns = @ \ {c}]
  /\ changes' = changes + 1
  /\ UNCHANGED <<form, view, asked, wanted, touched, heard, touches, sent>>

\* The board is heard of again: what the form compares with is replaced, what it
\* shows is not. Behind the question there is no form to tell.
Refresh ==
  /\ form.mode = "Edit" /\ form.base # row
  /\ form' = [form EXCEPT !.base = row]
  /\ heard' = IF view = "form" THEN heard \cup {x \in Field : form.base[x] # row[x]} ELSE heard
  /\ UNCHANGED <<row, view, asked, wanted, touched, touches, changes, sent>>

UsersCome ==
  /\ asked # <<>> /\ Head(asked).kind = "Users"
  /\ asked' = Tail(asked)
  /\ form' = IF view = "form" THEN SetUsers(form) ELSE form
  /\ UNCHANGED <<row, view, wanted, touched, heard, touches, changes, sent>>

\* The daemon writes the fields that were sent, or refuses and the form may try again.
BoardAnswered ==
  /\ asked # <<>> /\ Head(asked).kind \in {"Create", "Update"}
  /\ asked' = Tail(asked)
  /\ \/ /\ row' = [x \in DOMAIN row |-> IF x \in DOMAIN Head(asked).update
                                        THEN Head(asked).update[x] ELSE row[x]]
        /\ view' = "none" /\ form' = IF form.mode = "Edit" THEN [form EXCEPT !.base = row'] ELSE form
     \/ /\ form' = IF view = "form" THEN [form EXCEPT !.saving = FALSE, !.error = TRUE] ELSE form
        /\ UNCHANGED <<row, view>>
  /\ UNCHANGED <<wanted, touched, heard, touches, changes, sent>>

BoardFormInit ==
  /\ row \in Begin
  /\ \/ form = Edit(row) /\ asked = <<>>
     \/ form = Create(row) /\ asked = <<[kind |-> "Users", update |-> <<>>, board |-> {}]>>
  /\ view = "form" /\ wanted = {} /\ touched = {} /\ heard = {}
  /\ touches = 0 /\ changes = 0 /\ sent = {}

BoardFormNext ==
  \/ Type \/ SaveBoard \/ Confirm \/ Cancel \/ OpenAgain
  \/ OthersChange \/ Refresh \/ UsersCome \/ BoardAnswered

BoardFormSpec == BoardFormInit /\ [][BoardFormNext]_boardFormVars

-----------------------------------------------------------------------------
\* An update names only what was changed by hand: what others have changed stays,
\* also when the form was opened on a board it has not heard of lately. But a
\* field that others change while the form is open is put back as it was shown,
\* for refresh replaces what is compared and not what is shown.
UpdateNamesTouched ==
  \A s \in sent : DOMAIN s.request.update \subseteq s.touched \cup s.heard
=============================================================================
