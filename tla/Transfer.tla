------------------------------ MODULE Transfer ------------------------------
(***************************************************************************)
(* Boards that travel between two servers as files: export, remap of the   *)
(* people and import of crates/taskologicd/src/transfer.rs.                *)
(*                                                                         *)
(* A board is one record, its own row and the rows that hang off it.  Rows *)
(* are told apart by ids; of a row only what refers to other rows or to    *)
(* people is kept, everything else travels as it is.  A mode runs in one   *)
(* transaction, so each is one step.                                       *)
(***************************************************************************)
EXTENDS Integers, FiniteSets, TLC

CONSTANTS
  Groups,      \* who may be in the target's group: names by uid
  MaxImports,  \* bound on the imports
  Nowhere      \* no row, no id, no file

VARIABLES
  source, target,  \* the boards of two servers
  here, there,     \* their users: from uids to names and is_admin
  group,           \* who is in the unix group of the target's daemon
  parcel,          \* the file
  exported,        \* the file as the export wrote it
  matched,         \* the names the first remap of it went by
  arrived          \* what the imports made

transferVars == <<source, target, here, there, group, parcel, exported, matched, arrived>>

-----------------------------------------------------------------------------
(* Boards of the source: 1 and 2, with columns 1x and 2x and a template, a  *)
(* task and a run of the board's number.  98 was deleted, column 99 too.    *)
Board(b, deps, from, template, runColumn, repeats) ==
  [board     |-> [id |-> b, name |-> b, short |-> b, owner |-> 1, members |-> {1, 2},
                  columns |-> {10 * b + 1, 10 * b + 2}, started |-> 10 * b + 1],
   templates |-> b :> [short |-> b, deps |-> {98}],
   tasks     |-> b :> [short |-> b, column |-> 10 * b + 2, from |-> from, who |-> {2},
                       deps |-> deps, template |-> template],
   repeats   |-> repeats,
   runs      |-> b :> [root |-> b, column |-> runColumn, links |-> {b}, by |-> 2],
   events    |-> {[task |-> b, actor |-> 2, to |-> 10 * b + 2],
                  [task |-> 98, actor |-> 1, to |-> 99]}]

TransferInit ==
  /\ source \in {{Board(1, {2}, Nowhere, 1, 12, {1}), Board(2, {}, Nowhere, 2, 21, {})},
                 {Board(1, {2}, 11, 98, 99, {}), Board(2, {}, Nowhere, 2, 21, {2})},
                 {Board(1, {}, 99, Nowhere, 99, {1}), Board(2, {1}, 22, 2, 22, {2})}}
  /\ target = {}
  /\ here = (1 :> [name |-> "ada", admin |-> TRUE]) @@ (2 :> [name |-> "bob", admin |-> FALSE])
  /\ there = [u \in {} |-> Nowhere]
  /\ group \in Groups
  /\ parcel = Nowhere /\ exported = Nowhere /\ matched = Nowhere /\ arrived = {}

-----------------------------------------------------------------------------
(* People.                                                                 *)

\* Every uid of a board, taken through f: the keys the remap knows.
WithUids(b, f(_)) ==
  [b EXCEPT !.board = [@ EXCEPT !.owner = f(@), !.members = {f(u) : u \in @}],
            !.tasks = [t \in DOMAIN @ |-> [@[t] EXCEPT !.who = {f(u) : u \in @}]],
            !.runs = [r \in DOMAIN @ |-> [@[r] EXCEPT !.by = f(@)]],
            !.events = {[e EXCEPT !.actor = f(@)] : e \in @}]

\* uids_in
UidsIn(boards) ==
  UNION {{b.board.owner} \cup b.board.members \cup UNION {b.tasks[t].who : t \in DOMAIN b.tasks}
           \cup {b.runs[r].by : r \in DOMAIN b.runs} \cup {e.actor : e \in b.events} : b \in boards}

\* people_in: with the account of those who have one.
PeopleIn(uids) ==
  {[uid |-> u, name |-> here[u].name, admin |-> here[u].admin] : u \in uids \cap DOMAIN here}

\* upsert_user: whoever comes first is the admin.
Login ==
  /\ \E u \in DOMAIN group \ DOMAIN there :
       there' = there @@ (u :> [name |-> group[u], admin |-> there = <<>>])
  /\ UNCHANGED <<source, target, here, group, parcel, exported, matched, arrived>>

\* The target's names; the system's word beats a login that is out of date.
Locals == {<<group[u], u>> : u \in DOMAIN group} \cup
          {<<there[u].name, u>> : u \in {u \in DOMAIN there :
                                           \A v \in DOMAIN group : group[v] # there[u].name}}

\* Where remap_users sends uid u of a file that names these people.
RemapTo(people, names, u) ==
  LET found == {l \in names : \E p \in people : p.uid = u /\ p.name = l[1]}
  IN  IF found = {} THEN u ELSE (CHOOSE l \in found : TRUE)[2]

\* Faulty variant: one person after the other, so a uid may be sent on.
RemapUsersInTurn ==
  /\ parcel # Nowhere
  /\ LET One(u) == IF u = 1 THEN RemapTo(parcel.people, Locals, 1) ELSE u
         Two(u) == IF One(u) = 2 THEN RemapTo(parcel.people, Locals, 2) ELSE One(u)
     IN  parcel' = [parcel EXCEPT !.people = {[p EXCEPT !.uid = Two(@)] : p \in @},
                                  !.boards = {WithUids(b, Two) : b \in @}]
  /\ matched' = IF matched = Nowhere THEN Locals ELSE matched
  /\ UNCHANGED <<source, target, here, there, group, exported, arrived>>

\* remap_users: the file's list of people is rewritten as well.
RemapUsers ==
  /\ parcel # Nowhere
  /\ LET To(u) == RemapTo(parcel.people, Locals, u)
     IN  parcel' = [parcel EXCEPT !.people = {[p EXCEPT !.uid = To(@)] : p \in @},
                                  !.boards = {WithUids(b, To) : b \in @}]
  /\ matched' = IF matched = Nowhere THEN Locals ELSE matched
  /\ UNCHANGED <<source, target, here, there, group, exported, arrived>>

\* import_people: nobody on a server without logins, unless it is a whole
\* server that comes; a uid that is here stays who it is.
ImportPeople(whole) ==
  LET TheOne(u) == CHOOSE p \in parcel.people : p.uid = u
      new == {p.uid : p \in parcel.people} \ DOMAIN there
  IN  IF ~ whole /\ there = <<>> THEN there
      ELSE there @@ [u \in new |-> [name |-> TheOne(u).name, admin |-> whole /\ TheOne(u).admin]]

-----------------------------------------------------------------------------
(* Boards.                                                                 *)

\* export_everything: the whole server with everybody, or boards with those
\* they mention.
ExportBoards ==
  /\ \E kind \in {"everything", "board"} :
       \E boards \in IF kind = "board" THEN {{b} : b \in source} \cup {source} ELSE {source} :
         parcel' = [kind |-> kind, boards |-> boards,
                    people |-> PeopleIn(IF kind = "board" THEN UidsIn(boards) ELSE DOMAIN here)]
  /\ exported' = parcel' /\ matched' = Nowhere
  /\ UNCHANGED <<source, target, here, there, group, arrived>>

Tasks(boards) == UNION {DOMAIN b.tasks : b \in boards}
Templates(boards) == UNION {DOMAIN b.templates : b \in boards}
ColumnIds(boards) == UNION {b.board.columns : b \in boards}
BoardShorts(boards) == {b.board.short : b \in boards}
TaskShorts(boards) == UNION {{b.tasks[t].short : t \in DOMAIN b.tasks} : b \in boards}

\* The id a row of the n-th import gets for the one it had; one that the
\* rows taken in so far do not hold is dropped.
Fresh(n, x) == 100 * n + x
New(n, known, x) == IF x \in known THEN Fresh(n, x) ELSE Nowhere
NewSet(n, known, xs) == {Fresh(n, x) : x \in xs \cap known}
Rekeyed(n, f) == [x \in {Fresh(n, y) : y \in DOMAIN f} |-> f[x - 100 * n]]

\* kept_short_id, and the same for tasks: the file's, unless it is taken.
KeptShort(n, taken, short) == IF short \in taken THEN Fresh(n, short) ELSE short

\* import_board_rows
ImportBoardRows(n, b) ==
  [b EXCEPT
     !.board = [@ EXCEPT !.id = Fresh(n, @), !.short = KeptShort(n, BoardShorts(target), @),
                         !.members = @ \cup {b.board.owner},
                         !.columns = NewSet(n, @, @), !.started = Fresh(n, @)],
     !.templates = Rekeyed(n, [t \in DOMAIN @ |->
       [@[t] EXCEPT !.short = KeptShort(n, BoardShorts(target), @),
                    !.deps = NewSet(n, DOMAIN b.templates, @)]]),
     !.tasks = Rekeyed(n, [t \in DOMAIN @ |->
       [@[t] EXCEPT !.short = KeptShort(n, TaskShorts(target), @),
                    !.column = Fresh(n, @),
                    !.from = New(n, b.board.columns, @),
                    !.template = New(n, DOMAIN b.templates, @)]])]

\* Faulty variant: a board's links as soon as its own rows are in.
ImportLinksEarly(n, file, b) ==
  LET known == b.board.columns
      own == {t - 100 * n : t \in DOMAIN b.tasks}
  IN  [b EXCEPT
         !.tasks = [t \in DOMAIN @ |-> [@[t] EXCEPT !.deps = NewSet(n, own, @)]],
         !.repeats = NewSet(n, own, @),
         !.runs = Rekeyed(n, [r \in DOMAIN @ |->
           [@[r] EXCEPT !.root = Fresh(n, @), !.links = NewSet(n, own, @),
                        !.column = IF Fresh(n, @) \in known THEN Fresh(n, @) ELSE b.board.started]]),
         !.events = {[e EXCEPT !.task = New(n, own, @),
                               !.to = IF Fresh(n, @) \in known THEN Fresh(n, @) ELSE @] : e \in @}]

\* import_links, with what the whole file holds; a run whose column is gone
\* gets the started column, and history keeps an id it cannot place.
ImportLinks(n, file, b) ==
  LET known == ColumnIds(file)
  IN  [b EXCEPT
         !.tasks = [t \in DOMAIN @ |-> [@[t] EXCEPT !.deps = NewSet(n, Tasks(file), @)]],
         !.repeats = NewSet(n, Tasks(file), @),
         !.runs = Rekeyed(n, [r \in DOMAIN @ |->
           [@[r] EXCEPT !.root = Fresh(n, @), !.links = NewSet(n, Tasks(file), @),
                        !.column = IF @ \in known THEN Fresh(n, @) ELSE b.board.started]]),
         !.events = {[e EXCEPT !.task = New(n, Tasks(file), @),
                               !.to = IF @ \in known THEN Fresh(n, @) ELSE @] : e \in @}]

\* import_everything: a board whose name is taken refuses the file; so does
\* a short id that is taken, unless new ones are asked for.
ImportBoards ==
  /\ parcel # Nowhere /\ Cardinality(arrived) < MaxImports
  /\ \E whole \in BOOLEAN, clash \in {"refuse", "new"} :
       LET n == Cardinality(arrived) + 1
           boards == {ImportLinks(n, parcel.boards, ImportBoardRows(n, b)) : b \in parcel.boards}
       IN  /\ whole => parcel.kind = "everything"
           /\ \A b \in parcel.boards, other \in target : b.board.name # other.board.name
           /\ clash = "refuse" => BoardShorts(parcel.boards) \cap BoardShorts(target) = {}
           /\ there' = ImportPeople(whole)
           /\ target' = target \cup boards
           /\ arrived' = arrived \cup {[n |-> n, file |-> parcel.boards, boards |-> boards]}
  /\ UNCHANGED <<source, here, group, parcel, exported, matched>>

\* A board of the target is deleted, or gets another name and keeps its ids.
MakeRoom ==
  /\ \E b \in target :
       \/ target' = target \ {b}
       \/ target' = (target \ {b}) \cup {[b EXCEPT !.board = [@ EXCEPT !.name = 0]]}
  /\ UNCHANGED <<source, here, there, group, parcel, exported, matched, arrived>>

TransferNext == Login \/ RemapUsers \/ ExportBoards \/ ImportBoards \/ MakeRoom

-----------------------------------------------------------------------------
\* A row's id before the n-th import.
Back(n, x) == IF x # Nowhere /\ x > 100 * n THEN x - 100 * n ELSE x
BackSet(n, xs) == {Back(n, x) : x \in xs}
BackKeys(n, f) == [x \in BackSet(n, DOMAIN f) |-> f[Fresh(n, x)]]

Returned(n, b) ==
  [board |-> [b.board EXCEPT !.id = Back(n, @), !.short = Back(n, @), !.started = Back(n, @),
                             !.columns = BackSet(n, @)],
   templates |-> BackKeys(n, [t \in DOMAIN b.templates |->
     [b.templates[t] EXCEPT !.short = Back(n, @), !.deps = BackSet(n, @)]]),
   tasks |-> BackKeys(n, [t \in DOMAIN b.tasks |->
     [b.tasks[t] EXCEPT !.short = Back(n, @), !.column = Back(n, @), !.from = Back(n, @),
                        !.deps = BackSet(n, @), !.template = Back(n, @)]]),
   repeats |-> BackSet(n, b.repeats),
   runs |-> BackKeys(n, [r \in DOMAIN b.runs |->
     [b.runs[r] EXCEPT !.root = Back(n, @), !.column = Back(n, @), !.links = BackSet(n, @)]]),
   events |-> {[e EXCEPT !.task = Back(n, @), !.to = Back(n, @)] : e \in b.events}]

\* A file's board without what leads out of the file.
Or(x, known, else) == IF x \in known THEN x ELSE else
Cut(file, b) ==
  [b EXCEPT
     !.templates = [t \in DOMAIN @ |-> [@[t] EXCEPT !.deps = @ \cap Templates(file)]],
     !.tasks = [t \in DOMAIN @ |->
       [@[t] EXCEPT !.deps = @ \cap Tasks(file), !.from = Or(@, b.board.columns, Nowhere),
                    !.template = Or(@, Templates(file), Nowhere)]],
     !.runs = [r \in DOMAIN @ |-> [@[r] EXCEPT !.column = Or(@, b.board.columns, b.board.started)]],
     !.events = {[e EXCEPT !.task = Or(@, Tasks(file), Nowhere)] : e \in @}]

\* "A reference to something the file does not hold is dropped and counted,
\* never guessed": a board that arrives is the board that was in the file,
\* with every id exchanged the same way wherever it stands, from one board
\* of the file to another too, and nothing else lost.
ArrivesWhole ==
  \A a \in arrived :
    {Returned(a.n, b) : b \in a.boards} =
      {[Cut(a.file, b) EXCEPT !.board = [@ EXCEPT !.members = @ \cup {b.board.owner}]] : b \in a.file}

\* Running the remap again changes nothing, and every uid of a person whose
\* name is known here has become theirs, whoever had that uid there: two
\* people may exchange their uids.  (As long as nobody has come since.)
RemapFindsPeople ==
  matched # Nowhere /\ matched = Locals =>
    LET To(u) == RemapTo(exported.people, matched, u)
    IN  parcel.boards = {WithUids(b, To) : b \in exported.boards}

=============================================================================
