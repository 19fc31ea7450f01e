----------------------------- MODULE CodesPanel -----------------------------
(* The panel that prints control codes: entries by category, some of which   *)
(* ask for something first, a value combined with a command, and two ticks   *)
(* that add to every code that is armed. A command is written as in a frame, *)
(* character by character. The list may be moved to any row before Enter;    *)
(* an answer that is refused changes nothing.                                *)
EXTENDS Sequences, Naturals

CONSTANTS
  KeysAsked, TextsAsked, Amounts, Counts,  \* what is typed as an answer
  MaxPrints,
  None

VARIABLES
  panel,     \* its view, the code so far and what is asked
  sticky, onSelected,
  paper,     \* the codes printed, each a list of commands
  prints

-----------------------------------------------------------------------------
\* What may be typed.
OneText == {<<"a">>}
One == {<<"3">>}

\* The menu.

Digits == {"1", "2", "3", "4", "5", "6", "7", "8", "9"}
ColumnCodes == {"T", "P", "D", "F", "L"} \cup Digits
Units == {<<>>, <<"H">>, <<"D">>, <<"W">>, <<"M", "O">>, <<"Y">>}

Stick == <<"S", "T", "K">>
Selected == <<"S", "E", "L">>
MoveTo == <<"M", "C">>
SetField(f) == <<"S">> \o f
Now == <<"N">>
Today == <<"T", "D">>
Time == <<"T", "M">>
Me == <<"M", "E">>
Clear == <<"X">>
Split == <<"U">>

\* An entry: its commands, what it asks for, whether it stays armed, and the
\* signs of the offsets it asks for.
Asking(commands, asks) ==
  [commands |-> commands, asks |-> asks, sticky |-> FALSE, minus |-> FALSE, then |-> None]
Plain(commands) == Asking(commands, "nothing")
Armed(entry) == [entry EXCEPT !.sticky = TRUE]
Offsets(commands) == {[Asking(commands, "offset") EXCEPT !.minus = m] : m \in BOOLEAN}
OffsetPairs(commands) ==
  {[Asking(commands, "offset") EXCEPT !.minus = m, !.then = t] : m \in BOOLEAN, t \in BOOLEAN}

NextScan ==
  LET moves == {<<"M", x>> : x \in {"L", "R", "U", "D", "T", "B"}}
                 \cup {Append(MoveTo, x) : x \in {"T", "P", "D", "F"}}
      slips == {<<"P", x>> : x \in {"R", "F", "P", "C"}}
      people == {<<"A", x>> : x \in {"M", "U", "T"}}
      fields == {SetField(f) : f \in {<<x>> : x \in {"T", "D", "S", "U", "B", "A", "C", "X"}}
                                       \cup {<<"R", x>> : x \in {"S", "U"}}}
      others == {<<"D", "E", "L">>, <<"S", "H">>, <<"E", "D">>}
  IN  {Armed(Plain(<<c>>)) : c \in moves \cup slips \cup people \cup fields \cup others}
        \cup {Armed(Asking(<<MoveTo>>, "column")), Plain(<<Selected>>)}

Navigation ==
  LET boards == {<<"G", x>> : x \in {"D", "N", "P"}}
      keys == {<<"X", x>> : x \in {"U", "D", "L", "R", "E", "N", "T", "B"}}
                \cup {<<"X", "F", d>> : d \in Digits} \cup {<<"X", "F", "1", d>> : d \in {"0", "1", "2"}}
  IN  {Plain(<<c>>) : c \in boards \cup keys \cup {<<"P", "I", "N", "G">>, <<"U", "N", "D", "O">>}}
        \cup {Asking(<<<<"X", x>>>>, "count") : x \in {"T", "B"}}
        \cup {Asking(<<q>>, "text") : q \in {<<"Q">>, <<"Q", "A">>}} \cup {Asking(<<>>, "key")}

DataEntry ==
  {Plain(<<<<"I">>, v>>) : v \in {Now, Today, Time, Me}} \cup {Plain(<<<<"R">>, v>>) : v \in {Now, Today, Me}}
    \cup {Asking(<<<<x>>>>, "text") : x \in {"I", "R"}}

Values ==
  {Plain(<<v>>) : v \in {Now, Today, Time, Me, Clear, Split}}
    \cup Offsets(<<>>) \cup {Asking(<<>>, "text")}

Dates ==
  {Armed(e) : e \in
     UNION {{Plain(<<SetField(<<f>>), v>>) : v \in {Now, Today, Clear}} \cup Offsets(<<SetField(<<f>>)>>) : f \in {"S", "U", "B"}}
       \cup OffsetPairs(<<SetField(<<"B">>)>>)}

Entries ==
  [NextScan |-> NextScan, Navigation |-> Navigation, DataEntry |-> DataEntry, Values |-> Values, Dates |-> Dates]

-----------------------------------------------------------------------------
View(view, from, entry) == [view |-> view, from |-> from, entry |-> entry]
Categories == View("categories", None, None)
InEntries(from) == View("entries", from, None)

PanelNew == panel = Categories /\ sticky = FALSE /\ onSelected = FALSE /\ prints = 0
PanelInit == PanelNew /\ paper = {}

\* print_one: the ticks add to a code that stays armed.
PrintOne(commands, armed) ==
  commands \o (IF armed /\ sticky THEN <<Stick>> ELSE <<>>)
           \o (IF armed /\ onSelected THEN <<Selected>> ELSE <<>>)

OnSlip(codes) ==
  /\ prints < MaxPrints /\ prints' = prints + 1
  /\ paper' = paper \cup codes
  /\ UNCHANGED <<sticky, onSelected>>

ticks == <<sticky, onSelected, paper, prints>>

OpenCategory ==
  /\ panel.view = "categories"
  /\ \E c \in DOMAIN Entries : panel' = InEntries(c)
  /\ UNCHANGED ticks

\* choose_entry: print it, or ask first.
ChooseEntry ==
  /\ panel.view = "entries"
  /\ \E e \in Entries[panel.from] :
       IF e.asks = "nothing"
       THEN OnSlip({PrintOne(e.commands, e.sticky)}) /\ UNCHANGED panel
       ELSE panel' = View("ask", panel.from, e) /\ UNCHANGED ticks

\* Only a finished code takes a value.
Combine ==
  /\ panel.view = "entries"
  /\ \E e \in Entries[panel.from] :
       e.asks = "nothing" /\ e.commands # <<>> /\ panel' = View("combine", panel.from, e)
  /\ UNCHANGED ticks

\* open_selected while combining: the value, or its question. What was
\* combined with stays armed or not.
PickValue ==
  /\ panel.view = "combine"
  /\ \E v \in Values :
       LET e == [v EXCEPT !.commands = panel.entry.commands \o v.commands, !.sticky = panel.entry.sticky]
       IN  IF v.asks = "nothing"
           THEN OnSlip({PrintOne(e.commands, e.sticky)}) /\ panel' = InEntries(panel.from)
           ELSE panel' = View("ask", panel.from, e) /\ UNCHANGED ticks

\* finish_ask: what the code becomes with the answer.
Finished(e) ==
  LET front == SubSeq(e.commands, 1, Len(e.commands) - 1)
  IN  CASE e.asks = "key" -> {Append(e.commands, <<"K", c>>) : c \in KeysAsked}
        [] e.asks = "text" -> {Append(e.commands, <<"V", ".">> \o t) : t \in TextsAsked}
        [] e.asks = "offset" ->
             {Append(e.commands, <<IF e.minus THEN "M" ELSE "P">> \o n \o u) : n \in Amounts, u \in Units}
        [] e.asks = "column" -> {Append(front, Append(MoveTo, c)) : c \in ColumnCodes}
        [] e.asks = "count" -> {Append(front, e.commands[Len(e.commands)] \o n) : n \in Counts}

\* The first of two offsets asks for the second.
FinishAsk ==
  /\ panel.view = "ask"
  /\ \E commands \in Finished(panel.entry) :
       IF panel.entry.then # None
       THEN /\ panel' = [panel EXCEPT !.entry = [@ EXCEPT !.commands = Append(commands, Split),
                                                          !.minus = panel.entry.then, !.then = None]]
            /\ UNCHANGED ticks
       ELSE OnSlip({PrintOne(commands, panel.entry.sticky)}) /\ panel' = InEntries(panel.from)

\* Everything in the category that asks for nothing, on one slip.
PrintAll ==
  /\ panel.view = "entries"
  /\ OnSlip({PrintOne(e.commands, e.sticky) : e \in {e \in Entries[panel.from] : e.asks = "nothing"}})
  /\ UNCHANGED panel

Tick ==
  /\ panel.view = "entries"
  /\ \/ sticky' = ~sticky /\ UNCHANGED onSelected
     \/ onSelected' = ~onSelected /\ UNCHANGED sticky
  /\ UNCHANGED <<panel, paper, prints>>

Back ==
  /\ panel' = IF panel.view = "entries" THEN Categories ELSE InEntries(panel.from)
  /\ panel.view # "categories"
  /\ UNCHANGED ticks

\* The panel is closed; opened again it is a new one.
Cancel ==
  /\ panel' = Categories /\ sticky' = FALSE /\ onSelected' = FALSE
  /\ UNCHANGED <<paper, prints>>

PanelNext ==
  OpenCategory \/ ChooseEntry \/ Combine \/ PickValue \/ FinishAsk \/ PrintAll \/ Tick \/ Back \/ Cancel

CodesSpec == PanelInit /\ [][PanelNext]_<<panel, sticky, onSelected, paper, prints>>

-----------------------------------------------------------------------------
\* control.rs: "Free text follows `V.` and is always the last thing in the
\* frame". Whatever is printed from the panel, nothing follows a text.
TextIsLast ==
  \A code \in paper : \A i \in DOMAIN code : code[i][1] = "V" => i = Len(code)
=============================================================================
