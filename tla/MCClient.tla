------------------------------ MODULE MCClient ------------------------------
(* The machines of the terminal client for TLC, side by side: a behaviour      *)
(* takes the steps of one of them, the others stay where they start. Control   *)
(* codes come twice: every command with few scans, and two commands with more. *)
EXTENDS ClientControl, ClientScreens, ClientBoard

CONSTANTS
  t1, t2, b1, b2,
  PlaceSet, Mine, Busy, MaxId, MaxStrokes, MaxOthers,
  PrefixChoice, FrameTimeouts, Timeout, SystemCodes, PieceLen, Typable, MaxTyped, MaxCodes, OnPaper,
  KeysAsked, TextsAsked, Amounts, Counts, MaxPrints

VARIABLES
  kind, manages, lists, stamp, place, panel, queries, news, incoming, strokes, others,
  missed, touched, strayed,
  prefs, paper, detector, scanned, got, owed, typed, codes,
  menu, sticky, onSelected, prints,
  lane         \* which machine takes the steps

\* Two rows of each kind on one board, none on the other.
MCRows == [k \in {"Archive", "Repeats", "Members", "Templates", "Programs", "Runs", "Columns", "Users"} |->
             [b \in PlaceSet |-> IF b = b1 THEN <<[id |-> 1, flag |-> FALSE], [id |-> 2, flag |-> FALSE]>> ELSE <<>>]]

Lists == INSTANCE ClientPanels WITH
  Place <- PlaceSet, Rows <- MCRows, table <- lists, window <- panel, asked <- queries, wire <- incoming

Scanner == INSTANCE ScanDetector WITH scans <- codes, MaxScans <- MaxCodes
Menu == INSTANCE CodesPanel WITH panel <- menu

panelVars == <<kind, manages, lists, stamp, place, panel, queries, news, incoming, strokes, others,
               missed, touched, strayed>>
scanVars == <<prefs, detector, scanned, got, owed, typed, codes>>
menuVars == <<menu, sticky, onSelected, prints>>
machines == <<vars, boardVars, screens, panelVars, lane>>
all == <<machines, scanVars, menuVars, paper>>

\* Two tasks on a board of their own each.
MCBoardOf == [t \in Task |-> IF t = t2 THEN b2 ELSE b1]

\* Cards one below the other, the later ones due first.
MCStart == [t \in Card |-> <<1, 10 * t>>]
MCDue == [t \in Card |-> Cardinality(Card) - t]
MCPositions == -3..40

\* What is on paper before anybody prints: one command, a text with the signs
\* of the format in it, a code in two pieces, and one that nobody can carry.
MCCodes == {[action |-> "S", id |-> <<"K", "4">>], [action |-> "1", id |-> <<"0", "Z">>]}
MCOnPaper ==
  {<<<<"M", "L">>>>, <<<<"I">>, <<"V", ".", "a", "-", "/">>>>, <<<<"M", "L">>, <<"S", "T", "K">>>>,
   <<<<"I">>, <<"V", ".", "a">>, <<"S">>>>}
MCTypable == {".", "-", "1", "#", "Enter", "Backspace"}
MCPrefixes == {<<>>, <<"#">>}
MCText == {<<"a">>}
MCThree == {<<"3">>}

MCInit ==
  /\ Init /\ BoardInit /\ ScreensInit /\ Lists!PanelsInit
  /\ \/ lane = "codes" /\ open \in {None, b1}
     \/ lane = "walk" /\ open = b1
     \/ lane \in {"board", "windows", "coded", "panels", "scan", "menu"} /\ open = None
  /\ lane # "panels" => kind = "Runs" /\ manages
  /\ place.id = b1
  /\ Scanner!ScanInit /\ Menu!PanelNew
  /\ paper = IF lane = "scan" THEN OnPaper ELSE {}
  /\ lane # "scan" => prefs = [prefix |-> <<>>, pressesEnter |-> TRUE, frameTimeout |-> 0]

Codes == lane = "codes" /\ Next /\ scans' < MaxScans
\* Edits and moves of one task, to walk back through.
Walk ==
  /\ lane = "walk" /\ Next
  /\ armed' # None => armed'.command \in {"ToggleAssign", "MoveRight"}
  /\ waiting' = None /\ overlay' = None
  /\ \A i \in DOMAIN requests' : requests'[i].op # "Lookup" /\ requests'[i].task \in {t1, None}
  /\ row'[t2] = row[t2]

\* At most two requests under way, and changes by others only to a board.
Panels ==
  /\ lane = "panels" /\ Lists!PanelsNext /\ Len(queries') <= 2
  /\ others' > others => lists'[b1] # lists[b1]
  /\ UNCHANGED <<vars, boardVars, screens, lane>>

\* Windows and keys; and, with a key less and fewer windows, codes among them.
Keyed ==
  /\ lane = "windows" /\ ScreensNext
  /\ \A i \in DOMAIN asked' : asked'[i].code = Absent
Coded ==
  /\ lane = "coded" /\ ScreensNext /\ presses' < MaxPresses
  /\ window' # window /\ window' # Absent => window'.kind \notin {"NewBoardForm", "Menu", "Runs", "Repeats", "Members"}

Screens ==
  \/ (Codes \/ Walk) /\ UNCHANGED <<boardVars, screens, panelVars, lane>>
  \/ lane = "board" /\ BoardNext /\ UNCHANGED <<vars, screens, panelVars, lane>>
  \/ (Keyed \/ Coded) /\ UNCHANGED <<vars, boardVars, panelVars, lane>>
  \/ Panels

\* Keys and scans: a key and a scan, or three keys; a misread code comes alone.
Misread == IF scanned' = None THEN FALSE ELSE scanned'.misread
KeysAndScans ==
  /\ lane = "scan" /\ Scanner!ScanNext
  /\ scanned' # None => typed' + 1 < MaxTyped
  /\ Misread => typed' = 0 /\ detector'.age \in {0, None}
  /\ UNCHANGED <<machines, menuVars>>

\* A code is printed from the panel, then it is scanned.
PrintAndScan ==
  /\ lane = "menu"
  /\ \/ paper = {} /\ Menu!PanelNext /\ UNCHANGED scanVars
     \/ (Scanner!ScanControl \/ Scanner!ScanKey) /\ UNCHANGED menuVars
  /\ UNCHANGED machines

MCNext ==
  \/ Screens /\ UNCHANGED <<scanVars, menuVars, paper>>
  \/ KeysAndScans
  \/ PrintAndScan

MCSpec == MCInit /\ [][MCNext]_all

\* A panel holds what the daemon holds once everything has arrived (ClientPanels).
PanelCatchesUp == Lists!PanelCatchesUp

\* A code scanned in time is what the paper says (ScanDetector), and so is one
\* that was printed from the panel (CodesPanel).
CodeArrives == lane \in {"scan", "menu"} => Scanner!CodeArrives

\* What was typed and is no code reaches the application in its order (ScanDetector).
TypedIsHandedBack == lane = "scan" => Scanner!TypedIsHandedBack
=============================================================================
