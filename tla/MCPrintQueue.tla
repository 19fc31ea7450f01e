---------------------------- MODULE MCPrintQueue ----------------------------
(* Small instances of PrintQueue: the second connection has the better     *)
(* printer, or both are alike; and every client lives to be welcomed.      *)
EXTENDS PrintQueue

SecondIsBetter == [c \in Conn |-> c]
Alike == [c \in Conn |-> 1]

\* One of the clients stays.
Welcomed ==
  /\ \A c \in Conn : conn[c] = "hello" => c \in alive'
  /\ \E c \in Conn : conn'[c] = "new" \/ c \in alive'
WelcomedSpec == Init /\ [][Next /\ Welcomed]_vars /\ Fairness
=============================================================================
