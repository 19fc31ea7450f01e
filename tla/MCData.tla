------------------------------- MODULE MCData -------------------------------
(* The machines about graphs, files of rows and who may see a board, for TLC,  *)
(* side by side: a behaviour takes the steps of one of them, the others stay   *)
(* where they start. Templates come twice: stamped out on one board with       *)
(* leads, and carried between two boards without. The calendar of a repetition *)
(* needs no company.                                                           *)
EXTENDS Integers, DepsSearch, Access, TLC

CONSTANTS
  MaxTemplate, TemplateName, Lead, MaxDeps,
  Groups, MaxImports, None

VARIABLES
  template, nextTemplate, file, overwritten, made,
  source, target, here, there, group, parcel, exported, matched, arrived,
  rule, at, after,
  lane         \* which machine takes the steps

Stencils == INSTANCE Templates WITH Nothing <- None
Servers == INSTANCE Transfer WITH Nowhere <- None

\* Half a year from a January, days of eight steps: summer time begins and ends
\* in the second month. A count of no days (which is refused), of one and of
\* more than a month; days that not every month has.
MCRules ==
  {[kind |-> "EveryDays", every |-> e, from |-> f] : <<e, f>> \in {<<0, 3>>, <<1, 30>>, <<40, 3>>}}
    \cup [kind : {"Weekdays"}, days : {{}, {0}, {1, 6}}]
    \cup [kind : {"FixedDate"}, date : {40, 57}]
    \cup [kind : {"DayOfMonth"}, day : {0, 1, 29, 31}]
Calendar == INSTANCE RepeatRule WITH
  MonthStart <- <<0, 31, 59, 90, 120, 151>>, DayLength <- 8, Begins <- 322, Ends <- 458,
  Rules <- MCRules, Times <- {1, 2, 3, 4}, FirstDay <- 0, LastDay <- 70

\* Every way to change who sees a board; the one person with a task may lose it.
AccessChange(field, value) ==
  [[op |-> "update", private |-> Nil, lock |-> Nil, settings |-> FALSE] EXCEPT ![field] = value]
MCRequests ==
  {AccessChange("private", TRUE), AccessChange("private", FALSE), AccessChange("lock", TRUE),
   [op |-> "delete"], [op |-> "assign", to |-> {2}],
   [op |-> "remove", uid |-> 2, unassign |-> TRUE]}
    \cup [op : {"add"}, uid : {2, 3}] \cup [op : {"remove"}, uid : {2, 3}, unassign : {FALSE}]

templateVars == <<template, nextTemplate, file, overwritten, made>>
transferVars == <<source, target, here, there, group, parcel, exported, matched, arrived>>
ruleVars == <<rule, at, after>>
all == <<vars, templateVars, transferVars, ruleVars, accessVars, lane>>

\* Who is in the group of the second server: nobody, both with their uids
\* exchanged, one under a uid of their own.
MCGroups == {<<>>, (1 :> "bob") @@ (2 :> "ada"), (1 :> "ada") @@ (3 :> "bob")}

DataInit ==
  /\ lane \in {"search", "stamp", "files", "transfer", "calendar", "access"}
  /\ Init /\ Stencils!TemplatesInit /\ Servers!TransferInit
  /\ lane # "search" => proposed = {} /\ deps_of = [n \in Node |-> {}] /\ task = CHOOSE n \in Node : TRUE
  /\ lane # "transfer" => group = <<>> /\ \E b \in source : b.repeats = {1} /\ b.runs[1].column = 12
  /\ IF lane = "calendar" THEN Calendar!RuleInit
     ELSE rule = [kind |-> "FixedDate", date |-> 40] /\ at = 1 /\ after = 0
  /\ IF lane = "access" THEN AccessInit /\ me # Owner /\ live = {2}
     ELSE /\ board = Nil /\ live = {} /\ req = [s \in Person |-> Nil] /\ me = Owner
          /\ bus = <<>> /\ onTheWay = <<>> /\ wanted = <<>>
          /\ listed = FALSE /\ displayed = FALSE /\ turns = 0 /\ crossed = FALSE

Search == lane = "search" /\ Next /\ UNCHANGED <<templateVars, transferVars, ruleVars, accessVars, lane>>
Stamp ==
  /\ lane = "stamp" /\ made = None
  /\ Stencils!CreateTemplate \/ Stencils!CreateFromTemplate
  /\ \A t \in 1..MaxTemplate :
       template'[t] # None => template'[t].name = "a" /\ template'[t].board = 1
  /\ UNCHANGED <<vars, transferVars, ruleVars, accessVars, lane>>
Files ==
  /\ lane = "files" /\ Stencils!TemplatesNext
  /\ nextTemplate' <= MaxTemplate
  /\ \A t \in 1..MaxTemplate : template'[t] # None => template'[t].lead = None
  /\ template'[1] # None => template'[1].board = 1
  /\ overwritten => template' = template
  /\ UNCHANGED <<vars, transferVars, ruleVars, accessVars, lane>>
Carry ==
  /\ lane = "transfer" /\ Servers!TransferNext
  /\ arrived # {} /\ parcel' # parcel => parcel'.kind = "board"
  /\ UNCHANGED <<vars, templateVars, ruleVars, accessVars, lane>>
Turn ==
  /\ lane = "calendar" /\ Calendar!MovesOn
  /\ UNCHANGED <<vars, templateVars, transferVars, accessVars, lane>>
\* The owner and an admin manage the board at the same time.
Manage == lane = "access" /\ AccessNext /\ UNCHANGED <<vars, templateVars, transferVars, ruleVars, lane>>

DataNext == Search \/ Stamp \/ Files \/ Carry \/ Turn \/ Manage

DataSpec == DataInit /\ [][DataNext]_all

\* Saves, deletions and imports close no cycle among templates (Templates).
TemplatesStayDag == Stencils!TemplatesStayDag

\* Stamping out makes what is needed, in order and dated right (Templates).
StampedRight == Stencils!StampedRight

\* A board that arrives is the one that was in the file (Transfer).
ArrivesWhole == Servers!ArrivesWhole

\* A remap finds everybody whose name is known (Transfer).
RemapFindsPeople == Servers!RemapFindsPeople

\* A repetition fires next where its rule says (RepeatRule).
NextIsNext == lane = "calendar" => Calendar!NextIsNext

=============================================================================
