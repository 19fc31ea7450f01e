-------------------------- MODULE DepsSearch_proofs -------------------------
(***************************************************************************)
(* The search decides what Deps says, for every graph of every size.       *)
(***************************************************************************)
EXTENDS DepsSearch, DepsTheorems

(* The graph the search walks, task's own list left out: it never follows  *)
(* that list, because it stops at task.                                    *)
Base == Cleared(deps_of, task)

(* The inductive invariant.  What was accepted closes no cycle; while a    *)
(* dependency is tried, everything seen or stacked is reachable from it,   *)
(* task has not been seen, and what a seen node leads to is seen or on     *)
(* the stack.  When the stack is empty, seen is therefore a closed set     *)
(* with the dependency in it and task outside: the witness that task       *)
(* cannot be reached.                                                      *)
Accepted == proposed \ (left \cup new_dep)

Verdicts ==
  /\ \A dep \in Accepted : ~ CreatesCycle(Base, task, dep)
  /\ answer = {} => left = {} /\ new_dep = {}
  /\ answer # Searching => \A dep \in answer : CreatesCycle(Base, task, dep)

Frontier ==
  /\ new_dep \subseteq seen \cup stack
  /\ new_dep = {} => stack = {}
  /\ \A dep \in new_dep : \A x \in seen \cup stack : Reaches(Base, dep, x)
  /\ task \notin seen
  /\ \A x \in seen : Base[x] \subseteq seen \cup stack
  /\ \A x \in Node \ {task} : graph[x] = Base[x]

SearchInv == TypeOK /\ Verdicts /\ (answer = Searching => Frontier)

LEMMA ReachesSelf ==
  ASSUME NEW g, NEW x PROVE Reaches(g, x, x)
BY DEF Reaches

LEMMA ReachesStep ==
  ASSUME NEW N, NEW g \in [N -> SUBSET N], NEW d \in N, NEW x \in N, NEW y \in g[x],
         Reaches(g, d, x)
  PROVE  Reaches(g, d, y)
BY DEF Reaches, Closed

LEMMA BaseType ==
  ASSUME TypeOK
  PROVE  Base \in [Node -> SUBSET Node]
BY DEF TypeOK, Base, Cleared

LEMMA SearchInit == Init => SearchInv
<1> SUFFICES ASSUME Init PROVE SearchInv
  OBVIOUS
<1>1. TypeOK
  BY DEF Init, TypeOK, Cleared
<1>2. Verdicts
  <2>1. Searching # {}
    BY SearchingIsNoAnswer
  <2> QED
    BY <2>1 DEF Init, Verdicts, Accepted
<1>3. Frontier
  BY DEF Init, Frontier, Base
<1> QED
  BY <1>1, <1>2, <1>3 DEF SearchInv

LEMMA SearchStep == SearchInv /\ [Next]_vars => SearchInv'
<1> SUFFICES ASSUME SearchInv, [Next]_vars PROVE SearchInv'
  OBVIOUS
<1> USE SearchingIsNoAnswer
<1>b. Base \in [Node -> SUBSET Node]
  BY BaseType DEF SearchInv
<1>0. Next \/ UNCHANGED vars => Base' = Base
  BY DEF Base, Next, Try, Found, Follow, Accept, Finish, vars, Cleared
<1>1. ASSUME Try PROVE SearchInv'
  <2>1. PICK dep \in left :
          /\ left' = left \ {dep} /\ new_dep' = {dep} /\ seen' = {} /\ stack' = {dep}
          /\ answer' = IF dep = task THEN {dep} ELSE Searching
    BY <1>1 DEF Try
  <2>2. /\ Base' = Base /\ new_dep = {} /\ answer = Searching
        /\ UNCHANGED <<deps_of, task, proposed, graph>>
    BY <1>1, <1>0 DEF Try, Next
  <2>3. TypeOK'
    BY <2>1, <2>2 DEF SearchInv, TypeOK
  <2>4. Accepted' = Accepted
    BY <2>1, <2>2 DEF Accepted, SearchInv, TypeOK
  <2>5. Verdicts'
    <3>1. dep = task => CreatesCycle(Base, task, dep)
      BY DEF CreatesCycle
    <3>2. answer' # {}
      BY <2>1
    <3> QED
      BY <2>1, <2>2, <2>4, <3>1, <3>2 DEF SearchInv, Verdicts
  <2>6. Frontier'
    <3>1. Reaches(Base, dep, dep)
      BY ReachesSelf
    <3> QED
      BY <2>1, <2>2, <3>1 DEF SearchInv, Frontier
  <2> QED
    BY <2>3, <2>5, <2>6 DEF SearchInv
<1>2. ASSUME Follow PROVE SearchInv'
  <2>1. PICK t \in stack \ {task} :
          /\ seen' = seen \cup {t}
          /\ stack' = (stack \ {t}) \cup (IF t \in seen THEN {} ELSE graph[t])
    BY <1>2 DEF Follow
  <2>2. /\ Base' = Base /\ answer = Searching
        /\ UNCHANGED <<deps_of, task, proposed, graph, left, new_dep, answer>>
    BY <1>2, <1>0 DEF Follow, Next
  <2>3. t \in Node /\ graph[t] = Base[t] /\ Base[t] \subseteq Node /\ new_dep \subseteq Node
    BY <1>b, <2>2 DEF SearchInv, TypeOK, Frontier
  <2>4. TypeOK'
    BY <2>1, <2>2, <2>3 DEF SearchInv, TypeOK
  <2>5. Verdicts'
    BY <2>2 DEF SearchInv, Verdicts, Accepted
  <2>6. Frontier'
    <3>1. \A dep \in new_dep : Reaches(Base, dep, t)
      BY <2>2 DEF SearchInv, Frontier
    <3>2. \A dep \in new_dep : \A y \in Base[t] : Reaches(Base, dep, y)
      BY <1>b, <2>3, <3>1, ReachesStep
    <3>3. seen' \cup stack' = seen \cup stack \cup (IF t \in seen THEN {} ELSE Base[t])
      BY <2>1, <2>3
    <3>4. \A dep \in new_dep : \A x \in seen' \cup stack' : Reaches(Base, dep, x)
      BY <2>2, <3>2, <3>3 DEF SearchInv, Frontier
    <3>5. \A x \in seen' : Base[x] \subseteq seen' \cup stack'
      BY <2>1, <2>2, <2>3, <3>3 DEF SearchInv, Frontier
    <3>6. task \notin seen' /\ new_dep # {}
      BY <2>1, <2>2 DEF SearchInv, Frontier
    <3> QED
      BY <2>2, <3>3, <3>4, <3>5, <3>6 DEF SearchInv, Frontier
  <2> QED
    BY <2>4, <2>5, <2>6 DEF SearchInv
<1>6. ASSUME Found PROVE SearchInv'
  <2>1. /\ Base' = Base /\ answer = Searching /\ task \in stack
        /\ answer' = new_dep /\ stack' = stack \ {task}
        /\ UNCHANGED <<deps_of, task, proposed, graph, left, new_dep, seen>>
    BY <1>6, <1>0 DEF Found, Next
  <2>2. TypeOK' /\ new_dep # {} /\ new_dep \subseteq Node
    BY <2>1 DEF SearchInv, TypeOK, Frontier
  <2>3. \A dep \in new_dep : CreatesCycle(Base, task, dep)
    BY <2>1 DEF SearchInv, Frontier, CreatesCycle
  <2>4. Verdicts'
    BY <2>1, <2>2, <2>3 DEF SearchInv, Verdicts, Accepted
  <2>5. answer' # Searching
    BY <2>1, <2>2
  <2> QED
    BY <2>2, <2>4, <2>5 DEF SearchInv
<1>3. ASSUME Accept PROVE SearchInv'
  <2>1. /\ Base' = Base /\ answer = Searching /\ new_dep # {} /\ stack = {}
        /\ graph' = [graph EXCEPT ![task] = @ \cup new_dep]
        /\ new_dep' = {} /\ seen' = {}
        /\ UNCHANGED <<deps_of, task, proposed, left, stack, answer>>
    BY <1>3, <1>0 DEF Accept, Next
  <2>2. TypeOK'
    BY <2>1 DEF SearchInv, TypeOK
  \* seen is closed, holds the dependency and not task.
  <2>3. \A dep \in new_dep : ~ CreatesCycle(Base, task, dep)
    <3>1. /\ seen \in SUBSET Node /\ new_dep \subseteq seen /\ task \notin seen
      BY <2>1 DEF SearchInv, TypeOK, Frontier
    <3>2. Closed(Base, seen)
      BY <2>1, <3>1 DEF SearchInv, Frontier, Closed
    <3> QED
      BY <1>b, <3>1, <3>2 DEF CreatesCycle, Reaches
  <2>4. \A dep \in Accepted' : dep \in Accepted \/ dep \in new_dep
    BY <2>1 DEF Accepted
  <2>5. Verdicts'
    BY <2>1, <2>3, <2>4 DEF SearchInv, Verdicts
  <2>6. Frontier'
    BY <2>1 DEF SearchInv, Frontier, TypeOK
  <2> QED
    BY <2>2, <2>5, <2>6 DEF SearchInv
<1>4. ASSUME Finish PROVE SearchInv'
  <2>1. /\ Base' = Base /\ answer' = {} /\ left = {} /\ new_dep = {}
        /\ UNCHANGED <<deps_of, task, proposed, graph, left, new_dep, seen, stack>>
    BY <1>4, <1>0 DEF Finish, Next
  <2>2. TypeOK' /\ Accepted' = Accepted
    BY <2>1 DEF SearchInv, TypeOK, Accepted
  <2>3. Verdicts'
    BY <2>1, <2>2 DEF SearchInv, Verdicts
  <2> QED
    BY <2>1, <2>2, <2>3 DEF SearchInv
<1>5. CASE UNCHANGED vars
  BY <1>5, <1>0 DEF vars, SearchInv, TypeOK, Verdicts, Accepted, Frontier
<1> QED
  BY <1>1, <1>2, <1>3, <1>4, <1>5, <1>6 DEF Next

(* The answer of the loop is the answer Deps defines: no offender exactly  *)
(* when no proposed dependency closes a cycle.                             *)
THEOREM SearchCorrect == Spec => []SearchDecides
<1>1. SearchInv => SearchDecides
  BY DEF SearchInv, Verdicts, Accepted, SearchDecides, NoFirstCycle, Base
<1> QED
  BY <1>1, SearchInit, SearchStep, PTL DEF Spec

(* An edit the search lets through leaves a DAG a DAG.                     *)
THEOREM AcceptedCorrect == Spec => []AcceptedKeepsDag
<1>1. SearchInv => AcceptedKeepsDag
  <2> SUFFICES ASSUME SearchInv, answer = {}, Acyclic(deps_of)
               PROVE  Acyclic(Replaced(deps_of, task, proposed))
    BY DEF AcceptedKeepsDag
  <2>1. NoFirstCycle(deps_of, task, proposed)
    BY DEF SearchInv, Verdicts, Accepted, NoFirstCycle, Base
  <2> QED
    BY <2>1, NoFirstCycleAcyclic DEF SearchInv, TypeOK
<1> QED
  BY <1>1, SearchInit, SearchStep, PTL DEF Spec
=============================================================================
