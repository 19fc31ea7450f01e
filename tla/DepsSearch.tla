----------------------------- MODULE DepsSearch -----------------------------
(***************************************************************************)
(* The search behind the dependency rules, as its loop runs: first_cycle   *)
(* and creates_cycle of crates/taskologic-core/src/deps.rs, and the same   *)
(* two functions for templates in template.rs.  TaskStore uses what the    *)
(* search decides (Deps!NoFirstCycle); this module shows that the loop     *)
(* decides it, and that it ends on every graph.                            *)
(*                                                                         *)
(* The lists of the code are sets here: in which order the proposed        *)
(* dependencies are tried and the stack is popped does not matter, and an  *)
(* id pushed twice is skipped the second time.                             *)
(***************************************************************************)
EXTENDS Deps

CONSTANTS Node,      \* task or template ids
          Searching  \* no answer yet

ASSUME SearchingIsNoAnswer == \A S \in SUBSET Node : Searching # S

VARIABLES
  deps_of,   \* the graph as the caller read it
  task,      \* the one that is edited
  proposed,  \* its new list
  graph,     \* first_cycle's working copy
  left,      \* proposed dependencies not tried yet
  new_dep,   \* the one creates_cycle is called with, {} between calls
  seen, stack,
  answer     \* Searching, {} for None, {dep} for Some(dep)

vars == <<deps_of, task, proposed, graph, left, new_dep, seen, stack, answer>>

TypeOK ==
  /\ deps_of \in [Node -> SUBSET Node] /\ graph \in [Node -> SUBSET Node]
  /\ task \in Node
  /\ proposed \subseteq Node /\ left \subseteq proposed
  /\ new_dep \in SUBSET proposed
  /\ seen \subseteq Node /\ stack \subseteq Node
  /\ answer = Searching \/ answer \in SUBSET proposed

Init ==
  /\ deps_of \in [Node -> SUBSET Node]
  /\ task \in Node
  /\ proposed \in SUBSET Node
  /\ graph = Cleared(deps_of, task)
  /\ left = proposed
  /\ new_dep = {} /\ seen = {} /\ stack = {}
  /\ answer = Searching

\* The next proposed dependency; a task may not depend on itself.
Try ==
  /\ answer = Searching /\ new_dep = {}
  /\ \E dep \in left :
       /\ left' = left \ {dep}
       /\ new_dep' = {dep}
       /\ seen' = {}
       /\ stack' = {dep}
       /\ answer' = IF dep = task THEN {dep} ELSE Searching
  /\ UNCHANGED <<deps_of, task, proposed, graph>>

\* The task itself is popped: creates_cycle returns true, first_cycle the
\* dependency.
Found ==
  /\ answer = Searching /\ task \in stack
  /\ answer' = new_dep
  /\ stack' = stack \ {task}
  /\ UNCHANGED <<deps_of, task, proposed, graph, left, new_dep, seen>>

\* Faulty variant: only the dependency's own dependencies are looked at.
FollowShallow ==
  /\ answer = Searching
  /\ \E t \in stack \ {task} :
       /\ seen' = seen \cup {t}
       /\ stack' = (stack \ {t}) \cup (IF t \in new_dep THEN graph[t] ELSE {})
  /\ UNCHANGED <<deps_of, task, proposed, graph, left, new_dep, answer>>

\* Another node is popped and, the first time, followed.
Follow ==
  /\ answer = Searching
  /\ \E t \in stack \ {task} :
       /\ seen' = seen \cup {t}
       /\ stack' = (stack \ {t}) \cup (IF t \in seen THEN {} ELSE graph[t])
  /\ UNCHANGED <<deps_of, task, proposed, graph, left, new_dep, answer>>

\* creates_cycle returns false and first_cycle keeps the dependency.
Accept ==
  /\ answer = Searching /\ new_dep # {} /\ stack = {}
  /\ graph' = [graph EXCEPT ![task] = @ \cup new_dep]
  /\ new_dep' = {} /\ seen' = {}
  /\ UNCHANGED <<deps_of, task, proposed, left, stack, answer>>

Finish ==
  /\ answer = Searching /\ new_dep = {} /\ left = {}
  /\ answer' = {}
  /\ UNCHANGED <<deps_of, task, proposed, graph, left, new_dep, seen, stack>>

Next == Try \/ Found \/ Follow \/ Accept \/ Finish

Spec == Init /\ [][Next]_vars

-----------------------------------------------------------------------------
\* The loop decides exactly what Deps says: None when no proposed dependency
\* closes a cycle in the graph after the edit, and otherwise one that does.
SearchDecides ==
  /\ answer = {} => NoFirstCycle(deps_of, task, proposed)
  /\ answer \notin {Searching, {}} =>
       \A dep \in answer : CreatesCycle(Cleared(deps_of, task), task, dep)

\* What the decision is for: an edit that is let through keeps a DAG a DAG.
AcceptedKeepsDag ==
  (answer = {} /\ Acyclic(deps_of)) => Acyclic(Replaced(deps_of, task, proposed))
=============================================================================
