-------------------------------- MODULE Deps --------------------------------
(***************************************************************************)
(* The dependency rules of crates/taskologic-core/src/deps.rs, as          *)
(* operators on a graph g : [Node -> SUBSET Node], where g[t] is the set   *)
(* of tasks that t depends on.  The search loop itself is DepsSearch; here *)
(* is what the search decides and what "the graph is a DAG" means.         *)
(*                                                                         *)
(* Reachability is written without recursion: y is reachable from x when   *)
(* every set of nodes that contains x and is closed under g contains y.    *)
(***************************************************************************)

\* The set S is closed under following dependencies.
Closed(g, S) == \A x \in S : g[x] \subseteq S

\* y is x itself or is found by following dependencies from x.
Reaches(g, x, y) ==
  \A S \in SUBSET DOMAIN g : (x \in S /\ Closed(g, S)) => y \in S

\* creates_cycle: making task depend on dep would close a cycle.
CreatesCycle(g, task, dep) == task = dep \/ Reaches(g, dep, task)

\* The list task already had is dropped before the proposed one is tried.
Cleared(g, task) == [g EXCEPT ![task] = {}]

\* The graph after the edit.
Replaced(g, task, proposed) == [g EXCEPT ![task] = proposed]

\* first_cycle returns None: no proposed dependency closes a cycle.
\* The loop also pushes the dependencies accepted so far onto task's list;
\* a search that reaches task stops there, so those edges never matter
\* (DepsSearch runs the loop as written).
NoFirstCycle(g, task, proposed) ==
  \A d \in proposed : ~ CreatesCycle(Cleared(g, task), task, d)

\* "the graph is always a DAG": no task is reachable from one it depends on.
Acyclic(g) == \A x \in DOMAIN g : \A y \in g[x] : ~ Reaches(g, y, x)
=============================================================================
