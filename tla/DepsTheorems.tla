---------------------------- MODULE DepsTheorems ----------------------------
(***************************************************************************)
(* Facts about the operators of Deps, for every set of nodes.              *)
(***************************************************************************)
EXTENDS Deps, TLAPS

(* A graph that loses edges stays acyclic: a purged task takes its links   *)
(* with it, and nothing else changes.                                      *)
THEOREM FewerEdgesAcyclic ==
  ASSUME NEW Node, NEW g \in [Node -> SUBSET Node], NEW h \in [Node -> SUBSET Node],
         \A x \in Node : h[x] \subseteq g[x],
         Acyclic(g)
  PROVE  Acyclic(h)
<1> SUFFICES ASSUME NEW x \in Node, NEW y \in h[x]
             PROVE  ~ Reaches(h, y, x)
  BY DEF Acyclic
<1>1. PICK S \in SUBSET Node : y \in S /\ Closed(g, S) /\ x \notin S
  BY DEF Acyclic, Reaches
<1>2. Closed(h, S)
  BY <1>1 DEF Closed
<1> QED
  BY <1>1, <1>2 DEF Reaches

(* first_cycle is what keeps the graph a DAG: when it finds no offender,   *)
(* replacing the task's list by the proposed one closes no cycle, however  *)
(* many dependencies are proposed at once and whatever the old list was.   *)
THEOREM NoFirstCycleAcyclic ==
  ASSUME NEW Node, NEW g \in [Node -> SUBSET Node],
         NEW t \in Node, NEW ds \in SUBSET Node,
         Acyclic(g), NoFirstCycle(g, t, ds)
  PROVE  Acyclic(Replaced(g, t, ds))
<1> DEFINE h == Replaced(g, t, ds)
           Away == {S \in SUBSET Node : Closed(h, S) /\ t \notin S}
           U == UNION Away
<1>h. /\ h \in [Node -> SUBSET Node]
      /\ h[t] = ds
      /\ \A x \in Node : x # t => h[x] = g[x]
  BY DEF Replaced
<1>u. U \in SUBSET Node /\ t \notin U /\ Closed(h, U)
  <2>1. ASSUME NEW x \in U PROVE h[x] \subseteq U
    <3>1. PICK S \in Away : x \in S
      OBVIOUS
    <3>2. h[x] \subseteq S
      BY <3>1 DEF Closed
    <3> QED
      BY <3>1, <3>2
  <2> QED
    BY <2>1 DEF Closed
\* Each proposed dependency lies in a closed set that avoids t.
<1>d. ds \subseteq U
  <2> SUFFICES ASSUME NEW d \in ds PROVE d \in U
    OBVIOUS
  <2>1. Cleared(g, t) \in [Node -> SUBSET Node]
    BY DEF Cleared
  <2>2. PICK S \in SUBSET Node : d \in S /\ Closed(Cleared(g, t), S) /\ t \notin S
    BY <2>1 DEF NoFirstCycle, CreatesCycle, Reaches
  <2>3. Closed(h, S)
    BY <2>2, <1>h DEF Closed, Cleared
  <2> QED
    BY <2>2, <2>3
<1> HIDE DEF h, U
<1> SUFFICES ASSUME NEW x \in Node, NEW y \in h[x]
             PROVE  \E S \in SUBSET Node : y \in S /\ Closed(h, S) /\ x \notin S
  BY <1>h DEF Acyclic, Reaches, h
<1>1. CASE x = t
  BY <1>1, <1>h, <1>u, <1>d
<1>2. CASE x # t
  <2>1. y \in g[x] /\ y \in Node
    BY <1>2, <1>h
  <2>2. PICK C \in SUBSET Node : y \in C /\ Closed(g, C) /\ x \notin C
    BY <2>1 DEF Acyclic, Reaches
  <2>3. CASE t \notin C
    <3>1. Closed(h, C)
      BY <2>2, <2>3, <1>h DEF Closed
    <3> QED
      BY <2>2, <3>1
  <2>4. CASE t \in C /\ x \in U
    <3>1. y \in U
      BY <2>4, <1>u DEF Closed
    <3>2. Closed(h, C \cap U)
      BY <2>2, <1>u, <1>h DEF Closed
    <3> QED
      BY <2>2, <3>1, <3>2
  <2>5. CASE t \in C /\ x \notin U
    <3>1. Closed(h, C \cup U)
      BY <2>2, <1>u, <1>h, <1>d DEF Closed
    <3>2. C \cup U \in SUBSET Node
      BY <1>u
    <3> QED
      BY <2>2, <2>5, <3>1, <3>2
  <2> QED
    BY <2>3, <2>4, <2>5
<1> QED
  BY <1>1, <1>2
=============================================================================
