---------------------------- MODULE MCTaskStore -----------------------------
(* Small instances of TaskStore: one task that everybody races for, or       *)
(* tasks that may depend on each other, on a board whose paused column is    *)
(* the started one.                                                          *)
EXTENDS TaskStore, FiniteSets, TLC

NoDeps == {{}}
AtMostOneDep == {ds \in SUBSET Task : Cardinality(ds) <= 1}
WorkerSymmetry == Permutations(Worker)
=============================================================================
