------------------------------ MODULE PrintJobs ------------------------------
(***************************************************************************)
(* What the print queue promises about a slip, whatever printers come and  *)
(* go, whichever answers are lost and however often the daemon restarts:   *)
(* once queued it stays queued until it is settled, it is settled as done  *)
(* only when it came out on paper, and it is given up only with an entry   *)
(* in the event log, unless it is traceless: its task is gone, so there is *)
(* no board to file the entry under, or nobody can read which task it was. *)
(* Coming out more than once is not excluded.                              *)
(***************************************************************************)
CONSTANT Job

VARIABLES outcome, paper, traceless

Init ==
  /\ outcome = [j \in Job |-> "new"]
  /\ paper = {}
  /\ traceless = {}

Queue(j) ==
  /\ outcome[j] = "new"
  /\ outcome' = [outcome EXCEPT ![j] = "queued"]
  /\ UNCHANGED <<paper, traceless>>

\* A copy comes out; one that was on its way may come out after the end.
PrintSlip(j) ==
  /\ outcome[j] # "new"
  /\ paper' = paper \cup {j}
  /\ UNCHANGED <<outcome, traceless>>

Done(j) ==
  /\ outcome[j] = "queued" /\ j \in paper
  /\ outcome' = [outcome EXCEPT ![j] = "done"]
  /\ UNCHANGED <<paper, traceless>>

\* Several may be given up at once.
GiveUp(S) ==
  /\ \A j \in S : outcome[j] = "queued"
  /\ outcome' = [j \in Job |-> IF j \notin S THEN outcome[j]
                               ELSE IF j \in traceless THEN "lost" ELSE "dropped"]
  /\ UNCHANGED <<paper, traceless>>

\* Tasks go, and what one version writes another may not read.
LoseTrack ==
  /\ traceless' \in SUBSET Job
  /\ UNCHANGED <<outcome, paper>>

Next ==
  \/ \E j \in Job : Queue(j) \/ PrintSlip(j) \/ Done(j)
  \/ \E S \in SUBSET Job : GiveUp(S)
  \/ LoseTrack

Spec == Init /\ [][Next]_<<outcome, paper, traceless>>
=============================================================================
