----------------------------- MODULE MCFollowUps ----------------------------
(* What the daemon makes by itself, for TLC: the tasks of a program's run and  *)
(* the instances of a chain of repeating tasks.  A behaviour takes the steps   *)
(* of one of the two, the other stays where it starts.  The three programs     *)
(* loop, branch, fan out, and have steps the root does not wait for.           *)
EXTENDS ProgramRun, Repeats

CONSTANT Second  \* one of the two people on a run

VARIABLE lane  \* which machine takes the steps

-----------------------------------------------------------------------------

StepOf(created, counts, answers, entries) ==
  [created |-> created, once |-> FALSE, counts |-> counts, answers |-> answers,
   default |-> None, entries |-> entries]

WithRoot == [on |-> "WithRoot"]
RootStarted == [on |-> "RootStarted"]
After(s) == [on |-> "Finished", step |-> s]
Told(s, a) == [on |-> "Answered", step |-> s, answer |-> a]

\* The laundry of the tests: wash again until the answer is yes, then hang up.
Laundry == [wash |-> StepOf({WithRoot, Told("wash", "no")}, TRUE, {"yes", "no"}, 1),
            hang |-> [StepOf({Told("wash", "yes")}, FALSE, {}, 1) EXCEPT !.once = TRUE]]

\* Two rooms, and a step after the last of them.
Rooms == [wash |-> StepOf({RootStarted}, TRUE, {}, 2),
          hang |-> StepOf({After("wash")}, TRUE, {}, 1)]

\* A question with a default.
Asked == [wash |-> [StepOf({WithRoot}, TRUE, {"yes", "no"}, 1) EXCEPT !.default = "yes"],
          hang |-> [StepOf({Told("wash", "yes"), RootStarted}, TRUE, {}, 1) EXCEPT !.once = TRUE]]

MCPrograms == {Laundry, Rooms, Asked}
MCMost == [p \in MCPrograms |-> IF p = Rooms THEN 4 ELSE 3]

-----------------------------------------------------------------------------
all == <<vars, chainVars, lane>>

OnChain(A) == lane = "chain" /\ A /\ UNCHANGED <<vars, lane>>

MCInit == lane \in {"run", "chain"} /\ Init /\ ChainInit

\* The rule of the first instance may be replaced while the tick has it on its
\* list; one of the instances, whichever that is of the chain, is only moved.
Retyped(w) ==
  /\ open[w] # Absent /\ open'[w] = Absent /\ open[w].op = "UpdateTask"
  /\ LET new == repeats'[open[w].task] IN new \notin {Absent, repeats[open[w].task]} /\ new.rule # open[w].copy.rule
ChainStep ==
  /\ ChainNext
  /\ \A w \in Client :
       /\ Retyped(w) => open[w].task \in DOMAIN due /\ Cardinality(made) = 1
       /\ open[w] = Absent /\ open'[w] # Absent /\ open'[w].task = 3 => open'[w].op = "MoveTask"

\* The two people are alike, so the second comes when the first is at it; in
\* the largest of the programs only to move a task.
RunStep ==
  /\ Next
  /\ held[Second] = None /\ held'[Second] # None =>
       /\ \A w \in Worker : held'[w] # None
       /\ run.steps = Rooms => held'[Second].op = "MoveTask"

MCNext ==
  \/ lane = "run" /\ RunStep /\ UNCHANGED <<chainVars, lane>>
  \/ OnChain(ChainStep)

\* The fairness of Repeats: as the steps of a tick have a phase each, one for
\* all of them says the same.
ChainTick == ReadDue \/ FireRepeats \/ RestOfTick \/ Sleep

MCSpec ==
  /\ MCInit /\ [][MCNext]_all
  /\ WF_all(OnChain(ChainTick)) /\ WF_all(OnChain(TimePasses))

\* A finished instance whose moment has come is followed by the next (Repeats):
\* ids are interchangeable, so it is enough to follow one.
DueIsFollowed == Followed(1)
=============================================================================
