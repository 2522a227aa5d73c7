---------------------------- MODULE MCAutopsyCase ----------------------------
(***************************************************************************)
(* Five cases, one of which is chosen at the start: two services whose     *)
(* processes die; one service and every fault; one service with room for   *)
(* both revisions and two attributes to tell apart; and, under fairness,   *)
(* two services whose runner may fail or always answers.                   *)
(***************************************************************************)
EXTENDS AutopsyCase, TLC

CONSTANTS axis, damping, one, other

MCAttributes == {axis}
MCSource == [x \in MCAttributes |-> 0]
Two == {axis, damping}

Alone == INSTANCE AutopsyCase WITH
    Services <- {one}, Faults <- FaultKinds, RunBudget <- 5, ExperimentBudget <- 2, MaxEvents <- 9
Twice == INSTANCE AutopsyCase WITH
    Services <- {one}, Faults <- {}, RunBudget <- 5, ExperimentBudget <- 2, MaxEvents <- 12,
    Attributes <- Two, Source <- [x \in Two |-> 0]
Fair == INSTANCE AutopsyCase WITH Faults <- {"upstream"}, RevisionBudget <- 1, MaxEvents <- 9
Calm == INSTANCE AutopsyCase WITH Faults <- {}, RevisionBudget <- 1, MaxEvents <- 9

VARIABLE case

MCInit ==
    \/ case = "shared" /\ Init
    \/ case = "alone" /\ Alone!Init
    \/ case = "twice" /\ Twice!Init
    \/ case = "fair" /\ Fair!Init
    \/ case = "calm" /\ Calm!Init

MCNext == UNCHANGED case /\
    \/ case = "shared" /\ Next
    \/ case = "alone" /\ Alone!Next
    \/ case = "twice" /\ Twice!Next
    \/ case = "fair" /\ Fair!Next
    \/ case = "calm" /\ Calm!Next

MCStep(s) ==
    \/ case = "fair" /\ Fair!Step(s)
    \/ case = "calm" /\ Calm!Step(s)

MCSpec == MCInit /\ [][MCNext]_<<case, vars>> /\ \A s \in {one, other} : WF_vars(MCStep(s))

\* BudgetsHeld of the case: one service exceeds no budget, two services each by one run.
EachBudgetHeld == IF case \in {"alone", "twice"} THEN Alone!BudgetsHeld ELSE BudgetsHeld

\* While no process dies and the store works, a reservation is decided, as the suite gives its
\* verdict or its failure is the verdict, and a tool that waits for the runner returns.
FairProgress ==
    /\ (case \in {"fair", "calm"} /\ Undecided) ~> ~Undecided
    /\ \A s \in {one, other} : (case \in {"fair", "calm"} /\ Waits(s)) ~> ~Waits(s)
=============================================================================
