------------------------ MODULE MCRecurringOccurrences ------------------------
(***************************************************************************)
(* An instance of RecurringOccurrences for TLC.  As in the shipped         *)
(* processes, every run has the one name 'runtime-worker'.                 *)
(***************************************************************************)
EXTENDS RecurringOccurrences

CONSTANTS p1, runtimeWorker, manual

OneEveryDay == [p \in {p1} |-> Days]
OneAll == [p \in {p1} |-> "ALL"]
OneOpenEnd == [p \in {p1} |-> LastDay]

SharedName == [r \in Runs |-> runtimeWorker]
===============================================================================
