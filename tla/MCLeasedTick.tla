---------------------------- MODULE MCLeasedTick ----------------------------
(* Values of the constants of LeasedTick for TLC.                          *)
EXTENDS LeasedTick, TLC

NoReview == [asksForReview |-> FALSE, reviewedHead |-> FALSE, changesRequested |-> TRUE]
Gaps     == [gaps |-> TRUE, unresolved |-> {}, repeated |-> 0, ctx |-> NoReview]
Done     == [Gaps EXCEPT !.gaps = FALSE]

MCObservations == { Gaps, Done }
MCBudget == [maxRuns |-> 2, maxReconciles |-> 3, maxFailures |-> 2, maxUnchanged |-> 2,
             wallClock |-> 1]
MCOneRun == [MCBudget EXCEPT !.maxRuns = 1]
MCExplored == { Act("implement"), Complete, WaitUntil }
MCActOrDone == { Act("implement"), Complete }
MCActOnly == { Act("implement"), Escalate("budget_exhausted") }
MCLoopBudget == [MCBudget EXCEPT !.maxRuns = 2, !.maxReconciles = 2, !.maxFailures = 1]
MCLoopExplored == { Act("implement"), Escalate("loop_detected"), Escalate("budget_exhausted") }
MCSymmetry == Permutations(Workers)
MCLoopSymmetry == Permutations(Workers) \cup Permutations(Digests)
=============================================================================
