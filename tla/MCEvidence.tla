----------------------------- MODULE MCEvidence -----------------------------
(* Values of the constants of Evidence for TLC.                            *)
EXTENDS Evidence

MCCriteriaSets == { { "test", "ci" }, { "threads", "human" }, { "test" }, { "test", "review" } }
MCVersions     == [C \in MCCriteriaSets |-> IF C = { "test" } THEN 0..2 ELSE 0..1]
MCTended       == { { "test" } }
=============================================================================
