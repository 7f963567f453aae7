----------------------------- MODULE LlmChoice -----------------------------
(***************************************************************************)
(* What the rest of the project assumes of a tick that asked the LLM: it   *)
(* settles on one of Decide!LlmChoices, and what may happen to it later is *)
(* that a gate replaces it or that an Actor at its usage limit turns the   *)
(* ACT into a wait.  A tick may end at any time.  Nothing here knows of    *)
(* providers, streams, retries or answers; Session implements it.          *)
(***************************************************************************)
EXTENDS Decide

CONSTANTS Contexts, NoDecision

VARIABLES ctx, decision

Init == ctx \in Contexts /\ decision = NoDecision

Choose == decision = NoDecision /\ decision' \in LlmChoices(ctx) /\ UNCHANGED ctx

RunIntoLimit == decision # NoDecision /\ decision' = ActorUsageLimitDecision(decision, TRUE)
                /\ UNCHANGED ctx

Gates == { Escalate(r) : r \in { "protected_path_touched", "guard_unavailable",
                                 "uncommitted_changes" } }

Replace == decision # NoDecision /\ decision' \in Gates /\ UNCHANGED ctx

NextTick == decision' = NoDecision /\ ctx' \in Contexts

Next == Choose \/ RunIntoLimit \/ Replace \/ NextTick

Spec == Init /\ [][Next]_<< ctx, decision >>
=============================================================================
