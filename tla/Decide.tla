------------------------------- MODULE Decide -------------------------------
(***************************************************************************)
(* decide() of packages/core/src/decide/index.ts and the pure rules of     *)
(* packages/core/src/domain/guard-rules.ts it is read with: which action a *)
(* tick may choose, given what it observed and what the budget has left.   *)
(*                                                                         *)
(* The wording of rationales and prompts is left out.  The LLM is the set  *)
(* of actions it may end up having chosen (LlmChoices); module Session is  *)
(* the retry loop that produces them.                                      *)
(***************************************************************************)
EXTENDS GoalStatus, FiniteSets

(* budget: [maxRuns, maxReconciles, maxFailures, maxUnchanged, wallClock]. *)
(* A duration that durationSeconds cannot parse is UnreadableLimit.        *)
UnreadableLimit == -1

(* usage: [runs, reconciles, failures, digest, streak] where digest and    *)
(* streak are the trailing run of equal observed_digest values of the      *)
(* decisions table (streak = 0 when there is no decision).  The elapsed    *)
(* seconds, the sixth field in the code, come as an argument of their own. *)
(* Mutants: one limit may be passed once.                                  *)
ExhaustedLate(b, u, elapsed) ==
  \/ u.runs >= b.maxRuns
  \/ u.reconciles > b.maxReconciles
  \/ u.failures >= b.maxFailures
  \/ b.wallClock = UnreadableLimit
  \/ elapsed >= b.wallClock

ExhaustedAfterOneMoreFailure(b, u, elapsed) ==
  \/ u.runs >= b.maxRuns
  \/ u.reconciles >= b.maxReconciles
  \/ u.failures > b.maxFailures
  \/ b.wallClock = UnreadableLimit
  \/ elapsed >= b.wallClock

ExhaustedBudget(b, u, elapsed) ==
  \/ u.runs >= b.maxRuns
  \/ u.reconciles >= b.maxReconciles
  \/ u.failures >= b.maxFailures
  \/ b.wallClock = UnreadableLimit
  \/ elapsed >= b.wallClock

(* The observation: a digest and o = [gaps, unresolved, repeated, ctx].    *)
(* o.gaps says whether assess() found any, unresolved is the set of the    *)
(* kinds of unresolved entries, repeated the length of the run of          *)
(* completed attempts with one signature (0 when there is none).           *)
UnresolvedKinds == { "port_failed", "shape_mismatch", "human", "pending" }

(* Mutant: the reconcile in progress is not counted.                       *)
UnchangedBefore(u, d) == IF u.streak > 0 /\ u.digest = d THEN u.streak ELSE 1

UnchangedReconciles(u, d) == IF u.streak > 0 /\ u.digest = d THEN u.streak + 1 ELSE 1

WaitReason(unresolved) ==
  CASE unresolved \cap { "port_failed", "shape_mismatch" } # {} -> "observation_failed"
    [] "human" \in unresolved                                  -> "human_review_pending"
    [] OTHER                                                   -> "ci_running"

(* ctx: [asksForReview, reviewedHead, changesRequested], what askLlm reads *)
(* from the criteria and from the VERIFIED facts.                          *)
LlmChoices(ctx) ==
  { Verify, Act("implement"), Act("investigate"), WaitUntil, Escalate("invalid_decision") }
    \cup { a \in { Act("review") } : ctx.asksForReview /\ ~ctx.reviewedHead }
    \cup { Wait(r) : r \in { x \in WaitReasons : ~ctx.changesRequested } }
    \cup { a \in { Escalate("review_not_converging") } : ctx.asksForReview /\ ctx.reviewedHead }

(* Mutant: what could not be confirmed does not hold COMPLETE back.        *)
GuardsOnGapsAlone(b, u, elapsed, d, o) ==
  << [when |-> ExhaustedBudget(b, u, elapsed),    stop |-> Escalate("budget_exhausted")],
     [when |-> ~o.gaps,                           stop |-> Complete] >>

(* Mutant: repeated attempts are stopped only past the limit.              *)
GuardsRepeatedLate(b, u, elapsed, d, o) ==
  << [when |-> ~o.gaps /\ o.unresolved = {},      stop |-> Complete],
     [when |-> ~o.gaps,                           stop |-> Wait(WaitReason(o.unresolved))],
     [when |-> o.repeated > b.maxUnchanged,       stop |-> Escalate("repeated_attempt")] >>

(* decide(): the guards in the order the code tries them.  The first whose *)
(* condition holds stops the tick; when none does, the LLM is asked.       *)
Guards(b, u, elapsed, d, o) ==
  << [when |-> ExhaustedBudget(b, u, elapsed),    stop |-> Escalate("budget_exhausted")],
     [when |-> "shape_mismatch" \in o.unresolved, stop |-> Escalate("shape_mismatch")],
     [when |-> ~o.gaps /\ o.unresolved = {},      stop |-> Complete],
     [when |-> ~o.gaps,                           stop |-> Wait(WaitReason(o.unresolved))],
     [when |-> UnchangedReconciles(u, d) >= b.maxUnchanged,
                                                  stop |-> Escalate("loop_detected")],
     [when |-> o.repeated > 0 /\ o.repeated >= b.maxUnchanged,
                                                  stop |-> Escalate("repeated_attempt")] >>

FirstGuard(g, i) == g[i].when /\ \A j \in 1..(i - 1) : ~g[j].when

Decisions(b, u, elapsed, d, o) ==
  LET g == Guards(b, u, elapsed, d, o)
  IN  IF \E i \in DOMAIN g : g[i].when
      THEN { g[i].stop : i \in { k \in DOMAIN g : FirstGuard(g, k) } }
      ELSE LlmChoices(o.ctx)

(* guard-rules.ts.  How many of the indices 1..n, counted from the end,    *)
(* lie in a set without a gap; the runs are the statuses of the rows,      *)
(* oldest first.                                                           *)
TrailingCount(n, indices) == Cardinality({ i \in 1..n : i..n \subseteq indices })

ConsecutiveFailures(runs) ==
  TrailingCount(Len(runs), { r \in DOMAIN runs : runs[r] = "failed" })

(* An Actor that stopped at its usage limit turns the ACT into a wait.     *)
ActorUsageLimitDecision(a, ranIntoLimit) ==
  IF a.type = "ACT" /\ ranIntoLimit THEN WaitUntil ELSE a

ClaimsNothingLeft(a)     == a.type = "COMPLETE" \/ (a.type = "WAIT" /\ a # WaitUntil)
LeavesWorkUncommitted(a) == a.type = "VERIFY" \/ ClaimsNothingLeft(a)

WaitsForOthers(a) == a.type = "WAIT" \/ (a.type = "ESCALATE" /\ a.of # "budget_exhausted")
=============================================================================
