----------------------------- MODULE GoalStatus -----------------------------
(***************************************************************************)
(* The vocabulary shared by every module: the status column of a Goal row  *)
(* (packages/core/src/domain/goal-state.ts) and the actions a Decision can *)
(* carry (packages/core/src/domain/action.ts), with the transition function*)
(* the controller applies when a tick ends.                                *)
(***************************************************************************)
EXTENDS Integers, Sequences

(* The values of goals.status.  "UNREGISTERED" stands for the absence of   *)
(* the row: getState returns null.                                         *)
Statuses == { "DRAFT", "AWAITING_CRITERIA_APPROVAL", "ACTIVE", "WAITING_HUMAN",
              "WAITING_EXTERNAL", "BLOCKED", "COMPLETED", "FAILED", "ABANDONED" }

IsTerminal(s) == s \in { "COMPLETED", "FAILED", "ABANDONED" }

(* The roles an Actor is launched in (domain/run.ts).  "investigate" is    *)
(* declared but nothing launches it.                                       *)
Roles == { "implement", "review", "investigate" }

WaitReasons == { "human_review_pending", "review_pending", "ci_running",
                 "usage_limit", "observation_failed" }

EscalateReasons ==
  { "budget_exhausted", "loop_detected", "repeated_attempt", "invalid_decision",
    "protected_path_touched", "guard_unavailable", "uncommitted_changes",
    "shape_mismatch", "push_branch_declared_manual",
    "open_pull_request_declared_manual", "review_not_converging" }

(* An action is a record.  "of" carries what the type needs: the role of   *)
(* an ACT, the reason of a WAIT or of an ESCALATE.  "until" says that a    *)
(* WAIT names a time before which the Goal sleeps (resumeAfter).           *)
Complete       == [type |-> "COMPLETE", of |-> "", until |-> FALSE]
Act(role)      == [type |-> "ACT", of |-> role, until |-> FALSE]
Verify         == [type |-> "VERIFY", of |-> "", until |-> FALSE]
Wait(reason)   == [type |-> "WAIT", of |-> reason, until |-> FALSE]
WaitUntil      == [type |-> "WAIT", of |-> "usage_limit", until |-> TRUE]
Escalate(why)  == [type |-> "ESCALATE", of |-> why, until |-> FALSE]
Replan         == [type |-> "REPLAN", of |-> "", until |-> FALSE]

Actions == { Complete, Verify, WaitUntil, Replan }
             \cup { Act(r) : r \in Roles }
             \cup { Wait(r) : r \in WaitReasons }
             \cup { Escalate(r) : r \in EscalateReasons }

(* nextStatus: the status the row takes once an action is settled.         *)
WaitsForHuman(a) == a.of \in { "human_review_pending", "review_pending" }

NextStatus(current, a) ==
  CASE IsTerminal(current)       -> current
    [] a.type = "COMPLETE"       -> "COMPLETED"
    [] a.type = "WAIT"           -> IF WaitsForHuman(a) THEN "WAITING_HUMAN"
                                                        ELSE "WAITING_EXTERNAL"
    [] a.type = "ESCALATE"       -> IF a.of = "budget_exhausted" THEN "BLOCKED"
                                                                 ELSE "WAITING_HUMAN"
    [] OTHER                     -> "ACTIVE"
=============================================================================
