------------------------------ MODULE Evidence ------------------------------
(***************************************************************************)
(* What a tick takes for true: OBSERVE, VERIFY and ASSESS of packages/ent, *)
(* the facts a Goal carries from tick to tick, and what the controller     *)
(* does on the strength of them - the Actor it launches, the commit it     *)
(* makes itself, the push, the COMPLETE that ends the Goal.                *)
(*                                                                         *)
(* A version is the content of the implementer's working tree and, once    *)
(* committed, the commit: `tree` is what the files say, `head` the commit  *)
(* checked out, `remote` the head of the pull request.  People change the  *)
(* first two between any two steps of the tick.  CI, the threads of the    *)
(* pull request and the human approval move at any time as well: what they *)
(* answer is chosen when they are asked.                                   *)
(*                                                                         *)
(* One tick at a time: the lease is the subject of LeasedTick.             *)
(***************************************************************************)
EXTENDS Decide

CONSTANTS
  CriteriaSets,  \* the acceptance criteria a Goal may be declared with
  Versions,      \* for each, the contents its working tree can have
  Base,          \* the one it starts with
  Protected,     \* those in which a protected path differs from the base
  Tended,        \* the declarations under which people work on the tree too
  PortErrors,    \* how reading a Port may fail
  Absent         \* no fact, no commit, no review: what the code calls null

Criteria == { "test", "ci", "threads", "review", "human" }

(* The keys of facts, by their names in the code.  "github.ci.conclusion"  *)
(* stands for every key with the prefix github.ci., and the id of a        *)
(* criterion c for the key criteria.<c>.passed.                            *)
Observations == { "local.head_sha", "github.pr.head_sha", "github.ci.conclusion",
                  "github.pr.unresolved_threads", "review.verdict", "review.reviewed_sha" }
FactKeys     == Observations \cup Criteria
NoFacts      == [k \in FactKeys |-> Absent]

Commits      == UNION { Versions[C] : C \in CriteriaSets }

Verdicts     == { "approved", "changes_requested" }
Conclusions  == { "success", "failure" }

ASSUME CriteriaAssumption  == \A C \in CriteriaSets : C \subseteq Criteria
ASSUME VersionsAssumption  == \A C \in CriteriaSets : Base \in Versions[C]
ASSUME ProtectedAssumption == Protected \subseteq Commits \ { Base }
ASSUME PortAssumption      == PortErrors \subseteq { "port_failed", "shape_mismatch" }
ASSUME AbsentAssumption    == /\ Absent \notin Commits \cup Nat \cup BOOLEAN
                              /\ Absent \notin Verdicts \cup Conclusions
                              /\ Absent \notin { <<>> } \cup (Verdicts \X Commits)

(* An operator introduced as a mutant is no part of the specification.     *)

VARIABLES
  criteria,     \* the declaration: which criteria the Goal has
  tree, head,   \* the implementer's worktree
  made,         \* the worktree exists
  unsaved,      \* the Actor has written what no commit holds (history)
  remote,       \* the head of the pull request, Absent while there is none
  review,       \* what the latest completed review Run said, and of which commit
  carried,      \* the facts of the last snapshot
  completed,    \* the Goal is COMPLETED
  pc, seen, facts, sawLeftovers, unresolved, decision, implemented,  \* the tick
  ranOn, basis, moved                                                \* history

world  == << tree, head, made, unsaved, remote, review >>
tick   == << pc, seen, facts, sawLeftovers, unresolved, decision, implemented >>
ghosts == << ranOn, basis, moved >>
vars   == << criteria, world, carried, completed, tick, ghosts >>

(***************************************************************************)
(* The facts (reconcile/index.ts)                                          *)
(***************************************************************************)

Laid(base, incoming) ==
  [k \in FactKeys |-> IF incoming[k] = Absent THEN base[k] ELSE incoming[k]]

MergeFacts(base, incoming) == Laid(base, incoming)

HeadShaChanged(before, now) ==
  /\ before["github.pr.head_sha"] # Absent
  /\ now["github.pr.head_sha"] # Absent
  /\ before["github.pr.head_sha"] # now["github.pr.head_sha"]

(* Reading the pull request always yields its head, so the head stands for *)
(* the number the code looks for.                                          *)
ThreadCountUnread(now) ==
  /\ now["github.pr.head_sha"] # Absent
  /\ now["github.pr.unresolved_threads"] = Absent

StaleKeys(before, now) ==
  { k \in { "github.ci.conclusion" } : HeadShaChanged(before, now) }
    \cup { k \in { "github.pr.unresolved_threads" } : ThreadCountUnread(now) }

(* Mutant: what this tick did not observe is carried, whatever it is.      *)
KeepStaleFacts(before, now) == [k \in FactKeys |-> before[k]]

ExpireStaleFacts(before, now) ==
  [k \in FactKeys |-> IF k \in StaleKeys(before, now) THEN Absent ELSE before[k]]

(***************************************************************************)
(* OBSERVE (observe/index.ts)                                              *)
(***************************************************************************)

Fact(key, value) == [k \in FactKeys |-> IF k = key THEN value ELSE Absent]

(* The local read.  Until there is a worktree it is the controller's own   *)
(* checkout that is looked at: its head is the base, and dirt in it is     *)
(* nobody's leftovers (`local.branch` tells the two apart).                *)
LocalRead == Fact("local.head_sha", IF made THEN head ELSE Base)

(* The review read: the message of the latest completed review Run counts  *)
(* only when both the verdict and the commit can be made out.              *)
ReviewKeys == { "review.verdict", "review.reviewed_sha" }

ReviewRead ==
  IF review \in { Absent, <<>> } THEN NoFacts
  ELSE Laid(Fact("review.verdict", review[1]), Fact("review.reviewed_sha", review[2]))

ReviewUnclear == IF review = <<>> THEN ReviewKeys \X { "pending" } ELSE {}

ObserveLocal ==
  /\ pc = "idle" /\ ~completed
  /\ \E local, rev \in { {} } \cup { { e } : e \in PortErrors } :
       /\ seen' = Laid(IF local = {} THEN LocalRead ELSE NoFacts,
                       IF rev = {} THEN ReviewRead ELSE NoFacts)
       /\ unresolved' = ({ "local" } \X local) \cup (ReviewKeys \X rev)
                           \cup (IF rev = {} THEN ReviewUnclear ELSE {})
       /\ sawLeftovers' = (local = {} /\ made /\ tree # head)
  /\ pc' = "local"
  /\ UNCHANGED << criteria, world, carried, completed, facts, decision, implemented, ghosts >>

(* The pull request and, by its head, CI.  No fact: the number is not      *)
(* known or GitHub answered 404.  The count of threads comes from a second *)
(* query that may fail without a word.  What no declared criterion depends *)
(* on is not read here.                                                    *)
ThreadReads ==
  { NoFacts } \cup { Fact("github.pr.unresolved_threads", n) : n \in { x \in 0..1 : "threads" \in criteria } }

(* CI runs the tests of the criterion "test".  It may not have started, be *)
(* running, or running again: then there is no conclusion to record.       *)
Works(v)        == v # Base
ConclusionOf(v) == IF Works(v) THEN "success" ELSE "failure"

CiReads ==
  { << NoFacts, {} >> }
    \cup { r \in { << Fact("github.ci.conclusion", ConclusionOf(remote)), {} >> }
                    \cup { << NoFacts, { << "github.ci", e >> } >> : e \in PortErrors } :
             "ci" \in criteria }

GitHubReads ==
  { << NoFacts, {} >> }
    \cup IF remote = Absent \/ { "ci", "threads" } \cap criteria = {} THEN {}
         ELSE { << NoFacts, { << "github.pr", e >> } >> : e \in PortErrors }
                \cup { << Laid(Laid(Fact("github.pr.head_sha", remote), t), c[1]), c[2] >> :
                        t \in ThreadReads, c \in CiReads }

ObserveGitHub ==
  /\ pc = "local"
  /\ \E r \in GitHubReads :
       /\ seen' = Laid(seen, r[1])
       /\ unresolved' = unresolved \cup r[2]
  /\ pc' = "observed"
  /\ UNCHANGED << criteria, world, carried, completed, facts, sawLeftovers, decision, implemented, ghosts >>

(***************************************************************************)
(* VERIFY (verify/index.ts) and ASSESS (assess/index.ts)                   *)
(***************************************************************************)

Outcome(passed) == [resolved |-> TRUE, passed |-> passed, reason |-> ""]
Open(reason)    == [resolved |-> FALSE, passed |-> FALSE, reason |-> reason]

FactBehind == [ci |-> "github.ci.conclusion", threads |-> "github.pr.unresolved_threads",
               review |-> "review.verdict"]
Expected   == [ci |-> "success", threads |-> 0, review |-> "approved"]

(* Mutant: the verdict alone counts.                                       *)
JudgeAnyReview(o) == Outcome(o["review.verdict"] = Expected.review)

JudgeReviewVerdict(o) ==
  IF o["review.reviewed_sha"] = Absent \/ o["local.head_sha"] = Absent
  THEN Open("pending")
  ELSE Outcome(/\ o["review.reviewed_sha"] = o["local.head_sha"]
               /\ o["review.verdict"] = Expected.review)

JudgeFact(c, o) ==
  IF o[FactBehind[c]] = Absent THEN Open("pending")
  ELSE IF FactBehind[c] = "review.verdict" THEN JudgeReviewVerdict(o)
  ELSE Outcome(o[FactBehind[c]] = Expected[c])

(* What the command may answer: its exit code, or that it could not be     *)
(* started.  Before there is a worktree it runs in the controller's own    *)
(* checkout, the base, where the tests fail.                               *)
CommandOutcomes == { Outcome(made /\ Works(tree)), Open("port_failed") }
HumanOutcomes   == { Outcome(TRUE), Open("pending") } \cup { Open(e) : e \in PortErrors }

Judge(c, o, ran, asked) ==
  IF c = "test" THEN ran ELSE IF c = "human" THEN asked ELSE JudgeFact(c, o)

(* A failed setup leaves every criterion without a judgement.              *)
Verified(o, ready, ran, asked) ==
  [c \in criteria |-> IF ready THEN Judge(c, o, ran, asked) ELSE Open("port_failed")]

FactsOf(v) ==
  [k \in FactKeys |-> IF k \in DOMAIN v THEN IF v[k].resolved THEN v[k].passed ELSE Absent
                                         ELSE Absent]

UnverifiedOf(v) == { << c, v[c].reason >> : c \in { x \in DOMAIN v : ~v[x].resolved } }

Gaps(f) == { c \in criteria : f[c] # TRUE }

(***************************************************************************)
(* DECIDE, with the budget left out: a stop on it may come at any tick.    *)
(***************************************************************************)

ReviewedHead(f, o) ==
  f["review.reviewed_sha"] # Absent /\ f["review.reviewed_sha"] = o["local.head_sha"]

Context(f, o) ==
  [asksForReview    |-> "review" \in criteria,
   reviewedHead     |-> ReviewedHead(f, o),
   changesRequested |-> ReviewedHead(f, o) /\ f["review.verdict"] = "changes_requested"]

Plenty == [maxRuns |-> 1, maxReconciles |-> 1, maxFailures |-> 1, maxUnchanged |-> 2, wallClock |-> 1]
Unused == [runs |-> 0, reconciles |-> 0, failures |-> 0, digest |-> 0, streak |-> 0]

Decided(f, o, u) ==
  Decisions(Plenty, Unused, 0, 0,
            [gaps |-> Gaps(f) # {}, unresolved |-> { x[2] : x \in u }, repeated |-> 0,
             ctx |-> Context(f, o)])
    \cup { Escalate("budget_exhausted") }

(* What is left of an action for the rest of the tick to tell apart: a     *)
(* WAIT and a VERIFY are the same to it, and so are all reasons to stop,   *)
(* and what leaves the implementer's tree alone with work still to come.   *)
Essence(a) ==
  IF a.type = "WAIT" /\ a # WaitUntil THEN Verify
  ELSE IF a.type = "ESCALATE" THEN Escalate("budget_exhausted")
  ELSE IF a = Act("investigate") THEN WaitUntil ELSE a

(* Nothing later in the tick reads its observation, nor what could not be  *)
(* resolved but for the command: both are let go of here.                  *)
Reconcile ==
  /\ pc = "observed"
  /\ \E ready \in BOOLEAN, ran \in CommandOutcomes, asked \in HumanOutcomes :
       LET o == MergeFacts(ExpireStaleFacts(carried, seen), seen)
           v == Verified(o, ready, ran, asked)
           f == MergeFacts(o, FactsOf(v))
           u == unresolved \cup UnverifiedOf(v)
       IN  /\ facts' = f
           /\ decision' \in { Essence(a) : a \in Decided(f, seen, u) }
           /\ unresolved' = { x \in u : x[1] = "test" }
  /\ seen' = NoFacts
  /\ ranOn' = tree
  /\ basis' = IF decision' = Complete THEN seen ELSE NoFacts
  /\ pc' = "decided"
  /\ UNCHANGED << criteria, world, carried, completed, sawLeftovers, implemented, moved >>

(***************************************************************************)
(* ACT (act/index.ts).  The Run row is written first, so it is there even  *)
(* when the worktree cannot be made.  Then the Actor does as it likes with *)
(* the tree: writes or not, commits or not, succeeds or fails.             *)
(***************************************************************************)

Acts == decision.type = "ACT"

NoAct ==
  /\ pc = "decided" /\ ~Acts
  /\ pc' = "acted"
  /\ UNCHANGED << criteria, world, carried, completed, seen, facts, sawLeftovers,
                  unresolved, decision, implemented, ghosts >>

(* Interrupted before the launch, or the Run could not be written.         *)
NotLaunched ==
  /\ pc = "decided" /\ Acts
  /\ pc' = "acted"
  /\ UNCHANGED << criteria, world, carried, completed, seen, facts, sawLeftovers,
                  unresolved, decision, implemented, ghosts >>

Launch(role) ==
  /\ pc = "decided" /\ decision = Act(role)
  /\ implemented' = (role = "implement")
  /\ pc' = "acted"
  /\ UNCHANGED << criteria, remote, carried, completed, seen, facts,
                  sawLeftovers, unresolved, decision, ranOn, basis >>

(* The tree of "investigate" is its own; that of "review" is the           *)
(* implementer's.                                                          *)
RunFails ==
  /\ \E role \in Roles : Launch(role)
  /\ made' \in { made, made \/ decision # Act("investigate") }
  /\ UNCHANGED << moved, tree, head, unsaved, review >>

Implement ==
  /\ Launch("implement")
  /\ made' = TRUE
  /\ \E v \in Versions[criteria], commits \in BOOLEAN :
       /\ tree' = v
       /\ head' = IF commits THEN v ELSE head
       /\ moved' = (commits /\ v # head)
       /\ unsaved' = (~commits /\ v # head /\ (unsaved \/ v # tree))
  /\ UNCHANGED review

(* The reviewer names the commit it was given to read.                     *)
Review ==
  /\ Launch("review")
  /\ made' = TRUE
  /\ review' \in { <<>> } \cup { << verdict, head >> : verdict \in Verdicts }
  /\ UNCHANGED << moved, tree, head, unsaved >>

(***************************************************************************)
(* After ACT (controller/index.ts)                                         *)
(***************************************************************************)

(* guardedDecision: what differs from the base, committed or not.          *)
(* Mutant: only the files as they lie there are looked at.                 *)
TouchedUncommitted == made /\ tree # head /\ tree \in Protected

Touched == made /\ { head, tree } \cap Protected # {}

GuardedDecisions ==
  { IF Touched THEN Escalate("protected_path_touched") ELSE decision }
    \cup { Escalate("guard_unavailable") }

Guard ==
  /\ pc = "acted"
  /\ decision' \in GuardedDecisions
  /\ pc' = "guarded"
  /\ UNCHANGED << criteria, world, carried, completed, seen, facts, sawLeftovers, unresolved,
                  implemented, ghosts >>

(* toVerifications: what could not be resolved outweighs a fact, which may *)
(* be an earlier tick's.                                                   *)
VerificationPassed(c) == facts[c] = TRUE /\ c \notin { x[1] : x \in unresolved }

MachineCriteriaSatisfied == "test" \in criteria /\ VerificationPassed("test")

MayCommit == decision.type # "ESCALATE" /\ MachineCriteriaSatisfied /\ made

(* commitVerifiedWork made a commit: the whole tree, as it is now.         *)
CommitVerifiedWork ==
  /\ pc = "guarded" /\ MayCommit /\ tree # head
  /\ head' = tree
  /\ unsaved' = FALSE
  /\ pc' = "settled"
  /\ UNCHANGED << criteria, tree, made, remote, review, carried,
                  completed, seen, facts, sawLeftovers, unresolved, decision, implemented, ghosts >>

(* Mutant: only a VERIFY is asked what it leaves behind.                   *)
UncommittedAfterVerify(d) ==
  IF d = Verify /\ sawLeftovers THEN Escalate("uncommitted_changes") ELSE d

(* A worktree exists only once a Run row does, so dirt seen in it answers  *)
(* the first question too.                                                 *)
UncommittedDecision(d) ==
  IF LeavesWorkUncommitted(d) /\ sawLeftovers THEN Escalate("uncommitted_changes") ELSE d

(* It did not: it was not to, there was nothing to commit, or git failed.  *)
LeaveUncommitted ==
  /\ pc = "guarded"
  /\ decision' = UncommittedDecision(decision)
  /\ pc' = "settled"
  /\ UNCHANGED << criteria, world, carried, completed, seen, facts, sawLeftovers, unresolved,
                  implemented, ghosts >>

(* What the tick observed and judged, once it is written down.             *)
Forget ==
  /\ seen' = NoFacts /\ facts' = NoFacts /\ sawLeftovers' = FALSE /\ unresolved' = {}
  /\ implemented' = FALSE /\ ranOn' = Absent /\ basis' = NoFacts

(* Mutant: the review is judged as in any other tick.                      *)
JudgedAsEver(f) == [k \in FactKeys |-> f[k]]

(* saveSnapshot.  After an implementer ran, what hangs on a review is not  *)
(* judged (pendingReviewCriteria).                                         *)
PendingReviewCriteria(f) ==
  [k \in FactKeys |-> IF implemented /\ k = "review" /\ k \in criteria THEN Absent ELSE f[k]]

SaveSnapshot ==
  /\ pc = "settled"
  /\ carried' = PendingReviewCriteria(facts)
  /\ pc' = "saved" /\ Forget
  /\ UNCHANGED << criteria, world, completed, decision, moved >>

(* publish pushes what is committed in the implementer's tree, and opens   *)
(* the pull request.  Module Publish has its steps and its retries.        *)
Unpushable == decision \in { Escalate("protected_path_touched"), Escalate("guard_unavailable") }

Push ==
  /\ pc = "saved" /\ ~Unpushable
  /\ made /\ (head # Base \/ remote # Absent)
  /\ remote' = head
  /\ pc' = "published"
  /\ UNCHANGED << criteria, tree, head, made, unsaved, review,
                  carried, completed, seen, facts, sawLeftovers, unresolved, decision,
                  implemented, ghosts >>

PushNothing ==
  /\ pc = "saved"
  /\ pc' = "published"
  /\ UNCHANGED << criteria, world, carried, completed, seen, facts, sawLeftovers, unresolved,
                  decision, implemented, ghosts >>

TickOver ==
  /\ pc' = "idle" /\ decision' = Verify /\ moved' = FALSE /\ Forget

(* saveDecision and setStatus.                                             *)
Record ==
  /\ pc = "published"
  /\ completed' = (decision = Complete)
  /\ TickOver
  /\ UNCHANGED << criteria, world, carried >>

(* The process dies: all that is not written is lost.                      *)
Crash ==
  /\ pc # "idle"
  /\ TickOver
  /\ UNCHANGED << criteria, world, carried, completed >>

(* People, until the Goal is over.                                         *)
(***************************************************************************)

Outside == UNCHANGED << criteria, made, remote, review, carried, completed, tick, ghosts >>

(* People edit files, drop what is uncommitted, or commit it.              *)
Edit ==
  /\ criteria \in Tended /\ ~completed /\ made
  /\ tree' \in Versions[criteria] \ (Protected \cup { tree })
  /\ unsaved' = (unsaved /\ tree' # head)
  /\ Outside /\ UNCHANGED head

Commit ==
  /\ criteria \in Tended /\ ~completed /\ made /\ tree # head
  /\ head' = tree /\ unsaved' = FALSE
  /\ Outside /\ UNCHANGED tree

Init ==
  /\ criteria \in CriteriaSets
  /\ tree = Base /\ head = Base /\ made = FALSE /\ unsaved = FALSE
  /\ remote = Absent /\ review = Absent
  /\ carried = NoFacts /\ completed = FALSE
  /\ pc = "idle" /\ seen = NoFacts /\ facts = NoFacts /\ sawLeftovers = FALSE /\ unresolved = {}
  /\ decision = Verify /\ implemented = FALSE /\ ranOn = Absent /\ basis = NoFacts /\ moved = FALSE

Tick == \/ ObserveLocal \/ ObserveGitHub \/ Reconcile
        \/ NoAct \/ NotLaunched \/ RunFails \/ Implement \/ Review
        \/ Guard \/ CommitVerifiedWork \/ LeaveUncommitted \/ SaveSnapshot
        \/ Push \/ PushNothing \/ Record

World == Edit \/ Commit

Next == Tick \/ Crash \/ World
Spec == Init /\ [][Next]_vars

(***************************************************************************)
(* Properties                                                              *)
(***************************************************************************)

IsFacts(f) ==
  /\ f = [k \in FactKeys |-> f[k]]
  /\ \A k \in { "local.head_sha", "github.pr.head_sha", "review.reviewed_sha" } : f[k] \in Commits \cup { Absent }
  /\ f["github.ci.conclusion"] \in Conclusions \cup { Absent }
  /\ f["github.pr.unresolved_threads"] \in 0..1 \cup { Absent }
  /\ f["review.verdict"] \in Verdicts \cup { Absent }
  /\ \A c \in Criteria : f[c] \in BOOLEAN \cup { Absent }

(* A review Run said something legible about a commit, or nothing legible. *)
IsReview(r) == r \in { Absent, <<>> } \cup (Verdicts \X Commits)

(* Every variable keeps to its range; facts keep to that of their key.     *)
TypeOK ==
  /\ criteria \in CriteriaSets
  /\ tree \in Commits /\ head \in Commits /\ remote \in Commits \cup { Absent }
  /\ made \in BOOLEAN /\ unsaved \in BOOLEAN /\ completed \in BOOLEAN
  /\ IsReview(review)
  /\ IsFacts(carried) /\ IsFacts(facts) /\ IsFacts(seen) /\ IsFacts(basis)
  /\ pc \in { "idle", "local", "observed", "decided", "acted", "guarded", "settled", "saved", "published" }
  /\ sawLeftovers \in BOOLEAN /\ implemented \in BOOLEAN /\ moved \in BOOLEAN
  /\ \A x \in unresolved : x[2] \in UnresolvedKinds
  /\ decision \in Actions
  /\ ranOn \in Commits \cup { Absent }

(* The conclusion of CI among the facts of a snapshot, or of a tick, is    *)
(* that of the commit the same facts call the head of the pull request:    *)
(* however reads fail or come late, a new head never inherits the success  *)
(* of an old one (expireStaleFacts).                                       *)
ConclusionFits(f) ==
  f["github.ci.conclusion"] # Absent =>
    /\ f["github.pr.head_sha"] # Absent
    /\ f["github.ci.conclusion"] = ConclusionOf(f["github.pr.head_sha"])

ConclusionOfItsHead == ConclusionFits(carried) /\ ConclusionFits(facts) /\ ConclusionFits(seen)

Completes == pc \in { "decided", "acted", "guarded", "settled" } /\ decision = Complete

(* A Goal with a command among its criteria completes only in a tick in    *)
(* which that command itself passed: a pass carried over from an earlier   *)
(* tick does not stand in for a command that could not be run.             *)
CommandPassedNow == Completes /\ "test" \in criteria => Works(ranOn)

(* A Goal that asks for a review completes only when the latest review     *)
(* approved the very commit this tick saw checked out.                     *)
ReviewOfThisHead ==
  Completes /\ "review" \in criteria => review = << "approved", basis["local.head_sha"] >>

(* A snapshot never says that the review passed when the Actor committed   *)
(* in the tick that took it: what it committed nobody has read.            *)
NoReviewOfUnreadCommits ==
  pc \in { "saved", "published" } /\ moved => carried["review"] # TRUE

(* When a Goal is completed no work of its Actor is left uncommitted in    *)
(* the worktree, where nothing would push it any more.                     *)
NoWorkLeftBehind == completed => ~unsaved

(* A version that touches a protected path never becomes the head of the   *)
(* pull request, whoever committed it and whatever became of the ticks     *)
(* that saw it.                                                            *)
ProtectedNeverPushed == remote \notin Protected
=============================================================================
