------------------------------ MODULE Publish ------------------------------
(***************************************************************************)
(* The publishing half of a tick: publish() and ensurePullRequest()        *)
(* (packages/ent/src/publish/index.ts) with the statements of tick() that  *)
(* surround them (packages/ent/src/controller/index.ts): the pull request  *)
(* is written back to the Goal's row, a manual step replaces the decision, *)
(* the decision is saved, and after it the status.                         *)
(*                                                                         *)
(* The tick talks to a working tree, a remote and GitHub.  Each call is an *)
(* action, may fail, and may fail after having taken effect.  A process    *)
(* may die between any two.  Humans commit, open and close pull requests,  *)
(* and type `ent run --pr --issue`.  One tick holds the lease at a time:   *)
(* that is what LeasedTick_proofs!OneReconcile proves.  But a process reads*)
(* the Goal's row before it asks for the lease, so that the row of a tick  *)
(* may be older than what the tick before it wrote.                        *)
(***************************************************************************)
EXTENDS GoalStatus, FiniteSets

CONSTANTS
  Observed,    (* what a digest says besides the pull request               *)
  NoDigest,    (* there is no decision row yet                              *)
  Decided,     (* the actions that reach publish()                          *)
  Policies,    (* values of policies.publish                                *)
  Reports,     (* whether ent run is called with --report                   *)
  Issues,      (* issue numbers that humans type                            *)
  Overlapping, (* ent run --pr / --issue is typed while another tick runs   *)
  MaxCommits,  (* bound of the model: commits ahead of the base             *)
  MaxPRs,      (* bound of the model: pull requests ever opened             *)
  MaxWaiting   (* bound of the model: rows read by those without the lease  *)

ASSUME NumbersAssumption == /\ MaxCommits \in Nat /\ MaxPRs \in Nat /\ MaxWaiting \in Nat
                            /\ Issues \subseteq Nat \ {0}
ASSUME ChoicesAssumption == /\ Policies \subseteq [ push : { "auto", "manual" },
                                                    open : { "auto", "manual" } ]
                            /\ Decided \subseteq Actions
                            /\ Reports \subseteq BOOLEAN /\ Overlapping \in BOOLEAN

VARIABLES
  policy,   (* publishPolicyOf(goal): does not change                       *)
  head,     (* commits of the worktree's branch that base does not have     *)
  remote,   (* how many of them the remote branch has                       *)
  open,     (* numbers of the open pull requests of the branch              *)
  opened,   (* how many were ever opened; the last number given out         *)
  target,   (* goals.pr_number and goals.issue_number, 0 for NULL           *)
  closed,   (* goals.status is terminal                                     *)
  waiting,  (* the numbers of rows that were read while it was not, by      *)
            (* processes that have yet to get the lease                     *)
  carried,  (* github.pr.number in the facts of the last snapshot, or 0     *)
  log,      (* the last row of decisions: latestDigest, latestDecision      *)
  told,     (* history: the stop of that row was written, or tried to be    *)
            (* written, for a human in this tick or while it has stood      *)
  overtaken,(* history: some tick began with a row written since it was read*)
  pc,       (* the place in the tick                                        *)
  tick,     (* what the tick goes by: row read, digest, decision            *)
  pr,       (* prNumber of publish()                                        *)
  held,     (* the declared-manual step that stopped it, or "none"          *)
  skipped,  (* why ensurePullRequest did not secure a pull request          *)
  wrote,    (* the progress went to --report, or was tried to be commented  *)
  cli       (* ent run --pr --issue between its read and its write          *)

world == << head, remote, open, opened >>
local == << pr, held, skipped, wrote >>
past  == << log, told, overtaken >>
vars  == << policy, world, target, closed, waiting, carried, past, pc, tick, local, cli >>

Numbers  == Nat
Targets  == [ pr : Numbers, issue : Numbers ]
Digests  == [ seen : Observed, pr : Numbers ]
Reasons  == { "none", "guard", "declared_manual", "no_diff", "threw" }
Steps    == { "none", "push_branch", "open_pull_request" }
Places   == { "idle", "ensuring", "finding", "creating", "commenting", "registering",
              "recording", "settling" }

(* GUARD_REASONS: stops whose cause is not in the digest.                 *)
GuardStops == { "protected_path_touched", "guard_unavailable", "uncommitted_changes",
                "loop_detected", "repeated_attempt" }

StoppedByGuard(a) == a.type = "ESCALATE" /\ a.of \in GuardStops

(* blocksPush: the protected-path gate did not pass.                      *)
BlocksPush(a) == a.type = "ESCALATE" /\ a.of \in { "protected_path_touched", "guard_unavailable" }

(* repeatsGuardStop; DEDUP_WHEN_REPEATED has the members of GUARD_REASONS.*)
RepeatsGuardStop(a, previous) == StoppedByGuard(a) /\ previous.action = a

(* Mutant: a stop of the guards is no exception from "nothing new".        *)
SameDigest == log.digest = tick.digest /\ skipped # "threw" /\ held = "none"

(* The observation and the decision are those of the previous tick, and   *)
(* nothing else of this tick would be news.                               *)
NothingNew ==
  /\ log.digest = tick.digest
  /\ ~StoppedByGuard(tick.action) \/ RepeatsGuardStop(tick.action, log)
  /\ skipped # "threw"
  /\ held = "none"

(* publishHeldDecision: a manual step ends the tick waiting for a human.  *)
HeldReason == IF held = "push_branch" THEN "push_branch_declared_manual"
                                      ELSE "open_pull_request_declared_manual"
(* Mutant: the tick completes although a step was left to a human.         *)
SettledAsDecided == tick.action

Settled == IF held = "none" THEN tick.action ELSE Escalate(HeldReason)

Nothing == [ digest |-> NoDigest, action |-> Verify ]
Idle    == [ pr |-> 0, issue |-> 0, digest |-> NoDigest, action |-> Verify ]

TypeOK ==
  /\ policy \in [ push : { "auto", "manual" }, open : { "auto", "manual" } ]
  /\ head \in Nat /\ remote \in Nat /\ opened \in Nat
  /\ open \subseteq 1..opened
  /\ target \in Targets /\ carried \in Numbers
  /\ log \in [ digest : Digests \cup {NoDigest}, action : Actions ]
  /\ closed \in BOOLEAN /\ waiting \subseteq Targets
  /\ told \in BOOLEAN /\ overtaken \in BOOLEAN /\ wrote \in BOOLEAN
  /\ pc \in Places
  /\ tick \in [ pr : Numbers, issue : Numbers, digest : Digests \cup {NoDigest},
                action : Actions ]
  /\ pc # "idle" => tick.digest \in Digests
  /\ pr \in Numbers /\ held \in Steps /\ skipped \in Reasons
  /\ cli \in Targets \cup { << >> }

Init ==
  /\ policy \in Policies
  /\ head = 0 /\ remote = 0 /\ open = {} /\ opened = 0
  /\ target = [ pr |-> 0, issue |-> 0 ] /\ carried = 0
  /\ closed = FALSE /\ waiting = {}
  /\ log = Nothing /\ told = FALSE /\ overtaken = FALSE
  /\ pc = "idle" /\ tick = Idle
  /\ pr = 0 /\ held = "none" /\ skipped = "none" /\ wrote = FALSE
  /\ cli = << >>

-----------------------------------------------------------------------------
(* The tick.                                                               *)

(* A process finds the Goal open and keeps what it read, while somebody    *)
(* else has the lease: a row read before is as new as that tick's own.     *)
ReadRow ==
  /\ pc # "idle" /\ ~closed /\ Cardinality(waiting) < MaxWaiting
  /\ waiting' = waiting \cup { target }
  /\ UNCHANGED << policy, world, target, closed, carried, past, pc, tick, local, cli >>

(* The lease is held, or the process dies before it asks for it.           *)
GiveUp ==
  /\ \E row \in waiting : waiting' = waiting \ { row }
  /\ UNCHANGED << policy, world, target, closed, carried, past, pc, tick, local, cli >>

(* The rows a tick may go by: one read earlier, or the one it reads now.   *)
(* Mutant: a tick is not turned away from a Goal that is at its end.       *)
RowsOfAny == waiting \cup { target }

Rows == waiting \cup { row \in { target } : ~closed }

(* A tick from the lease to the call of publish(), with the row it has just*)
(* read or one read earlier: the facts carried and observed give the       *)
(* digest, the snapshot is saved.  A pull request that cannot be read      *)
(* leaves the carried one in the facts.  publish() first writes to the     *)
(* destination of --report, if there is one.                               *)
BeginPublish(o, a, report) ==
  /\ pc = "idle"
  /\ cli = << >> \/ Overlapping
  /\ report => StoppedByGuard(a)         (* of nothing else does it matter *)
  /\ \E row \in Rows :
       /\ waiting' \in { waiting, waiting \ { row } }
       /\ overtaken' = (overtaken \/ row # target)
       /\ pr' = row.pr
       /\ \E p \in { carried } \cup ({ row.pr } \ {0}) :
            /\ carried' = p
            /\ tick' = [ pr |-> row.pr, issue |-> row.issue,
                         digest |-> [ seen |-> o, pr |-> p ], action |-> a ]
  /\ wrote' = report
  /\ held' = "none" /\ skipped' = "none"
  /\ pc' = "ensuring"
  /\ UNCHANGED << policy, world, target, closed, log, told, cli >>

(* ensurePullRequest returned or threw.  Without a pull request there is   *)
(* nothing to comment on.                                                  *)
Ensured(number, step, reason) ==
  /\ pr' = number /\ held' = step /\ skipped' = reason
  /\ pc' = IF number = 0 THEN "registering" ELSE "commenting"
  /\ UNCHANGED << policy, target, closed, waiting, carried, past, tick, wrote, cli >>

(* The gate did not pass: not even a push.                                 *)
KeepBack ==
  /\ pc = "ensuring" /\ BlocksPush(tick.action)
  /\ Ensured(tick.pr, "none", "guard")
  /\ UNCHANGED world

(* policies.publish.push_branch: manual.                                   *)
HoldPush ==
  /\ pc = "ensuring" /\ ~BlocksPush(tick.action) /\ policy.push = "manual"
  /\ Ensured(tick.pr, "push_branch", "declared_manual")
  /\ UNCHANGED world

MayPush == pc = "ensuring" /\ ~BlocksPush(tick.action) /\ policy.push = "auto"

(* rev-list counts nothing ahead of base.                                  *)
NothingToPush ==
  /\ MayPush /\ head = 0
  /\ Ensured(tick.pr, "none", "no_diff")
  /\ UNCHANGED world

(* Mutant: nothing is pushed once there is a pull request.                 *)
PushOnce ==
  /\ MayPush /\ head > 0
  /\ UNCHANGED << head, open, opened >>
  /\ \/ tick.pr # 0 /\ remote' = remote /\ Ensured(tick.pr, "none", "none")
     \/ /\ tick.pr = 0 /\ remote' = head /\ pc' = "finding"
        /\ UNCHANGED << policy, target, closed, waiting, carried, past, tick, local, cli >>

(* git push.  Whether there is a pull request is looked at afterwards.     *)
Push ==
  /\ MayPush /\ head > 0
  /\ remote' = head
  /\ UNCHANGED << head, open, opened >>
  /\ \/ tick.pr # 0 /\ Ensured(tick.pr, "none", "none")
     \/ /\ tick.pr = 0 /\ pc' = "finding"
        /\ UNCHANGED << policy, target, closed, waiting, carried, past, tick, local, cli >>

(* git failed, perhaps only its answer.  The pull request, if there is     *)
(* one, is told of it.                                                     *)
PushFails ==
  /\ MayPush
  /\ remote' \in { remote, head }
  /\ Ensured(tick.pr, "none", "threw")
  /\ UNCHANGED << head, open, opened >>

(* Mutant: a pull request is created without looking for one.              *)
FindNothing ==
  /\ pc = "finding"
  /\ UNCHANGED world
  /\ \/ policy.open = "manual" /\ Ensured(0, "open_pull_request", "declared_manual")
     \/ /\ policy.open = "auto" /\ pc' = "creating"
        /\ UNCHANGED << policy, target, closed, waiting, carried, past, tick, local, cli >>

(* Mutant: the declaration is looked at before GitHub is asked.            *)
HoldBeforeFind ==
  /\ pc = "finding"
  /\ UNCHANGED world
  /\ \/ policy.open = "manual" /\ Ensured(0, "open_pull_request", "declared_manual")
     \/ policy.open = "auto" /\ \E p \in open : Ensured(p, "none", "none")
     \/ /\ open = {} /\ policy.open = "auto" /\ pc' = "creating"
        /\ UNCHANGED << policy, target, closed, waiting, carried, past, tick, local, cli >>

(* findPullRequest: an open one of this branch.                            *)
Find ==
  /\ pc = "finding"
  /\ UNCHANGED world
  /\ \/ \E p \in open : Ensured(p, "none", "none")
     \/ open = {} /\ policy.open = "manual" /\ Ensured(0, "open_pull_request", "declared_manual")
     \/ /\ open = {} /\ policy.open = "auto" /\ pc' = "creating"
        /\ UNCHANGED << policy, target, closed, waiting, carried, past, tick, local, cli >>

FindFails ==
  /\ pc = "finding"
  /\ Ensured(0, "none", "threw")
  /\ UNCHANGED world

(* createPullRequest.                                                      *)
Create ==
  /\ pc = "creating" /\ opened < MaxPRs
  /\ opened' = opened + 1 /\ open' = open \cup { opened' }
  /\ UNCHANGED << head, remote >>
  /\ Ensured(opened', "none", "none")

(* GitHub created it, and the answer was lost or could not be decoded.     *)
CreateUnanswered ==
  /\ pc = "creating" /\ opened < MaxPRs
  /\ opened' = opened + 1 /\ open' = open \cup { opened' }
  /\ UNCHANGED << head, remote >>
  /\ Ensured(0, "none", "threw")

CreateRefused ==
  /\ pc = "creating"
  /\ Ensured(0, "none", "threw")
  /\ UNCHANGED world

(* addComment, unless the progress went elsewhere or is no news.  A        *)
(* comment that GitHub refuses is not tried again.                         *)
Comment ==
  /\ pc = "commenting"
  /\ wrote' = (wrote \/ ~NothingNew)
  /\ pc' = "registering"
  /\ UNCHANGED << policy, world, target, closed, waiting, carried, past, tick, pr, held, skipped, cli >>

(* setObserveTarget, with the issue number read when the tick began.       *)
Register ==
  /\ pc = "registering"
  /\ target' = IF pr # 0 /\ pr # tick.pr THEN [ pr |-> pr, issue |-> tick.issue ] ELSE target
  /\ pc' = "recording"
  /\ UNCHANGED << policy, world, closed, waiting, carried, past, tick, local, cli >>

SaveDecision ==
  /\ pc = "recording"
  /\ log' = [ digest |-> tick.digest, action |-> Settled ]
  /\ told' = (StoppedByGuard(Settled) /\ (wrote \/ (told /\ log' = log)))
  /\ pc' = "settling"
  /\ UNCHANGED << policy, world, target, closed, waiting, carried, overtaken, tick, local, cli >>

TickOver ==
  /\ pc' = "idle" /\ tick' = Idle
  /\ pr' = 0 /\ held' = "none" /\ skipped' = "none" /\ wrote' = FALSE

(* setStatus: what nextStatus makes of the status in the row that was read,*)
(* which was not terminal, is written over the one the row has now.        *)
SetStatus ==
  /\ pc = "settling"
  /\ closed' = IsTerminal(NextStatus("ACTIVE", Settled))
  /\ TickOver
  /\ UNCHANGED << policy, world, target, waiting, carried, past, cli >>

(* The process dies, or a statement throws.                                *)
Crash ==
  /\ pc # "idle"
  /\ TickOver
  /\ UNCHANGED << policy, world, target, closed, waiting, carried, past, cli >>

-----------------------------------------------------------------------------
(* The world around it.                                                    *)

Rest == << policy, closed, waiting, carried, past, pc, tick, local >>

(* The Actor, the controller or a human commits.                           *)
Commit ==
  /\ head < MaxCommits /\ head' = head + 1
  /\ UNCHANGED << Rest, remote, open, opened, target, cli >>

(* A human opens the pull request.  Where the controller is to open it, a  *)
(* human does not.                                                         *)
HumanOpens ==
  /\ policy.open = "manual" /\ remote > 0 /\ open = {} /\ opened < MaxPRs
  /\ opened' = opened + 1 /\ open' = { opened' }
  /\ UNCHANGED << Rest, head, remote, target, cli >>

HumanCloses ==
  /\ \E p \in open : open' = open \ {p}
  /\ UNCHANGED << Rest, head, remote, opened, target, cli >>

(* ent run --pr N --issue M, either or both.  What is not given keeps the  *)
(* value that was read; the lease is asked for only later.                 *)
TypeTarget ==
  /\ cli = << >> /\ (pc = "idle" \/ Overlapping)
  /\ \E p \in open \cup { target.pr }, i \in Issues \cup { target.issue } :
       cli' = [ pr |-> p, issue |-> i ]
  /\ UNCHANGED << Rest, world, target >>

WriteTarget ==
  /\ cli # << >>
  /\ target' = cli /\ cli' = << >>
  /\ UNCHANGED << Rest, world >>

-----------------------------------------------------------------------------
Begin == \E o \in Observed, a \in Decided, report \in Reports : BeginPublish(o, a, report)

Ensure == KeepBack \/ HoldPush \/ NothingToPush \/ Push \/ PushFails \/ Find \/ FindFails
            \/ Create \/ CreateUnanswered \/ CreateRefused

Environment == Commit \/ HumanOpens \/ HumanCloses \/ TypeTarget \/ WriteTarget

Next ==
  \/ ReadRow \/ GiveUp \/ Begin
  \/ Ensure \/ Comment \/ Register \/ SaveDecision \/ SetStatus \/ Crash
  \/ Environment

Spec == Init /\ [][Next]_vars

(* Ticks keep coming, also such as the gate lets through; what can succeed *)
(* does not fail every time, and not every tick that pushed, or that found *)
(* a pull request the row does not have, dies.  Calls return, if only with *)
(* a failure.  Of humans nothing is asked, except that a command line that *)
(* was typed runs.                                                         *)
News == pr # tick.pr

FairSpec ==
  /\ Spec
  /\ SF_vars(\E o \in Observed, a \in Decided, report \in Reports :
               ~BlocksPush(a) /\ BeginPublish(o, a, report))
  /\ SF_vars(Push) /\ SF_vars(Find)
  /\ SF_vars(News /\ Comment) /\ SF_vars(News /\ Register)
  /\ WF_vars(KeepBack \/ HoldPush \/ NothingToPush \/ CreateRefused)
  /\ WF_vars(Comment \/ Register \/ SaveDecision \/ SetStatus)
  /\ WF_vars(WriteTarget)

-----------------------------------------------------------------------------
(* Properties.                                                             *)

(* Two pull requests of one branch would leave open which one counts       *)
(* (publish/index.ts, "a second one").  Neither a create whose answer was  *)
(* lost, nor a death before the number is written back, nor a number that  *)
(* was overwritten leads to a second one.                                  *)
OnePullRequest == \A p, q \in open : p = q

(* A Goal does not complete without a pull request, unless there is        *)
(* nothing to publish or the publishing threw: also where the declaration  *)
(* keeps the controller from pushing or opening one, the held decision     *)
(* replaces COMPLETE.                                                      *)
CompleteHasPullRequest ==
  pc = "recording" /\ Settled = Complete => pr # 0 \/ skipped \in { "no_diff", "threw" }

(* What the comment on publishHeldDecision asks for (controller/index.ts,  *)
(* "saying it is finished without a single pull request makes the verdict  *)
(* meaningless"): no completion without a pull request unless there is no  *)
(* diff.  A push, search or creation that throws breaks it.                *)
CompletedIsPublished ==
  pc = "recording" /\ Settled = Complete => pr # 0 \/ skipped = "no_diff"

(* What publishing promises to those who look at the repository: see       *)
(* PublishedBranch.  How far the round has come lies in the place of the   *)
(* tick and in what ensurePullRequest left behind.                         *)
Sent ==
  \/ pc \in { "finding", "creating" }
  \/ pc \in { "commenting", "registering", "recording" }
     /\ (skipped = "none" \/ held = "open_pull_request")

Way ==
  CASE pc = "settling" -> "said"
    [] pc # "settling" /\ skipped = "threw"   -> "failed"
    [] pc # "settling" /\ skipped = "no_diff" -> "no_diff"
    [] skipped \notin { "threw", "no_diff" } /\ Sent -> "sent"
    [] OTHER -> "begun"

Verdict ==
  CASE log.action = Complete -> "complete"
    [] log.action = Escalate("push_branch_declared_manual") -> "push_branch"
    [] log.action = Escalate("open_pull_request_declared_manual") -> "open_pull_request"
    [] OTHER -> "going on"

(* Somebody is in a tick, or about to be in one, who found the Goal open.  *)
Admitted == pc # "idle" \/ waiting # {}

Branch == INSTANCE PublishedBranch
            WITH row <- target.pr, way <- Way, verdict <- Verdict, admitted <- Admitted
BranchSpec == Branch!Spec

(* A stop of the guards that stands, on a pull request the tick observed,  *)
(* has been written there or to --report (or GitHub refused the comment):  *)
(* collapsing repeated notices never loses the first one.  A tick with a   *)
(* row that was written since may find a pull request in the facts, look   *)
(* for none, and tell nobody.                                              *)
StopTold ==
  StoppedByGuard(log.action) /\ log.digest.pr # 0 /\ ~overtaken => told

(* A human's pull request is found, so that open_pull_request: manual is   *)
(* no dead end, and so is one whose creation was not answered.             *)
PullRequestFound ==
  open # {} /\ target.pr = 0
    ~> target.pr # 0 \/ open = {} \/ closed \/ policy.push = "manual"

(* What is committed reaches the remote, with or without a Run in the      *)
(* tick and whether or not there is a pull request already.                *)
CommittedWorkArrives ==
  remote < head ~> remote = head \/ closed \/ policy.push = "manual"
=============================================================================
