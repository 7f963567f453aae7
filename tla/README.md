# A TLA+ model of entelecheia

`ent` drives a declared Goal to completion: every `ent run` is one *tick* of a
reconcile loop that observes the world (worktree, review, pull request, CI),
verifies the completion criteria, asks `decide()` for one action, lets a coding
agent act, and publishes the result. There is no daemon: ticks are separate
processes, started by cron or by hand, that meet only in one SQLite file. What
is hard about the program is therefore not any single function but what several
short-lived processes, their timers, their crashes and the humans at the command
line do to the rows they share; what a tick believes of a world that moves while
it is read; and what it leaves behind on GitHub, in a worktree or in `.goals/`
when its calls fail half-way.

The source is read as the reference; paths below are relative to the
repository's root, and `PROJECT.json` gives, for every definition that models
code, the lines it stands for. `core/` and `ent/` stand for
`src/packages/core/src/` and `src/packages/ent/src/`.

## 1. Inventory

| Component | State it keeps | Operations | Correct when | Module |
|---|---|---|---|---|
| Goal status machine (`core/domain/goal-state.ts`, `action.ts`) | `goals.status` | `nextStatus` | terminal states are never left; every action leads to one status | `GoalStatus` |
| DECIDE (`core/decide/index.ts`, `core/domain/guard-rules.ts`) | none (pure, one LLM port) | `decide`, `exhaustedBudget`, `unchangedReconciles`, `waitReason`, `askLlm` | budgets and loop detection stop the Actor; COMPLETE only with nothing left; the LLM chooses only what the context allows | `Decide`, `LlmChoice`, `Session` |
| Controller (`ent/controller/index.ts`) | locals of one tick, heartbeat timer | `tick`, `guardedDecision`, `commitVerifiedWork`, `uncommittedDecision`, `maybeAct`, `usageOf` | at most one reconcile at a time; writes only under the lease; nothing protected pushed, nothing left behind | `LeasedTick`, `Evidence`, `Publish`, `GuardWindow` |
| State store (`ent/store/sqlite.ts`) | `goals`, `snapshots`, `verifications`, `decisions`, `runs`, `llm_calls` | `upsertGoal`, `acquireLease`, `releaseLease`, `saveSnapshot`, `saveVerifications`, `saveDecision`, `setStatus`, `startRun`, `finishRun`, `reclaimOrphanRuns`, `abandon` | each is one statement or transaction; a round's rows belong together | `LeasedTick`, `ReconcileLog` |
| Gate on what an Actor may not touch (`ent/controller/index.ts`, `ent/store/sqlite.ts`, `ent/adapters/local.ts`, `core/domain/protected-paths.ts`) | the readings of one tick, the Runs it recorded | `observedRepoState`, `guardDigest`, `ownRunDrift`, `findViolations`, `guardedDecision` | the controller's own writes raise no alarm, and what is left out for their sake hides nobody else's | `GuardWindow`, `Evidence` |
| RECONCILE, OBSERVE, VERIFY, ASSESS (`ent/reconcile`, `observe`, `verify`, `assess`) | carried facts | `reconcile`, `expireStaleFacts`, `mergeFacts`, `judgeReviewVerdict`, `toVerifications` | a verdict, a CI result or a passed command counts only for the commit and the tick it is about | `Evidence` |
| ACT (`ent/act/index.ts`) | a `runs` row | `act`, `runActor` | every launch has a row, settled exactly once, completed only if the agent said so | `LeasedTick`, `Session`, `Evidence` |
| Agent adapters (`ent/adapters/claude.ts`, `codex.ts`) | the stream of one session | reading of messages, usage limits, aborts | a limit puts the Goal to sleep for as long as the provider said, and nothing else does | `Session` |
| PUBLISH (`ent/publish/index.ts`) | branch, pull request, comments on GitHub | `publish`, `ensurePullRequest`, `addComment` | one pull request; a stop is reported once and not silently lost; whoever is asked to do a step by hand can do it | `Publish`, `PublishedBranch` |
| GitHub adapter (`ent/adapters/github.ts`) | none across calls | `getLatestCiRun`, `getApproval`, `findPullRequest`, ... | what is put together from several answers was true at some moment | `GithubReading`, `Publish` |
| Attempt ledger (`core/domain/attempt.ts`, `ent/usecase/deliver-attempts.ts`) | none of its own: read from `runs`, `verifications`, `snapshots`; a copy in the worktree | `buildAttempts`, `trailingRepeatedAttempts`, `deliverAttemptLedger` | each attempt is judged by a later tick; a stuck implementer is stopped; copies do not lie | `Attempts` |
| Goal dependencies (`core/domain/guard-rules.ts`) | `goals.status` of other Goals | `dependencyGate`, `findCycles` | no Goal completes before those it waits for have; whoever waits waits for somebody | `Dependencies` |
| Planning (`ent/usecase/plan.ts`, `start.ts`) | files in `.goals/` | `plan`, `probe`, `nothingToDo` | a plan is written whole or not at all, and can be carried out | `Dependencies` |
| Command line (`ent/cli.ts`) | none | `start`, `abandon`, `get`, `run`, `plan`, signals | the approval gate; no terminal state overwritten | `LeasedTick`, `Publish`, `Dependencies` |
| Goal files and config, wiring, factory rules, presentation, inspection commands, plugin | files, subprocesses | | conversions and I/O | section 7 |

How they interact. `cli.ts` wires adapters and calls `tick()`; `tick()` calls
reconcile, act and publish in that order and is the only caller that writes the
tables during a run; `act()` writes the Run row. `reconcile()` asks the adapters
for facts, lays them over those of the last snapshot and hands the result to
`decide()`, which may ask an LLM. `ent start`, `ent abandon` and `ent get` write
`goals.status` from other processes without taking the lease; `ent plan` writes
declarations next to the people who do the same. The heartbeat is a callback that
runs whenever the tick is suspended on an `await`, and it too writes the row;
signal handlers abort the Actor through an `AbortSignal`. The Actor shares the
worktree with people and with the controller's own commits.

Hard behaviours, each listed at its line under "hazards" in `PROJECT.json`:

- two `ent run`s of one Goal at the same moment, and a heartbeat that misses the
  database;
- an Actor that outlives the last heartbeat, so that another process takes over
  a tick that is still running;
- a row read before an await and used after it (status, reconciles, lease);
- a crash between any two writes, in particular between the write-ahead Run row
  and its settlement, and between snapshot and decision;
- counts that are one off: reconcile in progress, trailing failures, trailing
  digests;
- commands of a human between check and write;
- facts about an older commit, verdicts that outlive the commit they are about,
  commands that could not be run in this tick but passed in an earlier one;
- what an Actor leaves in the worktree when it fails, and what people do to it
  between two looks of the controller;
- a comparison of the checkout and the state DB before and after the Actor, in a
  window in which the controller itself writes to that DB;
- streams that break off, refuse, or say success and then fail;
- rows tied together by times with the resolution of a clock;
- a crash between the creation of a pull request and its registration, a comment
  that could not be posted;
- answers of GitHub put together from several requests while CI starts again and
  reviewers change their minds;
- declarations that are written, in any order, while others wait for them.

## 2. Modules

| Module | What it is |
|---|---|
| `GoalStatus` | statuses, actions, `nextStatus` |
| `Decide` | `decide()` guard by guard as an ordered table; budget, loop detection, the rules of `guard-rules.ts`; the LLM as the set of actions it may end in, `LlmChoices` |
| `LeasedTick` | the processes: `tick()` statement by statement, heartbeat, signals, crashes, clock, human commands, all tables. Extends `Decide` |
| `ReconcileLog` | abstract specification: the tables as the log of a single process. `LeasedTick` implements it |
| `Publish` | the publishing half of one tick, call by call: push, find, create, comment, write back, hold, record, with GitHub and the humans on it |
| `PublishedBranch` | abstract specification: branch, pull requests and verdicts as seen from outside. `Publish` implements it |
| `Evidence` | what a tick takes for true and does on the strength of it: observe, reconcile, verify, assess, the Actor, the gate on protected paths, the controller's commit, the push. Extends `Decide` |
| `Session` | the sessions of a tick with an agent, message by message: `askLlm` with its retries, the Actor, both providers, usage limits. Extends `Decide` |
| `LlmChoice` | abstract specification: one choice from `LlmChoices`, or a wait for a limit. `Session` implements it |
| `Attempts` | the ledger of attempts as read from three tables by their times, and its two readers. Extends `Decide` |
| `Dependencies` | the gate of `depends_on`, `ent plan`, `ent start` and the people who write declarations. Extends `GoalStatus` |
| `GithubReading` | the two reads that take several requests: failed jobs of CI, approval by a human |
| `GuardWindow` | the gate on what an Actor may not touch beyond its own tree: the checkout, the hooks and the rows of the Goal, read one after the other before and after ACT, while the controller and others write to them |
| `LeasedTick_proofs`, `Publish_proofs`, `Evidence_proofs`, `Session_proofs`, `Attempts_proofs`, `Dependencies_proofs`, `GithubReading_proofs`, `GuardWindow_proofs` | theorems about them |
| `MCLeasedTick`, `MCPublish`, `MCEvidence`, `MCSession`, `MCAttempts`, `MCDependencies`, `MCReadings` | values of the constants for TLC; `MCReadings` puts `GithubReading` and `GuardWindow` side by side |

How they compose. `LeasedTick` is the frame. Its `OneReconcile` (one tick of a
Goal at a time) is what lets `Publish`, `Evidence`, `Session`, `Attempts` and
`GuardWindow` follow a single tick at a time. What the lease does not cover is the
read of the Goal's row, which comes before it: where that matters (`LeasedTick`,
`Publish`, `Session`, `Dependencies`) a row may be read any time before the tick that
goes by it. `LeasedTick` sees `publish()` as one await
that may throw and may hold the decision (`EndPublish`); `Publish` opens that
step up. It takes an observation as given; `Evidence` opens that up, and
`GithubReading` two reads in it. The gate of `Evidence` asks of each version
whether it touches a protected path; what the gate sees of the state DB and of
the controller's checkout is opened up by `GuardWindow`. `Decide` takes the LLM as a set of actions;
`Session` opens it up and is shown to implement it through `LlmChoice`. The count
of repeated attempts, an input of `decide()`, comes from `Attempts`.

### How `LeasedTick` corresponds to the code

A process is in one place of `tick()`, named by `pc`:

| `pc` | place | next action |
|---|---|---|
| `idle` | process not in a tick | `LoadGoal`: `getState` and the early returns |
| `loaded` | row read, lease not yet asked for | `AcquireLease` or `LeaseBusy` |
| `leased` | lease taken, timer set | `BeginReconcile`: `reclaimOrphanRuns`, `usageOf` |
| `observing` | awaiting `reconcile()` | `EndReconcile`: `decide()`'s result, first look at the lease |
| `planned` | before `maybeAct` | `LaunchActor` (the write-ahead row) or `SkipActor` |
| `acting` | awaiting the Actor | `FinishActor`, `FinishLost`; second look at the lease |
| `guarding` | awaiting the protected-path gate, the commit and the dirty check | `Guard`; third look |
| `writing` | | `SaveSnapshot` |
| `verifying` | | `SaveVerifications` |
| `publishing` | awaiting `publish()` | `EndPublish` (a manual step holds the decision) |
| `recording` | | `SaveDecision` |
| `settling` | | `SetStatus` |
| `releasing` | the `finally` block | `ReleaseLease` |
| `dead` | killed | `Spawn`: a process with a new name |

One action is one SQLite statement or transaction with the synchronous code
around it. The source runs several of them without an await in between, but
another process may come in between any two statements, so each has its own
action. `Throw` leaves from any of these places for the `finally` block;
`Crash` may happen anywhere. `plan` is the observation and the action a tick
goes by; `seen` is the row's reconciles as read at the entrance, kept apart from
`Len(snapshots)` because the code keeps it: the difference is one of the hazards.

The lease column is `leaseLeft`, the time to `lease_until`, so that the clock is
bounded: 0 is `lease_until = now`, -1 is any time after. `acquireLease` takes
the lease only when `lease_until < now`, `holdsLease` asks for
`lease_until > now`; the model keeps the difference at equality.

Abstractions. Facts are a digest (`digestOf`), the rest of the observation a
member of `Observations`: are there gaps, what is unresolved, how often the last
attempt was repeated, what the review says. Prompts, rationales and costs are
left out. A process keeps nothing across runs. Git, GitHub and agents appear as
the outcomes a tick can see: throws, holds, failed or interrupted Actors, a
guard that stops, work that is left uncommitted. A start that is refused because
there is nothing to do changes nothing, so it is no action. The status a tick
hands to `nextStatus` is one that is not terminal (the entrance saw to that) and
`nextStatus` asks nothing else of it: it is the constant `SeenStatus`.

### How `Publish` corresponds to the code

| `pc` | place | next action |
|---|---|---|
| `idle` | no tick in `publish()` | `BeginPublish`: from the lease to the call of `publish()`, with `--report`, going by a row read now or earlier (`Rows`) |
| `ensuring` | `ensurePullRequest` | `KeepBack` (gate), `HoldPush` (manual), `NothingToPush`, `Push`, `PushFails` |
| `finding` | awaiting `findPullRequest` | `Find` (found, held, or to be created), `FindFails` |
| `creating` | awaiting `createPullRequest` | `Create`, `CreateUnanswered`, `CreateRefused` |
| `commenting` | before `addComment` | `Comment`, which also covers the skip and the failure |
| `registering` | back in `tick()` | `Register`: `setObserveTarget` |
| `recording` | | `SaveDecision`: `publishHeldDecision`, `saveDecision` |
| `settling` | | `SetStatus`: `nextStatus` of the status in the row that was read |

A call that throws may have taken effect (`PushFails`, `CreateUnanswered`), and
`Crash` may come in any place. A digest is what else was observed and the number
of the pull request in the facts, which is the carried one when it cannot be
read. `log` is the last decision row, all that publishing reads of the table; whether the
status is terminal is `closed`, and after a death between the two writes a COMPLETE
is in the log of a Goal that is open, whose next tick publishes.

A process reads the row before it asks for the lease: `ReadRow` puts the numbers of
an open Goal's row into `waiting` while another one ticks, and a later tick may go by
them, also after that other one completed the Goal. What it observes, writes back and
settles then follows the old row: `SetStatus` may open a closed Goal again. A row stays in `waiting` until `GiveUp`, and may be gone by more than once:
several processes may have read the same. What is read between two ticks is no other
than what the next tick reads itself (a command line in between is `Overlapping`).

`told`, `wrote` (in this tick) and `overtaken` are history: what was told to a human,
and whether some tick went by a row that had been written since it was read.

`TypeTarget` and `WriteTarget` are `ent run --pr --issue`, two statements before
its own tick asks for the lease. GitHub is assumed to let a second pull request
of a branch be opened, as `publish()` does; where the controller is to open the
pull request, humans are assumed not to.

`PublishedBranch` is what the comments of the code promise of all this to somebody
who sees only the remote, GitHub, the row and the verdicts: a round begins, has
sent the branch, has found no difference or has failed (`way`), says what it came to
(`verdict`), and then closes the Goal or leaves it open; it may die before either.
Nobody is let in once the Goal is closed (`Enter`); those who were before may be many,
and while one of them is there (`admitted`) rounds go on. `Publish!Way` reads the round
off `pc`, `held` and `skipped`, `Publish!Admitted` the rest off `pc` and `waiting`. One step
of the tick is at most one step of the round; looking and commenting cannot be seen.

### How `Evidence` corresponds to the code

A *version* is the content of the implementer's worktree and, once committed, the
commit. `tree`, `head` and `remote` say which version the files, the checked-out
commit and the head of the pull request are; the difference between them is what
the module is about.

| `pc` | place | next action |
|---|---|---|
| `idle` | between ticks | `ObserveLocal`: head, leftovers, latest review |
| `local` | in `observe()` | `ObserveGitHub`: pull request, its CI and threads |
| `observed` | in `reconcile()` | `Reconcile`: stale facts expire, the new ones are laid over them, criteria are verified, `decide()` |
| `decided` | before `maybeAct` | `NoAct`, `NotLaunched`, `RunFails`, `Implement`, `Review` |
| `acted` | | `Guard`: `guardedDecision` |
| `guarded` | | `CommitVerifiedWork` or `LeaveUncommitted` (with `uncommittedDecision`) |
| `settled` | | `SaveSnapshot`, less the criteria `pendingReviewCriteria` withholds |
| `saved` | in `publish()` | `Push` or `PushNothing` |
| `published` | | `Record`: decision and status |

Facts are a function from their keys, `Absent` where the code has none. Every
read of a Port may fail or answer nothing, independently of the others. People
edit and commit in the worktree between any two of these steps (`Edit`,
`Commit`), the Actor writes and commits what it likes, and a process may die in
any place. `unsaved` (work of the Actor that no commit holds), `ranOn` (the
version the command ran on), `basis` (what a COMPLETE was decided on) and `moved`
(the Actor committed in this tick) are history: no action reads them.

Assumptions the module makes of the world: the reviewer names the commit it was
given to read; people do not write to protected paths; the same commit always
gets the same conclusion from CI (until it runs again, when it has none). A facts
key or a Port that no declared criterion depends on is not read. What a tick
observed is let go of after `Reconcile`, and the decision is reduced to what the
rest of the tick tells apart (`Essence`).

### How `Session` corresponds to the code

| `pc` | place | next action |
|---|---|---|
| `idle` | no tick, or one that sleeps or waits for the lease | `ReadRow`: the Goal is awake; `BeginTick`: the lease is taken and the guards of `decide()` all passed; `StopAtGuard`: one did not |
| `asking` | head of the loop in `askLlm` | `AskLlm`, or `GiveUp` after the last attempt |
| `hearing` | in the LLM's session | a message of `Claude` or `Codex`; its end is `LlmReturns` |
| `answered` | an output was returned | `Adopt`, `Reject`, `Illegible` |
| `launching` | an ACT was decided | `Launch` (row `starting`) or `DoNotLaunch` |
| `preparing` | before the session | `StartActor`, `NoWorktree` |
| `acting` | in the Actor's session | messages; its end is `ActorReturns` |
| `settled` | behind ACT | `Judge`: `guardedDecision`, `actorUsageLimitDecision`, `uncommittedDecision` |
| `publishing` | in `publish()` | `EndTick`: `publishHeldDecision`, `saveDecision`, `setStatus` |

Of Claude Code each message that matters is an action as it arrives
(`rate_limit_event`, result, a throw of the SDK, the end of the stream); of the
Codex CLI, whose output is read after the process has ended, the events are
gathered and judged at the end with exit code and stderr. `heard` is what the
session has said so far. `Abort` is the signal; time passes at any moment, and a
session may outlast it. `Die` ends the tick anywhere, also because `holdsLease` finds
the lease lost.

The time of a limit goes a long way: it is in the `PortError`, then in the Run or in
the Decision (`until`), and only `setStatus` at the very end writes it into the row
(`resume`), if what was settled on is still the wait: `Guarded`, `Uncommitted` and
`PublishHeld` may have replaced it, and the row then says NULL. `readers` are those who
have found the Goal awake and may yet get the lease, before or after the row was last
written. `lifts`, `refused` and `lost` are the world's side and history: when the provider
will serve again, whether it refused this tick, and what undid the sleep.

### How `Attempts` corresponds to the code

The three tables are sequences of rows with their times; `ClosingRound` and
`HeadShaAt` are the searches of `buildAttempts`. Ticks go through `idle`,
`deciding`, `acting`, `saving`, `saved`. `BeginTick` stands for the delivery of
the copy, the reclaim of orphans, and OBSERVE and VERIFY, of which the store or
the head may be unreadable. The clock advances with each tick; from OBSERVE to
the start of the Actor it moves by `Pace`, which may be 0: two rows may carry the
same time. What VERIFY found is one of `Results` or `Passed`, and a criterion on
the review, whose text names two commits, is kept apart, because the signature of
an attempt contains that text. `rounds` also carries, as history, the tick that
wrote a round and the head it observed.

### How `Dependencies` corresponds to the code

| `pc` | place in `plan()` | next action |
|---|---|---|
| `idle` | not running | `ReadGoals` |
| `asking` | awaiting the planner | `Adopt` an answer, `Reject` it (the last one ends the command), `PlannerThrows` |
| `probing` | commands run in the checkout | `Probe`, `AcceptPlan` (also a dry run, and a Goal that is done already) |
| `writing` | | `WriteGoalFile`, `WriteRefused` (the file is there already) |

`PlanDies` ends it in any place.

Around it the commands of `Procs`, each in its place `at`:

| `at` | place | next action |
|---|---|---|
| `idle` | no command | `StartCheck`, `ReadRow`, `AbandonCheck`: the row is read |
| `starting`, `abandoning` | between check and write | `StartWrite`, `AbandonWrite` |
| `gate` | in `dependencyGate` | `LookAt` one dependency after the other, `PassGate` |
| `passed` | the rest of the tick | `EndTick`: a status is written, whatever the row says by now |

`Stop` ends each in any place: at the gate, for want of the lease, by an exception or a
death. No lease is modelled, since the row and the gate are read before it is taken:
any number of ticks of one Goal may be past the gate, more than the lease lets
through. COMPLETED is not final here, as it is not in the code (run `terminal`): a late
tick, `ent start` or `ent abandon` may write over it. `done` is the history of the Goals
that were ever COMPLETED.

`Declare` and `ChangeCheckout` are the people. `Behind(edges, g)` is what g
depends on, directly or through others, given as the meeting of all closed sets
around its dependencies, which is what the depth-first search of `findCycles`
computes; the theorems never have to follow a path. A declaration is rewritten
only while its Goal has no row, and not while an `ent run` that has loaded it finds
that row: what a started Goal depends on is taken as settled. The checks of
`ent start` (`NothingToDo`, the registration, the look at the status) are one step,
its write of ACTIVE is another.

### How `GithubReading` corresponds to the code

A behaviour is about CI or about approval (`subject`), since the two reads share
nothing. For CI, `ListRuns` is the first request (one page, and the total that
tells whether there are more), `ReadJobs` one request for each run that may have
failed, `EndCi` the count; workflow runs are triggered, held, concluded, started
again and deleted in between. For approval, `LoadReviews`, `LoadComments` and one
`AskAccess` per person asked, with the answer remembered; people review, dismiss,
comment and gain or lose access in between. `open`, `red` and `redone` are
history.

### How `GuardWindow` corresponds to the code

| `at` | place in `tick()` | next action |
|---|---|---|
| `idle` | between ticks | `TickBegins`: orphan Runs are reclaimed, `guard_base_sha` is read |
| `before` | `observedRepoState` before ACT | `ReadBefore`, one reading at a time; `BaselineFails` |
| `deciding` | `reconcile()` and what leads to ACT | `StartRun`, or `NoActor` |
| `acting` | in the Actor's session | `FinishRun` |
| `inspecting` | entrance of `guardedDecision` | `NoBase`, `CheckDrift`, `ListRunsThrows` |
| `primary`, `pushed` | `changedPaths` of the tree the Actor ran in, then of the one that is pushed | `LookAtPrimary`, `LookAtPushed`, `ChangedPathsThrows` |
| `after` | `observedRepoState` again | `NoBaseline`, `ReadAfter`, `AfterFails`, `Compare` |
| `judged` | the decision stands | `TickEnds` |

`TickLost` ends it in any place. Everybody else may write between any two of
these steps, between two readings of one observation in particular:
`WriteElsewhere` is what the gate must be blind to (heartbeats, checkpoints, other
Goals), `Foreign` what it must see, be it the Actor reaching beyond its tree, a
person or a command on this Goal. A reading is a function from what has been
read so far. `GuardDigest` is the projection whose hash the code compares: equal
hashes are taken for equal projections. A file of the checkout is its content on
the disk and as last committed, and whether the index hides it; `RepoDirtyState`
says what git status shows of it. `runs` are the columns of a row that the digest
and `ownRunDrift` read. `then` (what there was when it was read), `touched` (somebody
has written since the tick began) and `standing` (what was changed between the
baseline and the end of ACT, and not written again since) are history.

A verdict is `as decided`, `protected_path_touched` or `guard_unavailable`. What the
tick does on the strength of it is left to `Evidence` and `Publish`; `TickEnds`
writes rows whatever it is.

### Constants that state an assumption

- `Timely`: no clock tick passes while a timer is due or while a process is
  between two synchronous statements. A lease lasts minutes; a stopped process
  (SIGSTOP, a suspended laptop) breaks it, and then the code makes no promise.
- `Bounded`: no tick lasts longer than its `MAX_LEASE_RENEWALS` heartbeats (96
  periods). Runs with `Bounded = FALSE` say what remains true when one does.
- `MaxMissed`: how many heartbeats in a row may fail to reach the database. With
  the period at half a lease the code survives one, not two.
- `Explored` and `MaxRounds` only bound the model: the actions a tick may settle
  on, and the reconciles after which no new tick starts.
- `Overlapping` (in `Publish`): `ent run --pr` or `--issue` is typed while
  another tick runs. `MaxWaiting` bounds the rows read by those without the lease.
- `Procs` (in `Dependencies`): how many commands are under way at once.
- `Pace` (in `Attempts`): 0 lets the Actor start in the instant of the
  observation, the case the comparison of times is about.
- `MaxTime`, `MaxTicks`, `MaxForeign`, `MaxFaults`, `MaxEdits`, `MaxRuns`, `MaxReviews`,
  `MaxComments`, `MaxCommits`, `MaxPRs`, `MaxWaiting` bound what a run explores; no theorem
  asks more of them than to be numbers.

## 3. Runs

| Run | Question | Answer |
|---|---|---|
| `normal` | two processes, crashes, signals, throws, a missed heartbeat, an Actor per round, `ent start` and `ent abandon` at any moment | one reconcile at a time; Actor budget held; orphans settled before they are counted; settled outcomes final; the tables are the log of one process |
| `loop` | three rounds, two observations, only acts and stops | loop detection, `max_reconciles` and `max_consecutive_failures` stop the Actor in spite of crashes |
| `overrun` | ticks that outlive their heartbeats, heartbeats that fail until the lease is lost, two ticks at once, a Goal registered by `ent get` | still no snapshot without an unexpired lease; a settled Run is changed only by the process that launched it, once, when it was reclaimed while its Actor ran |
| `liveness` | one process may die or hang anywhere, another is called again and again | the lease passes on; the orphan Run is settled |
| `publish` | any call fails, is not answered, or the process dies after it; a notice collapses or goes to `--report`; people open and close pull requests; ticks that go by a row another one wrote meanwhile; three kinds of decision, three declarations | one pull request; no silent completion without one; no standing stop untold; seen from outside it is `PublishedBranch`; committed work is pushed and an open pull request is found, if not every call fails |
| `evidence` | reads that fail one by one, an Actor that writes and commits as it likes, people in its tree, death anywhere; four sets of criteria | a CI conclusion goes with its head; a completion rests on a command run in its own tick and a review of the head it saw; nothing is left behind, nothing protected is pushed |
| `session` | every stream of either provider, rejected and illegible answers, refusals, throttling, aborts, time; death at any point, gates that replace the decision, ticks that read the row before it was last written | a Run is completed only if its agent said so; only an announced limit puts the Goal to sleep, and it sleeps until the limit is lifted, unless one of the last three undid it; all of it is one choice from `LlmChoices` |
| `attempts` | ticks that die, an unreadable store, an unreadable head, Actors as fast as the clock | attempts are judged by later ticks and with the right commits; a stuck implementer is stopped at most one attempt late, and one more per lost tick; no copy lies |
| `plan` | `ent plan` next to people who declare Goals and change the checkout; two processes that start, run and abandon those Goals, with any delay between what they read and what they write | a plan is written whole or somebody interfered; it can be carried out; no Goal completes before everything behind it has; whoever waits waits for somebody who can run |
| `readings` | CI that is triggered, held, restarted and deleted, people who review, take back, dismiss and lose access, between the requests of one read; and the state DB, the checkout and its hooks, written by the controller and by others between the readings of the gate | a count of 0 failed jobs vouches for every run that counts; an approval is by somebody entitled, against nobody's standing request for changes; the gate never goes off over the controller's own writes, and a tick that goes on as decided hides no change that stands |
| `terminal`, `unpublished` | what a comment promises | violated: section 6 |

Every property has a mutant: the definition next to it in its module, introduced
as "Mutant", is the modelled code with a plausible bug, and TLC finds the
property violated once it takes the place of the original.

Bounds.

*`LeasedTick`.* Two processes: every hazard of the lease is between a holder and one
other, and a third could only stand in for a process that died, which `Spawn`
already does. A lease of 2 clock ticks and a heartbeat of 1 are the smallest
numbers with the code's ratio; they distinguish "expires now", "expired" and
"one beat left". `MaxRenewals = 2` leaves room for a heartbeat that is missed
and one that makes up for it. Two rounds suffice for a round that begins while
an older one is unfinished; three for loop detection with
`max_unchanged_reconciles = 2`. The Actor budget is 1 or 2, so it is reached.
`normal` explores `ACT` and `COMPLETE`, the one that stays `ACTIVE` and the one
that ends it; `overrun` adds the sleeping `WAIT` and a held push; `loop` has only
`ACT` and the stops that are its subject, and both its processes and its digests
are interchangeable (nothing in the model chooses among them), so symmetry is
sound. Liveness is checked without symmetry.

*`Publish`.* Two commits are enough for work that comes after the pull request,
and two pull requests for a second one next to a lost first. One value of
`Observed` suffices because digests also differ by the pull request in them; the
decisions are one of each kind that `publish()` tells apart. One row read without the
lease is enough for a tick that goes by an old row, and it may be gone by twice.

*`Evidence`.* The criteria are taken in four sets, such that each criterion occurs
and those whose facts meet occur together (a command with CI, whose conclusion
hangs on what the command tests; a command with a review, whose verdict the
controller's own commit outdates). Two versions are the base and the work; the
set with the command alone has a third one, which touches a protected path, and
people in the tree. The theorems hold for any sets, any versions, and people
everywhere. One kind of Port error is tried, since `decide()` treats both alike
here.

*`Session`.* Two providers, three attempts as in the code, and a clock from 0 to 3 with
a default wait of 1: resets at 1 (the default at first, past already later) and 3
(beyond it) are the cases of a time the provider may name; none named is another.

*`Attempts`.* Four ticks: two attempts that fail alike, the tick that is blind to the
second one, and one that sees it. Two faults are enough to lose a tick on either
side of an attempt. A copy of two attempts can lag behind a ledger of three. The
other guards are given room not to stop the Actor first.

*`Dependencies`.* Three slugs and the reserved one: a circle through an old
declaration, a new one and a third, and a chain of two dependencies. Four edits, so
that all three may be declared, before, during and after a plan, and one rewritten or
the checkout changed. One command with an outcome that may change. One retry of the
planner. Two processes: one that is late and one that writes meanwhile. A behaviour is
about `ent plan` or about the Goals (`about`), people being in both: what the commands
on Goals do to rows means nothing to `plan()`, and a file it writes is to them like one
that a person wrote. Slugs and processes are interchangeable, so symmetry is sound.

*`GithubReading`.* A page of 2 and up to 3 runs, so that a run may be off the page;
three reviews, so that a person may ask for changes, approve, and change its mind,
or a second one may; one comment.

*`GuardWindow`.* Two contents, so that a change may be undone; two Runs, one of this
tick and one of an earlier tick or of an intruder; one tick, since a tick keeps
nothing of the one before but what the initial states have (a finished review or
none, a checkout that is clean, dirty or hidden from git); two writes by others, of
which one may undo the other or fall between two readings. Reviewers and
investigators are launched: one has a log that the digest takes in, the other a
tree of its own, and an implementer has neither. One part of the DB stands for all
three, which the digest treats alike. Contents and Runs are interchangeable, so
symmetry is sound. A behaviour of `readings` is about one of the two modules
(`about`); the other rests in one state.

Deadlock. `CHECK_DEADLOCK FALSE` is given where the model really stops: all
rounds, ticks or edits used up, a read that was read, or the Goal in a terminal
state and nothing typed any more.

## 4. Fairness

`LeasedTick!FairSpec` is used by `liveness`. What it asks for:

- the clock advances (strongly fair: other steps may interleave for ever, time
  passes all the same) and sleeping Goals wake up;
- timers fire and synchronous code does not stop half-way without the process
  dying (weakly fair): Node's event loop;
- one process in `Steady` is not killed, its awaits return, and it does not come
  for ever only at moments when the lease is taken (strong fairness of the
  entrance): cron calling `ent run` at arbitrary moments.

Nothing is asked of the other process: its Actor may hang for good, it may die
anywhere and need not come back. Actors have no deadline in `tick()` other than
the heartbeat limit, which is exactly what `LeasePassesOn` rests on: without the
count of renewals a hung Actor would keep its own lease alive for ever (the
mutant `RenewForever`).

`Publish!FairSpec` is used by `publish`. Ticks come again and again, also
such as the protected-path gate lets through, and every call and every write
that can succeed does so infinitely often if it is tried infinitely often
(strong fairness): faults and deaths may recur for ever, but not each time. Among
the ticks that do not die must be one that has found a pull request, or the
number would never be written (`News`). What cannot fail, or whose failure ends the
tick all the same, only has to be done some time (weak fairness). No process is
assumed to stop reading rows, or to let go of one. Nothing is asked of humans, except that a command
line that was typed runs.

The other modules assume no fairness. That a waiting Goal waits for somebody who
can run (`WaitsForSomebody`), and that an implementer is stopped within a number
of attempts (`StuckImplementerStopped`), are safety properties on purpose: nobody
has to start a Goal or call `ent run`.

## 5. Proofs

Liveness, ENABLED and what recursive definitions compute are beyond the prover;
everything below is proved to the last step, for every value of the constants
that meets the named assumptions of the modules.

### `LeasedTick_proofs` and `Publish_proofs`

`LeasedTick_proofs` proves, for every number of processes, every budget, every
lease parameter with `2 * Beat <= LeaseTerm`, and unbounded rounds and crashes:

| Theorem | Assumes | States |
|---|---|---|
| `TypeCorrect` | | `[]TypeOK` |
| `OneReconcile` | `Timely`, `MaxMissed <= 1` | `[]OneReconcilePerGoal` |
| `SnapshotNeedsLease` | `Timely` | `SnapshotUnderLease` |
| `BudgetIsHeld` | `Timely`, `Bounded`, `MaxMissed <= 1` | `[]BudgetHeld` |
| `NoOrphanInTick` | the same | `[]OnlyOwnRunStarting` |
| `SettledStaysSettled` | the same | `SettledRunIsFinal` |
| `TablesAreALog` | the same | `LogSpec`, the refinement of `ReconcileLog` |
| `LoopIsDetected` | the same | `[]NoActOnUnchanged` |
| `NoRunOnFailures` | the same | `NoRunAfterFailures` |
| `FewLateActs` | the same, finitely many processes | `[]FewActsAfterReconciles` |
| `ReclaimIsCorrectedByOwner` | | `OnlyReclaimIsCorrected` |

`Publish_proofs` proves, for any number of commits, pull requests and observations:

| Theorem | Assumes | States |
|---|---|---|
| `PublishTypeCorrect` | | `[]TypeOK` |
| `OnePullRequestOnly` | | `[]OnePullRequest` |
| `CompletionHasPullRequest` | | `[]CompleteHasPullRequest` |
| `StandingStopIsTold` | `~Overlapping` | `[]StopTold`, which speaks of behaviours in which no tick was overtaken |
| `PublishKeepsItsPromise` | no decision before `publish()` says that a step was declared manual | `BranchSpec`, the refinement of `PublishedBranch` |

The argument. *Lease*: while a process's heartbeat runs, it owns the lease, and
what is left of the lease is at least what is left to the next heartbeat plus
one period (none, if the last heartbeat was missed): `LeaseKept` with `Slack`.
This is the strengthening that makes mutual exclusion inductive: mutual
exclusion by itself says nothing about the time left, and it is the time left
that the next clock tick consumes. From it, no second process can take the
lease (`KeepsOthersOut`), hence `OneReconcile`. *Alone*: with bounded ticks
every process in a tick has a running heartbeat (`Renewing`), so the body of
`tick()` is a critical section (`Alone`). *Consequences*: the count of Runs is
still right when the Actor is launched (`BudgetInv`); no row is starting but
that of the tick (`RunsInv`); the current round is the one the process began, on
its own observation (`LogInv`), which is the refinement. *Snapshots*
need none of this: they are written synchronously after a look at the lease
(`WritingHolds`), so they are safe even when heartbeats have stopped. *Late outcomes*:
`SettledRunIsFinal` rests on the critical section and is false without it: TLC finds
it violated under the constants of `overrun`, where a late `finishRun` writes over what
a reclaim wrote. What remains needs no assumption at all (`OwnRunInv`): a process in an
Actor names a row that it launched itself, which says starting or has been reclaimed.

*The other limits*: inside the critical section what `usageOf` counted is still
what the tables say when the decision is taken, and the grounds of the decision
still hold when the Run and the decision are written (`GroundsInv`); that gives
loop detection and the limit on failures. `max_reconciles` is different, because
its count comes from the row that is read *before* the lease is taken. `LateInv`
charges every ACT past the limit to a process: a process is `Late` while it holds
a count from when there was still room, nobody becomes late once the limit is
reached, the process that wrote the last snapshot allowed is late no more, and
an ACT past the limit ends the lateness of the process that records it. Hence
fewer such ACTs than processes, and none with one process.

*Pull requests*: `OnePullRequest` is strengthened by what holds while one is about
to be created: none is open and nobody else opens one (`Creating`). `Secured`
says what `ensurePullRequest` leaves behind. *Notices*: a notice may be collapsed
because the previous tick recorded the same stop on the same digest; that this
one was told needs to know that its tick had a pull request to write to, so the
invariant `StopInv` ties the digest to the row (`RowKnows`): a pull request that
was ever in the facts is still in the row, and so in the row a tick goes by unless it
was overtaken. This is what `Overlapping` breaks.
*The promise*: to read a round off the place of the tick and off what
`ensurePullRequest` left behind, each cause must leave its own trace (`HeldFits`) and
the traces of the last tick must be gone (`Unset`); that the row names only pull
requests that exist needs that this holds of every copy of the number that is still
to be written, those in `waiting` and in a command line among them (`Existing`); and
that the status follows the verdict needs that a tick which is about to write its
status has said what it settled on (`Saved`, `ClosesOnComplete`). Who is let in is
decided when a row is read (`Rows`): reading it of a closed Goal too, as the mutant
does, makes rounds begin after the Goal was closed and everybody had left. The hypothesis holds of the code:
`publishHeldDecision` is the only place that produces these two reasons, and the LLM
is offered neither (`Decide!LlmChoices`).

### `Evidence_proofs`

For any declarations, versions, protected versions, Port errors and any people:

| Theorem | States |
|---|---|
| `ProtectedStaysHome` | `[]ProtectedNeverPushed` |
| `NothingLeftBehind` | `[]NoWorkLeftBehind` |
| `ConclusionsFitTheirHeads` | `[]ConclusionOfItsHead` |
| `CommandsPassNow` | `[]CommandPassedNow` |
| `ReviewsAreOfThisHead` | `[]ReviewOfThisHead` |
| `UnreadCommitsAreNotPassed` | `[]NoReviewOfUnreadCommits` |
| `TypeCorrect` | `[]TypeOK` |

Each has an invariant of its own. `ProtectedInv`: between the gate and the push no
file, committed or not, touches a protected path, because the gate looked at both
and the people in the model do not touch them; a gate that looked at the files
only would lose the commit of an Actor that reverted its edit. `WorkInv`: a tick
that may still complete has either seen the leftovers or met a failed read that
keeps it from completing. `FactsInv`: the conclusion among facts goes with the
head among the same facts, through the three layers (observed, merged, carried);
it needs that nothing is known of a review, or of a criterion that is not
declared, before there is one. `GroundsInv`: while nothing is unresolved the reads
of the tick are complete, so that the facts that count are of this tick. The types
are no formality here: a fact is a function on the keys that are known, its value
depends on the key, and `observe`, `mergeFacts`, `expireStaleFacts` and `verify` take
such functions apart and put them together (`FactsStayFacts`).

### `Session_proofs`

For any number of retries, any waits and any reset times:

| Theorem | States |
|---|---|
| `TypeCorrect` | `[]TypeOK` |
| `CompletedReported` | `[]CompletedWasReported` |
| `SleepsForLimit` | `[]SleepsOnlyForLimit` |
| `LimitsSleptThrough` | `LimitSleptThrough` |
| `SessionImplementsChoice` | `ChoiceSpec`, the refinement of `LlmChoice` |
| `OfferIsAdopted` | whatever the prompt offers in a context, the loop adopts |

Eleven ways for a session to end become two steps of the tick (`EndingStep`), for
which `TickInv` says what place, decision and Run have to do with each other.
`SleepInv`: an announced limit that is not lifted yet is either written in the row,
and then all who found the Goal awake had read it before; or on its way there, in
the Run or the decision of the tick that met it; or it was lost, by one of the three
events `lost` stands for. The invariant has to follow `until` through `Judge` and
`EndTick`, each of which may drop it.

### `Attempts_proofs`

For any `max_unchanged_reconciles`, any pace of the clock, any number of ticks and faults:

| Theorem | States |
|---|---|
| `TypeCorrect` | `[]TypeOK` |
| `NeverJudgedByItsOwnTick` | `[]JudgedByALaterTick` |
| `ViewNeverLies` | `[]ViewAgreesWithLedger` |
| `RepetitionIsStopped` | `[]StuckImplementerStopped` |

The ledger compares times; the argument is about ticks. `TimeInv` is the bridge:
a round is younger than the start of a Run exactly if its tick is a later one.
That is inductive only with `InTick`, which places the rows of the tick under way
against its own `observedAt`. `SnapInv` does the same for heads: snapshots are in
the order of their times, only the first ones can lack a head, and no snapshot
comes between a round and a Run of the same tick. For the copy (`ViewInv`) it is
enough that a closed attempt keeps its round: rounds are only appended, and the
first younger one stays the first.

That repetition is stopped is an argument by counting (`StuckInv`). Not the
repeated attempts are counted but these together with the open ones (`Counted`),
which nothing but a new Run lets grow: a saved round turns open attempts into
judged ones, repeated or not. A new Run is added behind the guard, where the
repeated ones are fewer than the limit and the open ones at most one for each
tick that died; or by a tick that could not see the ledger, which is a fault of
its own. Repeated attempts alone are no inductive bound: one round may judge all
the attempts that dead ticks have left open.

### `Dependencies_proofs`

For any finite set of Goals, any answers of a planner, any number of edits:

| Theorem | States |
|---|---|
| `OrderKept` | `[]CompletedInOrder` |
| `GatesNeverDeadlock` | `[]WaitsForSomebody` |
| `WholeOrNothing` | `[]WrittenWholeOrNothing` |
| `PlansAreSound` | `[]PlanCanBeCarriedOut` |

What the rows say at some moment is no ground for an order, since they may be written
over; that a Goal *was* completed stays true. So `OrderInv` speaks of `done`: whoever
is COMPLETED now is in it, a tick at the gate has looked only at Goals in it, one that
is past the gate has all its direct dependencies in it, and so has every Goal in it
(`OrderStep`). A declaration cannot change under a tick, since its Goal has been
started (`Started`). That the order reaches all the way down needs no
induction, since the Goals in `done` are then a closed set, and what is behind a
Goal lies in every closed set around it. `GatesNeverDeadlock` is the opposite
direction: among the Goals somebody waits for, none behind itself, one has nobody
of them behind it, since "behind" orders them strictly and a finite set has a
least element (`OneWaitsForNoneOfThem`, by well-foundedness of strict inclusion).
`PlanInv` follows a plan from what was read to the last file: while nobody
interferes, what was judged of the answer together with `existing` holds of
`.goals/` together with the answer (`Good`), in particular that dropping edges
to ids nobody has lost no circle (`NoCycleIsLost`).

### `GithubReading_proofs`

For any number of runs, people, reviews and comments, and any size of a page:

| Theorem | States |
|---|---|
| `ZeroVouchesForAll` | `[]ZeroIsGreen` |
| `ApprovalsAreGenuine` | `[]ApprovalIsGenuine` |

`CountInv` accounts for every run that was red when the list was made: it was
started again or deleted, found to have failed, or is still to be asked for and
as it was. `ApprovalInv` holds what was read still, and an approval to the
person whose access was asked.

### `GuardWindow_proofs`

For any contents, parts of the DB, Runs and roles, and any number of ticks and
writes by others:

| Theorem | States |
|---|---|
| `WindowTypes` | `[]TypeInv` |
| `NoFalseAlarms` | `[]NoFalseAlarm` |
| `NothingSlips` | `[]NothingSlipsThrough` |

`QuietInv`: as long as nobody else has written, whatever was read is what would be
read now. The step that could break it is the controller's own Run: the digest
before ACT knows of no own Run and the one after it leaves it out, which comes to
the same because the id was free (`OwnRunLeftOut`). `SlipInv` is the converse:
whatever stands changed differs from what there was at the baseline, so its reading
differs from the baseline's (`ChangeIsRead`), now and once it has been read again;
the tick's own Run is excepted, for it has been looked at by `ownRunDrift` by then.

### Only model-checked

Liveness: `LeasePassesOn`, `OrphanSettled`, `PullRequestFound` and
`CommittedWorkArrives`, which need fairness and ENABLED. Every other property of a
passing run is a theorem. The hypotheses on the clock are met by the runs that
check the same properties; run `overrun` shows what remains without `Bounded`.

## 6. Where the code and its words differ

Two differences are shown by a run:

- **`terminal`**: `goal-state.ts:29` says nothing leaves a terminal state. The
  status is read before the lease is taken and written at the end of the tick,
  and `ent abandon` looks at a lease that has not been taken yet: `ABANDONED`
  becomes `ACTIVE` again. The same happens between two commands.
- **`unpublished`**: `publishHeldDecision` stops a COMPLETE without a pull
  request, because (`controller/index.ts:1121`) it would make the verdict
  meaningless. A push or a creation that throws is swallowed by `publish()`, and
  then COMPLETE stands: the Goal is terminal, its commits are never pushed.

The others were met while modelling, and the models follow the code.

*Lease, commands, store*

- `controller/index.ts:191` promises that a tick which loses the lease writes
  none of snapshot, verifications, decision, status. The last look at the lease
  is before `saveSnapshot`; then `publish()` is awaited, and decision and status
  are written whoever holds the lease by then.
- `ent get` registers the Goal it shows as `DRAFT`, and `ent run` takes any row
  for the approval that `cli-contract.test.ts:133` asks for; `nothingToDo` was
  never asked. No property says that a Run needs `ent start`: only without `ent get`
  would it hold.
- `finishRun` names the row by its id alone. A process that lost its lease in ACT
  writes its outcome over the `interrupted` that the reclaim of the next owner wrote,
  which may have counted it already.
- Since the row is read before the lease, a tick may run that would be turned away by
  the row as it is: of a Goal that sleeps by now, or has been completed. It may write
  COMPLETED over, so that a completed Goal has one behind it that no longer is;
  `CompletedInOrder` speaks of what was ever completed.
- The refusal of `ent abandon` (`cli.ts:570`) says to try again after the lease
  expires, but only looks at the owner, which a crash leaves in the row.
- `cli.ts:371` says that of `--pr` and `--issue` the one not given keeps its
  value. The tick that registers a pull request writes back the issue number it
  read at its entrance, over one that was typed in between.

*Publishing*

- `docs/design.md:2398` says that while a Goal is stopped by the uncommitted-work
  gate every tick comments, because writing only the first time leaves the pull
  request silent; `DEDUP_WHEN_REPEATED` collapses exactly these.
- `publish/index.ts:623` says that the tick after a stop is idle because of
  `WAITING_HUMAN`; `tick()` is idle only in terminal states, while a WAIT sleeps,
  before its dependencies and while another tick holds the lease, so the
  repetition that the collapsing is about does happen.

- A process that dies between `saveDecision` and `setStatus` leaves a decision COMPLETE
  in a Goal whose status is ACTIVE: the next tick runs and publishes. A tick that read
  the row before another one completed the Goal publishes as well, and its
  `setStatus`, working on the old status, may open the Goal again.
- Such a tick goes by an old `prNumber`: where the facts know the pull request by then
  and its gate stops it, it comments nowhere, and a later tick takes the stop for a
  repetition. `StopTold` excepts it (`overtaken`).

*Evidence*

- A pull request that answers 404 leaves the carried CI and thread facts alone,
  as does one that could not be read: `headShaChanged` needs both heads. And a
  conclusion stays carried while CI of the same head runs again.
- No fact ties the conclusion of CI to the local head: a criterion on CI may pass
  for what was pushed before the commit that the same tick completes on.
- A COMPLETE may itself commit work (`commitVerifiedWork` asks only that it is no
  ESCALATE): what no review has read is then pushed by the completing tick.
- A crash between ACT and `saveSnapshot` leaves no trace of the tick but the Run
  and the worktree; the next tick starts from the facts of the one before.

*The gate*

Here code and words agree: `NothingSlipsThrough` and `NoFalseAlarm` hold of what the
gate compares, and what they except are the gaps that `docs/design.md:2184` and
the comments at `adapters/local.ts:475` name themselves:

- a commit in the controller's checkout moves `HEAD`, and what is committed is not
  dirty: `repoDirtyState` shows neither, so that a file changed and committed there
  during ACT is not reported;
- a file that the index hides (`assume-unchanged`) is reported for its being hidden;
  one that was hidden before may change unseen;
- a change that is undone before the second observation is none, and one that a
  person made while the Actor ran counts as the Actor's (`touched`);
- of the tick's own Run only what `finishRun` never writes is compared.

*Agents*

- The branch `lastStatus === "rejected"` of `throwIfUsageLimit` (`claude.ts:363`)
  cannot be reached: a rejected `rate_limit_event` throws before it is
  remembered. `guard-rules.ts:128` counts on it as a path without a reset time.
- A reset time in the past is taken over from Claude Code, rejected from Codex.
- A rejected `rate_limit_event` after a successful result makes the Run a
  failure, and so does an `error` event of Codex from which its session recovered.
- The default wait counts from when the decision began; a session may outlast
  it, and then the Goal does not sleep at all.
- `docs/design.md:811` has a Goal sleep until the limit is lifted, and
  `docs/design.md:2359` counts WAIT(usage_limit) as the one decision that the gate
  on uncommitted work does not replace. It may be replaced all the same: the gate
  on protected paths turns it into an ESCALATE before it is asked for, and a
  step declared manual (`publishHeldDecision`) does afterwards. `resume_after` is then
  written NULL, and the next tick opens a session before the announced time; so it
  does when the tick dies before `setStatus`, or when the tick had read the row before.
  `LimitSleptThrough` names these three, and holds otherwise.

*Attempts*

- `repeated_attempt` stops one tick: the count is trailing, and what cannot be
  counted is skipped (`attempt.ts:241`), but the signature holds the text of the
  criterion on the review with its commits, so that an attempt after a new commit
  or a review is not the same as the one before, and the count starts again.
- A copy of the ledger stays in the worktree when the next delivery fails, and
  the newest attempt in it always reads as not verified yet.

*GitHub*

- A run that is started again or deleted between the list and the question for
  its jobs is counted as without failed jobs, although it had failed at the time
  of the list: `ZeroIsGreen` has to except these (`redone`).
- The jobs of a run are read as one page whose truncation is not looked at, and
  likewise only the first page of reviews and comments.
- A run that ended without any job (`startup_failure`), or all of whose jobs were
  cancelled or timed out, adds nothing to the count.
- A dismissed review is passed over, so an earlier opinion of the same person
  counts again.

*Plans*

- A circle that exists among declarations makes every plan be turned down,
  whatever it declares; a declaration that cannot be read counts as one without
  dependencies, so that a circle can be closed through it.
- Two plans, or a plan and a person, that write at the same time can together
  close a circle that neither saw, and leave half a plan when they use the same id.

## 7. What is not modelled

- *Goal declaration and configuration*: parsing and validation of YAML, a
  conversion without state. What they declare is a constant of the models.
- *Globs of protected paths, symbolic links and the encoding of rows for the
  digest*: data. A version does or does not touch a protected path, and different
  rows have different digests.
- *Prompts, rationales, artifacts, the text of evidence, of comments and of the
  ledger's copy*; the models keep what of them is read again.
- *Dry run and preview* change no state; a preview takes no lease, and may ask the LLM
  while a tick runs. *`llm_calls` and cost* are written and
  summed, nothing depends on them while a tick runs.
- *Adapters' I/O*: authentication, subprocesses, creation of worktrees, setup
  commands other than that they may fail, retries inside HTTP clients.
- *`doctor`, `init`, `inspect`, `cost`*: read and report. *Presentation and
  parsing of the command line*: formatting.
- *Factory rules*: pure functions of one pull request's data, without state or
  order, each covered by table tests; nothing of a tick reads them.
- *Wiring* beyond the lease owner and the length of the lease; *review plugin,
  repository scripts*: prompts and shell.

Within what is modelled: people do not write to protected paths, reviewers name
the commit they read, a declaration of a Goal that has a row is not rewritten,
and one tick of a Goal runs at a time outside `LeasedTick` and `Dependencies`.

## 8. What is left

1. That the modules of one tick fit together rests on shared definitions (`Decide`,
   `GoalStatus`) and on reading them side by side. Theorems could say it: that what
   `LeasedTick` lets a tick settle on (`Possible`, `Held`) includes what `Evidence` and
   `Publish` make of it.
2. What survives when a tick outlives its heartbeats (`Bounded` is false) is proved
   for snapshots, and for ticks as long as their heartbeats run (`OneReconcile`).
