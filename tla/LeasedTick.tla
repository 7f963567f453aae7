----------------------------- MODULE LeasedTick -----------------------------
(***************************************************************************)
(* Several processes run `ent run` on one Goal.  Each is one pass through  *)
(* tick() (packages/ent/src/controller/index.ts): read the row, take the   *)
(* lease, reclaim orphan Runs, observe and decide, launch the Actor behind *)
(* a write-ahead Run row, re-check the lease, and write snapshot,          *)
(* verifications, decision and status.  All of them share the tables of    *)
(* packages/ent/src/store/sqlite.ts.  A heartbeat timer renews the lease   *)
(* while the tick is suspended on an await.  Processes crash, time passes, *)
(* and humans type ent start, ent abandon and ent get at any moment.       *)
(*                                                                         *)
(* One action is one SQLite statement or transaction with the synchronous  *)
(* code around it, so that statements of different processes interleave.   *)
(* Facts, prompts and Git are abstracted to the digest of an observation   *)
(* and to the set of decisions it allows (module Decide).                  *)
(***************************************************************************)
EXTENDS Decide

CONSTANTS
  Workers,        (* processes that may run a tick                          *)
  NoWorker,       (* lease_owner IS NULL                                    *)
  Digests,        (* what digestOf(facts) may return                        *)
  NoDigest,       (* there is no decision row yet                           *)
  Observations,   (* the rest of an observation, see Decide                 *)
  ElapsedTimes,   (* values elapsedSecondsSince - waitedSeconds may take    *)
  Budget,         (* the budget declared by the Goal                        *)
  HeldSteps,      (* EscalateReasons of the publish steps declared manual   *)
  FirstStatuses,  (* whether ent start was typed before we look             *)
  Commands,       (* which of start, abandon and get humans type            *)
  LeaseTerm,      (* leaseSeconds, in ticks of the clock                    *)
  Beat,           (* heartbeat period: half of leaseSeconds                 *)
  MaxRenewals,    (* MAX_LEASE_RENEWALS                                     *)
  MaxMissed,      (* heartbeats in a row that may fail to reach the DB      *)
  Timely,         (* timers fire on time, synchronous code takes no time    *)
  Bounded,        (* no tick outlives its MaxRenewals heartbeats            *)
  Steady,         (* processes that no trouble befalls, see Fairness        *)
  Explored,       (* bound of the model: the actions a tick may settle on   *)
  MaxRounds       (* bound of the model: no tick starts after that many     *)

ASSUME WorkersAssumption == NoWorker \notin Workers
ASSUME DigestsAssumption == NoDigest \notin Digests
ASSUME LeaseAssumption   == /\ LeaseTerm \in Nat /\ Beat \in Nat \ {0}
                            /\ 2 * Beat <= LeaseTerm
                            /\ MaxRenewals \in Nat /\ MaxMissed \in Nat
ASSUME BudgetAssumption  == /\ Budget \in [ maxRuns : Nat, maxReconciles : Nat,
                                            maxFailures : Nat, maxUnchanged : Nat,
                                            wallClock : Int ]
                            /\ ElapsedTimes \subseteq Nat
                            /\ MaxRounds \in Nat
ASSUME InputsAssumption  ==
  /\ Observations \subseteq [ gaps : BOOLEAN, unresolved : SUBSET UnresolvedKinds,
                              repeated : Nat,
                              ctx : [ asksForReview : BOOLEAN, reviewedHead : BOOLEAN,
                                      changesRequested : BOOLEAN ] ]
  /\ HeldSteps \subseteq { "push_branch_declared_manual", "open_pull_request_declared_manual" }
  /\ FirstStatuses \subseteq { "UNREGISTERED", "ACTIVE" }
  /\ Commands \subseteq { "start", "abandon", "get" }
  /\ Explored \subseteq Actions
  /\ Steady \subseteq Workers
  /\ Timely \in BOOLEAN /\ Bounded \in BOOLEAN

VARIABLES
  (* the Goal's row *)
  status,         (* goals.status, or UNREGISTERED when there is no row     *)
  asleep,         (* goals.resume_after lies in the future                  *)
  leaseOwner,     (* goals.lease_owner                                      *)
  leaseLeft,      (* goals.lease_until - now; -1 once it lies in the past   *)
  (* the other tables *)
  runs,           (* runs.status by id                                      *)
  snapshots,      (* the digest of each snapshot; goals.reconciles = Len    *)
  rounds,         (* verifications: [seq, digest] of each saved round       *)
  decisions,      (* decisions: [seq, digest, action]                       *)
  (* each process *)
  pc, seen, usage, plan, myRun, due, renewals, missed, aborted,
  (* the human at the command line *)
  cli

row    == << status, asleep, leaseOwner, leaseLeft >>
tables == << runs, snapshots, rounds, decisions >>
timer  == << due, renewals, missed, aborted >>
locals == << seen, usage, plan, myRun >>
vars   == << row, tables, pc, locals, timer, cli >>

-----------------------------------------------------------------------------
(* The lease (sqlite.ts acquireLease, releaseLease; controller holdsLease).*)
(* An operator introduced as a mutant is no part of the specification: it  *)
(* is the definition after it with a plausible bug, which the property     *)
(* named in PROJECT.json must catch.                                       *)

(* Mutant: lease_until <= now instead of lease_until < now.                *)
CanAcquireTooEarly(w) == leaseOwner \in { NoWorker, w } \/ leaseLeft <= 0

(* Mutant: the new term is added to what is left of the old one.           *)
ExtendLease(w) == leaseOwner' = w /\ leaseLeft' = LeaseTerm + (IF leaseLeft > 0 THEN leaseLeft ELSE 0)

CanAcquire(w) == leaseOwner \in { NoWorker, w } \/ leaseLeft < 0
HoldsLease(w) == leaseOwner = w /\ leaseLeft > 0
TakeLease(w)  == leaseOwner' = w /\ leaseLeft' = LeaseTerm

(* The program counter names what a process does next.  Awaits are the     *)
(* points where tick() is suspended and its timer may fire.                *)
Awaits == { "observing", "planned", "acting", "guarding", "publishing" }
Sync   == { "leased", "writing", "verifying", "recording", "settling" }
Body   == Awaits \cup Sync
(* From here on the process has observed and chosen an action.             *)
Planned == { "planned", "acting", "guarding", "writing", "verifying", "publishing",
             "recording", "settling" }
Outside == { "idle", "loaded", "releasing", "dead" }

TimerOn(w) == pc[w] \in Body /\ renewals[w] <= MaxRenewals

Goto(w, from, to) == pc[w] = from /\ pc' = [pc EXCEPT ![w] = to]
Enter(w, to)      == pc' = [pc EXCEPT ![w] = to]

NoUsage == [runs |-> 0, reconciles |-> 0, failures |-> 0, digest |-> NoDigest, streak |-> 0]
NoPlan  == [digest |-> NoDigest, action |-> Replan]

(* The observation a process goes by and the action it has in mind.        *)
Plan(w, d, a) == plan' = [plan EXCEPT ![w] = [digest |-> d, action |-> a]]

(* A process that ended leaves nothing behind but the database.            *)
Forget(w) ==
  /\ seen'     = [seen EXCEPT ![w] = 0]
  /\ usage'    = [usage EXCEPT ![w] = NoUsage]
  /\ plan'     = [plan EXCEPT ![w] = NoPlan]
  /\ myRun'    = [myRun EXCEPT ![w] = 0]
  /\ due'      = [due EXCEPT ![w] = 0]
  /\ renewals' = [renewals EXCEPT ![w] = 0]
  /\ missed'   = [missed EXCEPT ![w] = 0]
  /\ aborted'  = [aborted EXCEPT ![w] = FALSE]

-----------------------------------------------------------------------------
(* The entrance of tick(): the row is read before the lease is taken, and  *)
(* what was read is used until the end of the tick.  Of the row it keeps   *)
(* the reconciles; of the status nextStatus only asks whether it is        *)
(* terminal, and the entrance has answered that: it was not.               *)

LoadGoal(w) ==
  /\ Goto(w, "idle", "loaded")
  /\ status # "UNREGISTERED"
  /\ ~IsTerminal(status)
  /\ ~asleep
  /\ Len(snapshots) < MaxRounds                       (* bound of the model *)
  /\ seen' = [seen EXCEPT ![w] = Len(snapshots)]
  /\ UNCHANGED << row, tables, usage, plan, myRun, timer, cli >>

AcquireLease(w) ==
  /\ Goto(w, "loaded", "leased")
  /\ CanAcquire(w)
  /\ TakeLease(w)
  /\ due' = [due EXCEPT ![w] = Beat]
  /\ UNCHANGED << status, asleep, tables, locals, renewals, missed, aborted, cli >>

LeaseBusy(w) ==
  /\ Goto(w, "loaded", "idle")
  /\ ~CanAcquire(w)
  /\ Forget(w)
  /\ UNCHANGED << row, tables, cli >>

(* usageOf: what the budget and the loop detection are judged by.  The     *)
(* reconciles are those of the row read at the entrance.                   *)
TrailingDigest ==
  IF decisions = <<>> THEN [digest |-> NoDigest, streak |-> 0]
  ELSE LET last == decisions[Len(decisions)].digest
       IN  [ digest |-> last,
             streak |-> TrailingCount(Len(decisions),
                                      { i \in DOMAIN decisions : decisions[i].digest = last }) ]

(* Mutant: every Run that did not complete is settled anew.                *)
ReclaimedAll == [r \in DOMAIN runs |-> IF runs[r] # "completed" THEN "interrupted" ELSE runs[r]]

(* Mutant: only Runs of an earlier reconcile are looked for.               *)
ReclaimedNone == runs

Reclaimed == [r \in DOMAIN runs |-> IF runs[r] = "starting" THEN "interrupted" ELSE runs[r]]

(* Mutant: a Run that was reclaimed is not charged.                        *)
UsageWithoutInterrupted(w) ==
  [ runs       |-> Cardinality({ r \in DOMAIN runs : Reclaimed[r] # "interrupted" }),
    reconciles |-> seen[w],
    failures   |-> ConsecutiveFailures(Reclaimed),
    digest     |-> TrailingDigest.digest,
    streak     |-> TrailingDigest.streak ]

UsageOf(w) ==
  [ runs       |-> Len(runs),
    reconciles |-> seen[w],
    failures   |-> ConsecutiveFailures(Reclaimed),
    digest     |-> TrailingDigest.digest,
    streak     |-> TrailingDigest.streak ]

(* reclaimOrphanRuns settles every Run still starting as interrupted; then *)
(* usageOf reads the tables, and reconcile() starts to observe.            *)
BeginReconcile(w) ==
  /\ Goto(w, "leased", "observing")
  /\ runs' = Reclaimed
  /\ usage' = [usage EXCEPT ![w] = UsageOf(w)]
  /\ UNCHANGED << row, snapshots, rounds, decisions, seen, plan, myRun, timer, cli >>

(* What reconcile() may decide for an observation with digest d.           *)
Possible(u, d) ==
  UNION { Decisions(Budget, u, t, d, o) : t \in ElapsedTimes, o \in Observations }

(* reconcile() returned; the lease is checked before anything is launched. *)
EndReconcile(w, d, a) ==
  /\ pc[w] = "observing"
  /\ a \in Possible(usage[w], d) \cap Explored
  /\ Plan(w, d, a)
  /\ Enter(w, IF HoldsLease(w) THEN "planned" ELSE "releasing")
  /\ usage' = [usage EXCEPT ![w] = NoUsage]
  /\ UNCHANGED << row, tables, seen, myRun, timer, cli >>

-----------------------------------------------------------------------------
(* maybeAct and act(): the Run row is written before the Actor starts.     *)

LaunchActor(w) ==
  /\ Goto(w, "planned", "acting")
  /\ plan[w].action.type = "ACT"
  /\ ~aborted[w]
  /\ runs' = Append(runs, "starting")
  /\ myRun' = [myRun EXCEPT ![w] = Len(runs) + 1]
  /\ UNCHANGED << row, snapshots, rounds, decisions, seen, usage, plan, timer, cli >>

(* Back in tick(): the lease is checked again.  The abort signal is of no  *)
(* use any more.                                                           *)
CheckAfterAct(w) ==
  /\ Enter(w, IF HoldsLease(w) THEN "guarding" ELSE "releasing")
  /\ aborted' = [aborted EXCEPT ![w] = FALSE]
  /\ UNCHANGED << row, snapshots, rounds, decisions, locals, due, renewals, missed, cli >>

(* No Actor: another action was chosen, the signal was already aborted, or *)
(* the Run row could not be written.                                       *)
SkipActor(w) ==
  /\ pc[w] = "planned"
  /\ CheckAfterAct(w)
  /\ UNCHANGED runs

(* The Actor ended; finishRun updates the row by id whatever it holds now. *)
ActorOutcomes(w) == IF aborted[w] THEN { "completed", "interrupted" }
                                  ELSE { "completed", "failed" }

FinishActor(w, outcome) ==
  /\ pc[w] = "acting"
  /\ outcome \in ActorOutcomes(w)
  /\ runs' = [runs EXCEPT ![myRun[w]] = outcome]
  /\ CheckAfterAct(w)

(* finishRun threw: the tick goes on with the outcome it has in memory.    *)
FinishLost(w) ==
  /\ pc[w] = "acting"
  /\ CheckAfterAct(w)
  /\ UNCHANGED runs

-----------------------------------------------------------------------------
(* guardedDecision, actorUsageLimitDecision, commitVerifiedWork and        *)
(* uncommittedDecision may replace the action; then the lease is checked   *)
(* for the last time.                                                      *)

GuardStops == { Escalate("protected_path_touched"), Escalate("guard_unavailable") }

RanIntoLimit(w) == myRun[w] # 0 /\ runs[myRun[w]] # "completed"

Settled(w) ==
  LET limited == { plan[w].action } \cup
                 { ActorUsageLimitDecision(plan[w].action, l) : l \in { RanIntoLimit(w) } }
      dirty   == { Escalate("uncommitted_changes") :
                     a \in { x \in limited : LeavesWorkUncommitted(x) /\ runs # <<>> } }
  IN  GuardStops \cup limited \cup dirty

(* Mutant: no third look at the lease.                                     *)
GuardUnchecked(w, a) ==
  /\ Goto(w, "guarding", "writing")
  /\ a \in Settled(w) \cap Explored
  /\ Plan(w, plan[w].digest, a)
  /\ UNCHANGED << row, tables, seen, usage, myRun, timer, cli >>

Guard(w, a) ==
  /\ pc[w] = "guarding"
  /\ a \in Settled(w) \cap Explored
  /\ Plan(w, plan[w].digest, a)
  /\ Enter(w, IF HoldsLease(w) THEN "writing" ELSE "releasing")
  /\ UNCHANGED << row, tables, seen, usage, myRun, timer, cli >>

(* saveSnapshot: the snapshot and reconciles + 1 in one transaction.       *)
SaveSnapshot(w) ==
  /\ Goto(w, "writing", "verifying")
  /\ snapshots' = Append(snapshots, plan[w].digest)
  /\ UNCHANGED << row, runs, rounds, decisions, locals, timer, cli >>

(* saveVerifications and saveDecision read the current reconciles.         *)
(* Mutant: the round is numbered by the row the tick read at its entrance. *)
SaveVerificationsAsSeen(w) ==
  /\ Goto(w, "verifying", "publishing")
  /\ rounds' = Append(rounds, [seq |-> seen[w] + 1, digest |-> plan[w].digest])
  /\ UNCHANGED << row, runs, snapshots, decisions, locals, timer, cli >>

SaveVerifications(w) ==
  /\ Goto(w, "verifying", "publishing")
  /\ rounds' = Append(rounds, [seq |-> Len(snapshots), digest |-> plan[w].digest])
  /\ UNCHANGED << row, runs, snapshots, decisions, locals, timer, cli >>

(* publish() returned.  A step declared manual replaces the decision,      *)
(* unless the gate already kept the branch from being pushed.              *)
Held(a) == IF a \in GuardStops THEN { a } ELSE { a } \cup { Escalate(h) : h \in HeldSteps }

EndPublish(w, a) ==
  /\ Goto(w, "publishing", "recording")
  /\ a \in Held(plan[w].action)
  /\ Plan(w, plan[w].digest, a)
  /\ UNCHANGED << row, tables, seen, usage, myRun, timer, cli >>

SaveDecision(w) ==
  /\ Goto(w, "recording", "settling")
  /\ decisions' = Append(decisions, [seq    |-> Len(snapshots),
                                     digest |-> plan[w].digest,
                                     action |-> plan[w].action])
  /\ UNCHANGED << row, runs, snapshots, rounds, locals, timer, cli >>

(* setStatus: the transition starts from the status read at the entrance.  *)
SeenStatus == "ACTIVE"

SetStatus(w) ==
  /\ Goto(w, "settling", "releasing")
  /\ status' = NextStatus(SeenStatus, plan[w].action)
  /\ asleep' = plan[w].action.until
  /\ UNCHANGED << leaseOwner, leaseLeft, tables, locals, timer, cli >>

(* The finally block: the timer is cleared and the lease is given back if  *)
(* it is still one's own.                                                  *)
ReleaseLease(w) ==
  /\ Goto(w, "releasing", "idle")
  /\ IF leaseOwner = w THEN leaseOwner' = NoWorker /\ leaseLeft' = -1
                       ELSE UNCHANGED << leaseOwner, leaseLeft >>
  /\ Forget(w)
  /\ UNCHANGED << status, asleep, tables, cli >>

(* A port or the store threw inside the try block.                         *)
Throw(w) ==
  /\ pc[w] \in Body \ { "acting" }
  /\ Enter(w, "releasing")
  /\ UNCHANGED << row, tables, locals, timer, cli >>

-----------------------------------------------------------------------------
(* The heartbeat timer and the signals.                                    *)

HeartbeatDue(w) == pc[w] \in Awaits /\ TimerOn(w) /\ due[w] = 0

(* acquireLease succeeded: also when the lease had expired or was released.*)
(* Mutant: the renewals are not counted.                                   *)
RenewForever(w) ==
  /\ HeartbeatDue(w)
  /\ CanAcquire(w)
  /\ TakeLease(w)
  /\ missed' = [missed EXCEPT ![w] = 0]
  /\ due'    = [due EXCEPT ![w] = Beat]
  /\ UNCHANGED << status, asleep, tables, pc, locals, renewals, aborted, cli >>

Renew(w) ==
  /\ HeartbeatDue(w)
  /\ renewals[w] < MaxRenewals
  /\ CanAcquire(w)
  /\ TakeLease(w)
  /\ renewals' = [renewals EXCEPT ![w] = @ + 1]
  /\ missed'   = [missed EXCEPT ![w] = 0]
  /\ due'      = [due EXCEPT ![w] = Beat]
  /\ UNCHANGED << status, asleep, tables, pc, locals, aborted, cli >>

(* Somebody else holds it: the Actor is told to stop.                      *)
RenewRefused(w) ==
  /\ HeartbeatDue(w)
  /\ renewals[w] < MaxRenewals
  /\ ~CanAcquire(w)
  /\ renewals' = [renewals EXCEPT ![w] = @ + 1]
  /\ aborted'  = [aborted EXCEPT ![w] = TRUE]
  /\ due'      = [due EXCEPT ![w] = Beat]
  /\ UNCHANGED << row, tables, pc, locals, missed, cli >>

(* The DB could not be reached; the next heartbeat tries again.            *)
RenewFailed(w) ==
  /\ HeartbeatDue(w)
  /\ renewals[w] < MaxRenewals
  /\ missed[w] < MaxMissed
  /\ renewals' = [renewals EXCEPT ![w] = @ + 1]
  /\ missed'   = [missed EXCEPT ![w] = @ + 1]
  /\ due'      = [due EXCEPT ![w] = Beat]
  /\ UNCHANGED << row, tables, pc, locals, aborted, cli >>

(* MAX_LEASE_RENEWALS is passed: the timer clears itself, the tick goes on.*)
StopRenewing(w) ==
  /\ HeartbeatDue(w)
  /\ ~Bounded
  /\ renewals[w] = MaxRenewals
  /\ renewals' = [renewals EXCEPT ![w] = @ + 1]
  /\ UNCHANGED << row, tables, pc, locals, due, missed, aborted, cli >>

(* SIGTERM or SIGINT reach the Actor; the tick itself runs to its end.     *)
Signal(w) ==
  /\ pc[w] \in { "observing", "planned", "acting" }
  /\ ~aborted[w]
  /\ aborted' = [aborted EXCEPT ![w] = TRUE]
  /\ UNCHANGED << row, tables, pc, locals, due, renewals, missed, cli >>

(* The process is killed.  A new process has a new `hostname:pid`, so a    *)
(* name comes back only once the lease no longer carries it.               *)
Crash(w) ==
  /\ pc[w] \notin { "idle", "dead" }
  /\ Enter(w, "dead")
  /\ Forget(w)
  /\ UNCHANGED << row, tables, cli >>

Spawn(w) ==
  /\ Goto(w, "dead", "idle")
  /\ leaseOwner # w
  /\ UNCHANGED << row, tables, locals, timer, cli >>

-----------------------------------------------------------------------------
(* Time.  Timely: no clock tick passes while a timer is due or a process   *)
(* sits between two synchronous statements.                                *)

Punctual ==
  /\ \A w \in Workers : pc[w] \notin Sync \cup { "releasing" } /\ (TimerOn(w) => due[w] > 0)
  /\ cli \in { "none", "denied" }

Less(n, floor) == IF n > floor THEN n - 1 ELSE floor

ClockAdvance ==
  /\ Timely => Punctual
  /\ \/ leaseLeft >= 0
     \/ \E w \in Workers : due[w] > 0
  /\ leaseLeft' = Less(leaseLeft, -1)
  /\ due' = [w \in Workers |-> Less(due[w], 0)]
  /\ UNCHANGED << status, asleep, leaseOwner, tables, pc, locals, renewals, missed, aborted, cli >>

WakeUp ==
  /\ asleep
  /\ asleep' = FALSE
  /\ UNCHANGED << status, leaseOwner, leaseLeft, tables, pc, locals, timer, cli >>

-----------------------------------------------------------------------------
(* Humans.  ent start: upsert, read, write.  ent abandon: read, write.     *)
(* ent get: upsert.  They never take the lease.                            *)

Registered == IF status = "UNREGISTERED" THEN "DRAFT" ELSE status

Start ==
  /\ "start" \in Commands
  /\ cli = "none"
  /\ cli' = "registered"
  /\ status' = Registered
  /\ UNCHANGED << asleep, leaseOwner, leaseLeft, tables, pc, locals, timer >>

StartCheck ==
  /\ cli = "registered"
  /\ cli' = IF IsTerminal(status) THEN "none" ELSE "starting"
  /\ UNCHANGED << row, tables, pc, locals, timer >>

StartWrite ==
  /\ cli = "starting"
  /\ cli' = "none"
  /\ status' = "ACTIVE"
  /\ asleep' = FALSE
  /\ UNCHANGED << leaseOwner, leaseLeft, tables, pc, locals, timer >>

AbandonCheck ==
  /\ "abandon" \in Commands
  /\ cli = "none"
  /\ status # "UNREGISTERED"
  /\ ~IsTerminal(status)
  /\ cli' = IF leaseOwner = NoWorker THEN "abandoning" ELSE "denied"
  /\ UNCHANGED << row, tables, pc, locals, timer >>

AbandonWrite ==
  /\ cli = "abandoning"
  /\ cli' = "none"
  /\ status' = "ABANDONED"
  /\ UNCHANGED << asleep, leaseOwner, leaseLeft, tables, pc, locals, timer >>

(* The refusal "is being run by ..." was printed; the command ended.       *)
AbandonDenied ==
  /\ cli = "denied"
  /\ cli' = "none"
  /\ UNCHANGED << row, tables, pc, locals, timer >>

Get ==
  /\ "get" \in Commands
  /\ cli = "none"
  /\ status = "UNREGISTERED"
  /\ status' = Registered
  /\ UNCHANGED << asleep, leaseOwner, leaseLeft, tables, pc, locals, timer, cli >>

-----------------------------------------------------------------------------
Init ==
  /\ status \in FirstStatuses
  /\ asleep = FALSE
  /\ leaseOwner = NoWorker
  /\ leaseLeft = -1
  /\ runs = <<>> /\ snapshots = <<>> /\ rounds = <<>> /\ decisions = <<>>
  /\ pc       = [w \in Workers |-> "idle"]
  /\ seen     = [w \in Workers |-> 0]
  /\ usage    = [w \in Workers |-> NoUsage]
  /\ plan     = [w \in Workers |-> NoPlan]
  /\ myRun    = [w \in Workers |-> 0]
  /\ due      = [w \in Workers |-> 0]
  /\ renewals = [w \in Workers |-> 0]
  /\ missed   = [w \in Workers |-> 0]
  /\ aborted  = [w \in Workers |-> FALSE]
  /\ cli = "none"

Entrance(w) == LoadGoal(w) \/ AcquireLease(w) \/ LeaseBusy(w)

Reconcile(w) ==
  \/ BeginReconcile(w)
  \/ \E d \in Digests : \E a \in Possible(usage[w], d) : EndReconcile(w, d, a)

Acting(w) ==
  \/ LaunchActor(w)
  \/ SkipActor(w)
  \/ \E outcome \in { "completed", "failed", "interrupted" } : FinishActor(w, outcome)
  \/ FinishLost(w)

Writing(w) ==
  \/ \E a \in Settled(w) : Guard(w, a)
  \/ SaveSnapshot(w)
  \/ SaveVerifications(w)
  \/ \E a \in Held(plan[w].action) : EndPublish(w, a)
  \/ SaveDecision(w)
  \/ SetStatus(w)
  \/ ReleaseLease(w)

Timer(w) == Renew(w) \/ RenewRefused(w) \/ RenewFailed(w) \/ StopRenewing(w)

Trouble(w) == w \notin Steady /\ (Throw(w) \/ Signal(w) \/ Crash(w) \/ Spawn(w))

Humans == Start \/ StartCheck \/ StartWrite \/ AbandonCheck \/ AbandonWrite
            \/ AbandonDenied \/ Get

Next ==
  \/ \E w \in Workers : \/ Entrance(w) \/ Reconcile(w) \/ Acting(w)
                        \/ Writing(w) \/ Timer(w) \/ Trouble(w)
  \/ ClockAdvance
  \/ WakeUp
  \/ Humans

Spec == Init /\ [][Next]_vars

(* Fairness.  The clock runs, timers fire, synchronous code does not stop  *)
(* half-way without the process dying, and somebody keeps calling ent run: *)
(* a steady process is not killed, its awaits return, and it does not come *)
(* for ever only at moments when the lease is taken.  Of every other       *)
(* process nothing is asked: its Actor may hang for good.                  *)
SyncStep(w) == pc[w] \in Sync \cup { "releasing" } /\ (BeginReconcile(w) \/ Writing(w))
AwaitStep(w) == pc[w] \in Awaits /\ (Reconcile(w) \/ Acting(w) \/ Writing(w))

Fairness ==
  /\ SF_vars(ClockAdvance) /\ WF_vars(WakeUp) /\ WF_vars(StartCheck \/ StartWrite)
  /\ \A w \in Workers : WF_vars(Timer(w)) /\ WF_vars(SyncStep(w))
  /\ \A w \in Steady :
       /\ SF_vars(LoadGoal(w) /\ CanAcquire(w)) /\ SF_vars(AcquireLease(w))
       /\ WF_vars(LeaseBusy(w) \/ AwaitStep(w))

FairSpec == Spec /\ Fairness

-----------------------------------------------------------------------------
(* Every variable keeps its type.                                          *)
RunStatuses == { "starting", "completed", "failed", "interrupted" }
Rounds      == [seq : Nat, digest : Digests]
Decided     == [seq : Nat, digest : Digests, action : Actions]
Usages      == [ runs : Nat, reconciles : Nat, failures : Nat,
                 digest : Digests \cup { NoDigest }, streak : Nat ]
Plans       == [digest : Digests \cup { NoDigest }, action : Actions]

RowOK ==
  /\ status \in Statuses \cup { "UNREGISTERED" }
  /\ asleep \in BOOLEAN
  /\ leaseOwner \in Workers \cup { NoWorker }
  /\ leaseLeft \in -1..LeaseTerm
  /\ cli \in { "none", "registered", "starting", "abandoning", "denied" }

TablesOK ==
  /\ runs \in Seq(RunStatuses)
  /\ snapshots \in Seq(Digests)
  /\ rounds \in Seq(Rounds)
  /\ decisions \in Seq(Decided)

LocalsOK ==
  /\ pc \in [Workers -> Body \cup Outside]
  /\ seen \in [Workers -> Nat]
  /\ usage \in [Workers -> Usages]
  /\ plan \in [Workers -> Plans]
  /\ myRun \in [Workers -> Nat]
  /\ \A w \in Workers : pc[w] \in Planned => plan[w].digest \in Digests

TimersOK ==
  /\ due \in [Workers -> 0..Beat]
  /\ renewals \in [Workers -> 0..(MaxRenewals + 1)]
  /\ missed \in [Workers -> 0..MaxMissed]
  /\ aborted \in [Workers -> BOOLEAN]

TypeOK == RowOK /\ TablesOK /\ LocalsOK /\ TimersOK

(* "At most one reconcile at a time per Goal": two processes are never     *)
(* inside a tick together while both still have a running heartbeat, even  *)
(* when a heartbeat now and then fails to reach the database.              *)
OneReconcilePerGoal ==
  \A v, w \in Workers : TimerOn(v) /\ TimerOn(w) => v = w

(* A snapshot (and with it reconciles + 1) is only ever written by the     *)
(* process that holds an unexpired lease, also when another process took   *)
(* the lease over while the Actor ran.                                     *)
SnapshotUnderLease ==
  [][\A w \in Workers : pc[w] = "writing" /\ pc'[w] = "verifying" => HoldsLease(w)]_vars

(* The Actor is never launched more often than max_actor_runs, whatever    *)
(* crashes, restarts and takeovers happen in between.                      *)
BudgetHeld == Len(runs) <= Budget.maxRuns

(* Loop detection: of max_unchanged_reconciles decisions in a row on one   *)
(* and the same observation, the last is never an ACT.                     *)
NoActOnUnchanged ==
  \A n \in 1..Len(decisions) :
    /\ n >= Budget.maxUnchanged
    /\ \A i \in (n - Budget.maxUnchanged + 1)..n : decisions[i].digest = decisions[n].digest
    => decisions[n].action.type # "ACT"

(* Write-ahead and reclaim: once a tick has reclaimed, the only Run still  *)
(* starting is the one this very tick launched.  Nothing a dead process    *)
(* left behind is counted as live.                                         *)
OnlyOwnRunStarting ==
  \A w \in Workers : \A r \in DOMAIN runs :
    TimerOn(w) /\ pc[w] # "leased" /\ runs[r] = "starting" => r = myRun[w]

(* A Run that was settled keeps its outcome: no late finishRun overwrites  *)
(* what a reclaim wrote, so the count of consecutive failures is stable.   *)
SettledRunIsFinal ==
  [][\A r \in DOMAIN runs : runs[r] # "starting" => r \in DOMAIN runs' /\ runs'[r] = runs[r]]_vars

(* Where a tick may outlive its heartbeats that does not hold: its Run is  *)
(* reclaimed under it, and finishRun updates the row by id.  What a row was*)
(* settled as is then replaced only where a reclaim wrote "interrupted",   *)
(* only by the process that launched the Run, and only when its Actor ends,*)
(* so once: "completed" and "failed" are final whoever ticks.              *)
OnlyReclaimIsCorrected ==
  [][\A r \in DOMAIN runs :
       runs[r] # "starting" /\ runs'[r] # runs[r]
         => /\ runs[r] = "interrupted"
            /\ \E w \in Workers : pc[w] = "acting" /\ pc'[w] # "acting" /\ myRun[w] = r]_vars

(* max_reconciles is judged by a count read before the lease was taken, so *)
(* a tick that waited at the entrance may act although the budget is used  *)
(* up.  That happens at most once for every other process.                 *)
FewActsAfterReconciles ==
  Cardinality({ i \in DOMAIN decisions : /\ decisions[i].seq > Budget.maxReconciles
                                         /\ decisions[i].action.type = "ACT" })
    < Cardinality(Workers)

(* max_consecutive_failures: no Run is started while the newest Runs, as   *)
(* many as that, are all failed.                                           *)
NoRunAfterFailures ==
  [][Len(runs') > Len(runs) => ConsecutiveFailures(runs) < Budget.maxFailures]_vars

(* The three tables are the log of one process: see ReconcileLog.          *)
Log == INSTANCE ReconcileLog WITH snapshots <- snapshots, rounds <- rounds, decisions <- decisions
LogSpec == Log!Spec

(* Nothing is blocked for ever by a process that died or hangs in a tick:  *)
(* its lease passes on, and its Run is settled, as long as the Goal may    *)
(* still be run.                                                           *)
Stopped == IsTerminal(status) \/ Len(snapshots) >= MaxRounds

LeasePassesOn ==
  \A w \in Workers : leaseOwner = w ~> leaseOwner # w \/ Stopped

Starting(r) == r \in DOMAIN runs /\ runs[r] = "starting"

OrphanSettled ==
  \A r \in 1..(Budget.maxRuns + 1) : Starting(r) ~> ~Starting(r) \/ Stopped

(* goal-state.ts:29 "terminal states: nothing leaves them".                *)
TerminalIsFinal == [][IsTerminal(status) => status' = status]_vars
=============================================================================
