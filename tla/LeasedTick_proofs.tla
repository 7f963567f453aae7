------------------------- MODULE LeasedTick_proofs -------------------------
(* The theorems about LeasedTick, for any number of processes, any budget *)
(* and any lease parameters that satisfy the assumptions of that module.  *)
(* Their order is the argument: types; a running heartbeat keeps the      *)
(* lease (LeaseKept); nobody else is in the body of tick() (AloneInv);    *)
(* and on that ground the Actor budget, the Run rows, the three tables of *)
(* the log, and the limits on loops, failures and reconciles.  Only what  *)
(* becomes of Run rows while ticks overlap (OwnRowInv) needs none of it.  *)
(* The theorems name what they need of the clock: Timely                  *)
(* (timers fire on time), Bounded (no tick outlives its heartbeats) and   *)
(* MaxMissed <= 1.                                                        *)
EXTENDS LeasedTick, TLAPS, FiniteSetTheorems, SequenceTheorems

(* A trailing count is a natural number.                                  *)
LEMMA TrailingType ==
  ASSUME NEW n \in Nat, NEW S
  PROVE  TrailingCount(n, S) \in Nat
<1> DEFINE T == { i \in 1..n : i..n \subseteq S }
<1>1. IsFiniteSet(T)
  <2>1. T \subseteq 1..n
    OBVIOUS
  <2>2. IsFiniteSet(1..n)
    BY FS_Interval
  <2> QED BY <2>1, <2>2, FS_Subset
<1> QED
  BY <1>1, FS_CardinalityType DEF TrailingCount

(* As many as lie in a row at the end are counted, at least.               *)
LEMMA TrailingAtLeast ==
  ASSUME NEW n \in Nat, NEW k \in Nat, k <= n, NEW S, (n - k + 1)..n \subseteq S
  PROVE  TrailingCount(n, S) >= k
<1> DEFINE T == { i \in 1..n : i..n \subseteq S }
<1>1. IsFiniteSet(T)
  <2>1. T \subseteq 1..n /\ IsFiniteSet(1..n)
    BY FS_Interval
  <2> QED BY <2>1, FS_Subset
<1>2. (n - k + 1)..n \subseteq T
  <2> SUFFICES ASSUME NEW i \in (n - k + 1)..n PROVE i \in T
    OBVIOUS
  <2>1. i \in 1..n /\ i..n \subseteq (n - k + 1)..n
    OBVIOUS
  <2> QED BY <2>1
<1>3. Cardinality((n - k + 1)..n) = k
  BY FS_Interval
<1>4. Cardinality((n - k + 1)..n) <= Cardinality(T)
  BY <1>1, <1>2, FS_Subset
<1>5. Cardinality(T) \in Nat
  BY <1>1, FS_CardinalityType
<1> QED BY <1>3, <1>4, <1>5 DEF TrailingCount

(* Settling the orphans keeps the number of Run rows and their type.      *)
LEMMA ReclaimedType ==
  ASSUME runs \in Seq(RunStatuses)
  PROVE  /\ Reclaimed \in Seq(RunStatuses)
         /\ Len(Reclaimed) = Len(runs)
         /\ DOMAIN Reclaimed = DOMAIN runs
<1>1. runs \in [1..Len(runs) -> RunStatuses] /\ Len(runs) \in Nat
  BY LenProperties
<1>2. Reclaimed \in [1..Len(runs) -> RunStatuses]
  BY <1>1 DEF Reclaimed, RunStatuses
<1>3. Reclaimed \in Seq(RunStatuses)
  BY <1>1, <1>2, SeqDef
<1>4. 1..Len(Reclaimed) = 1..Len(runs) /\ Len(Reclaimed) \in Nat
  BY <1>2, <1>3, LenProperties
<1> QED BY <1>1, <1>2, <1>3, <1>4

(* Every decision of decide() is an action of the vocabulary.             *)
LEMMA ActionTypes ==
  /\ Replan \in Actions /\ WaitUntil \in Actions
  /\ GuardStops \subseteq Actions
  /\ \A h \in HeldSteps : Escalate(h) \in Actions
  /\ \A a \in Actions : a.until \in BOOLEAN
<1>1. Replan \in Actions /\ WaitUntil \in Actions
  BY DEF Actions
<1>2. GuardStops \subseteq Actions
  BY DEF Actions, GuardStops, EscalateReasons
<1>3. \A h \in HeldSteps : Escalate(h) \in Actions
  BY InputsAssumption DEF Actions, EscalateReasons
<1>4. \A a \in Actions : a.until \in BOOLEAN
  <2>1. Complete.until \in BOOLEAN /\ Verify.until \in BOOLEAN
        /\ WaitUntil.until \in BOOLEAN /\ Replan.until \in BOOLEAN
    BY DEF Complete, Verify, WaitUntil, Replan
  <2>2. \A x : /\ Act(x).until \in BOOLEAN
               /\ Wait(x).until \in BOOLEAN
               /\ Escalate(x).until \in BOOLEAN
    BY DEF Act, Wait, Escalate
  <2> QED BY <2>1, <2>2 DEF Actions
<1> QED BY <1>1, <1>2, <1>3, <1>4

(* nextStatus() yields a status a row may have.                           *)
LEMMA NextStatusType ==
  ASSUME NEW s \in Statuses, NEW a
  PROVE  NextStatus(s, a) \in Statuses
  BY DEF NextStatus, Statuses, WaitsForHuman, IsTerminal

(* usageOf() yields a usage.                                              *)
LEMMA UsageType ==
  ASSUME TypeOK, NEW w \in Workers
  PROVE  UsageOf(w) \in Usages
<1>1. Reclaimed \in Seq(RunStatuses) /\ Len(Reclaimed) = Len(runs) /\ Len(runs) \in Nat
  BY ReclaimedType, LenProperties DEF TypeOK, TablesOK, LocalsOK, RunStatuses
<1>2. ConsecutiveFailures(Reclaimed) \in Nat
  BY <1>1, TrailingType DEF ConsecutiveFailures
<1>3. TrailingDigest \in [digest : Digests \cup { NoDigest }, streak : Nat]
  <2>1. CASE decisions = <<>>
    BY <2>1 DEF TrailingDigest
  <2>2. CASE decisions # <<>>
    <3> DEFINE D == Decided
    <3>1. decisions \in Seq(D)
      BY DEF TypeOK, TablesOK, LocalsOK
    <3>2. Len(decisions) \in 1..Len(decisions) /\ Len(decisions) \in Nat
      BY <2>2, <3>1, EmptySeq
    <3>3. decisions[Len(decisions)] \in D
      BY <3>1, <3>2, ElementOfSeq
    <3> QED BY <2>2, <3>2, <3>3, TrailingType DEF TrailingDigest, Decided
  <2> QED BY <2>1, <2>2
<1>4. Len(runs) \in Nat /\ seen[w] \in Nat
  BY <1>1 DEF TypeOK, LocalsOK
<1> QED BY <1>2, <1>3, <1>4 DEF UsageOf, Usages, TypeOK

-----------------------------------------------------------------------------
(* A step of Next, taken apart.                                            *)
WorkerStep(w) ==
  \/ LoadGoal(w) \/ AcquireLease(w) \/ LeaseBusy(w) \/ BeginReconcile(w)
  \/ \E d \in Digests : \E a \in Possible(usage[w], d) : EndReconcile(w, d, a)
  \/ LaunchActor(w) \/ SkipActor(w)
  \/ \E o \in { "completed", "failed", "interrupted" } : FinishActor(w, o)
  \/ FinishLost(w)
  \/ \E a \in Settled(w) : Guard(w, a)
  \/ SaveSnapshot(w) \/ SaveVerifications(w)
  \/ \E a \in Held(plan[w].action) : EndPublish(w, a)
  \/ SaveDecision(w) \/ SetStatus(w) \/ ReleaseLease(w)
  \/ Renew(w) \/ RenewRefused(w) \/ RenewFailed(w) \/ StopRenewing(w)
  \/ Throw(w) \/ Signal(w) \/ Crash(w) \/ Spawn(w)

(* Next is a step of a process, of the clock or of a human.               *)
LEMMA NextSteps ==
  Next => (\E w \in Workers : WorkerStep(w)) \/ ClockAdvance \/ WakeUp \/ Humans
  BY DEF Next, WorkerStep, Entrance, Reconcile, Acting, Writing, Timer, Trouble

(* The heartbeat timers keep their type.                                  *)
LEMMA TimersStep ==
  ASSUME TypeOK, [Next]_vars
  PROVE  TimersOK'
<1> USE LeaseAssumption DEF TypeOK, TimersOK, timer
<1>1. ASSUME NEW w \in Workers, WorkerStep(w)
      PROVE  TimersOK'
  <2>1. CASE AcquireLease(w)
    BY <2>1 DEF AcquireLease
  <2>2. CASE Forget(w)
    BY <2>2 DEF Forget
  <2>3. CASE Renew(w)
    BY <2>3 DEF Renew
  <2>4. CASE RenewRefused(w)
    BY <2>4 DEF RenewRefused
  <2>5. CASE RenewFailed(w)
    BY <2>5 DEF RenewFailed
  <2>6. CASE StopRenewing(w)
    BY <2>6 DEF StopRenewing
  <2>7. CASE Signal(w)
    BY <2>7 DEF Signal
  <2>8. CASE SkipActor(w) \/ FinishLost(w) \/ \E o \in { "completed", "failed", "interrupted" } : FinishActor(w, o)
    BY <2>8 DEF SkipActor, FinishLost, FinishActor, CheckAfterAct
  <2>9. CASE UNCHANGED timer
    BY <2>9
  <2> QED
    BY <1>1, <2>1, <2>2, <2>3, <2>4, <2>5, <2>6, <2>7, <2>8, <2>9
    DEF WorkerStep, LoadGoal, BeginReconcile, EndReconcile, LaunchActor, Guard, SaveSnapshot,
        SaveVerifications, EndPublish, SaveDecision, SetStatus, Throw, Spawn, LeaseBusy, ReleaseLease, Crash
<1>2. CASE ClockAdvance
  BY <1>2 DEF ClockAdvance, Less
<1>3. CASE UNCHANGED timer
  BY <1>3
<1> QED
  BY <1>1, <1>2, <1>3, NextSteps
  DEF vars, Humans, WakeUp, Start, StartCheck, StartWrite, AbandonCheck, AbandonWrite, AbandonDenied, Get

(* The Goal's row and the command line keep their type.                   *)
LEMMA RowStep ==
  ASSUME TypeOK, [Next]_vars
  PROVE  RowOK'
<1> USE LeaseAssumption DEF TypeOK, RowOK, row
<1>1. ASSUME NEW w \in Workers, WorkerStep(w)
      PROVE  RowOK'
  <2>1. CASE AcquireLease(w)
    BY <2>1 DEF AcquireLease, TakeLease
  <2>2. CASE Renew(w)
    BY <2>2 DEF Renew, TakeLease
  <2>3. CASE SetStatus(w)
    <3>1. plan[w].action \in Actions
      BY DEF LocalsOK, Plans
    <3>2. plan[w].action.until \in BOOLEAN
      BY <3>1, ActionTypes
    <3>3. NextStatus(SeenStatus, plan[w].action) \in Statuses
      BY NextStatusType DEF SeenStatus, Statuses
    <3> QED BY <2>3, <3>2, <3>3 DEF SetStatus
  <2>4. CASE ReleaseLease(w)
    BY <2>4 DEF ReleaseLease
  <2>5. CASE UNCHANGED << row, cli >>
    BY <2>5
  <2> QED
    BY <1>1, <2>1, <2>2, <2>3, <2>4, <2>5
    DEF WorkerStep, LoadGoal, LeaseBusy, BeginReconcile, EndReconcile, LaunchActor, SkipActor,
        FinishActor, FinishLost, CheckAfterAct, Guard, SaveSnapshot, SaveVerifications,
        EndPublish, SaveDecision, RenewRefused, RenewFailed, StopRenewing, Throw, Signal,
        Crash, Spawn
<1>2. CASE ClockAdvance
  BY <1>2 DEF ClockAdvance, Less
<1>3. CASE WakeUp
  BY <1>3 DEF WakeUp
<1>4. CASE Humans
  BY <1>4 DEF Humans, Start, StartCheck, StartWrite, AbandonCheck, AbandonWrite,
              AbandonDenied, Get, Registered, Statuses
<1>5. CASE UNCHANGED vars
  BY <1>5 DEF vars
<1> QED
  BY <1>1, <1>2, <1>3, <1>4, <1>5, NextSteps

(* The tables keep their type.                                            *)
LEMMA TablesStep ==
  ASSUME TypeOK, [Next]_vars
  PROVE  TablesOK'
<1> USE DEF TypeOK, TablesOK, tables, Goto
<1>1. ASSUME NEW w \in Workers, WorkerStep(w)
      PROVE  TablesOK'
  <2>1. CASE BeginReconcile(w)
    BY <2>1, ReclaimedType DEF BeginReconcile
  <2>2. CASE LaunchActor(w)
    BY <2>2 DEF LaunchActor, RunStatuses
  <2>3. ASSUME NEW o \in { "completed", "failed", "interrupted" }, FinishActor(w, o)
        PROVE  TablesOK'
    <3>1. o \in RunStatuses
      BY DEF RunStatuses
    <3>2. [runs EXCEPT ![myRun[w]] = o] \in Seq(RunStatuses)
      <4>1. runs \in [1..Len(runs) -> RunStatuses] /\ Len(runs) \in Nat
        BY LenProperties
      <4>2. [runs EXCEPT ![myRun[w]] = o] \in [1..Len(runs) -> RunStatuses]
        BY <4>1, <3>1
      <4> QED BY <4>1, <4>2, SeqDef
    <3> QED BY <2>3, <3>2 DEF FinishActor, CheckAfterAct
  <2>4. CASE SaveSnapshot(w)
    BY <2>4 DEF SaveSnapshot, LocalsOK, Planned
  <2>5. CASE SaveVerifications(w)
    <3>1. [seq |-> Len(snapshots), digest |-> plan[w].digest] \in Rounds
      BY <2>5 DEF SaveVerifications, LocalsOK, Planned, Rounds
    <3> QED BY <2>5, <3>1 DEF SaveVerifications
  <2>6. CASE SaveDecision(w)
    <3>1. [seq |-> Len(snapshots), digest |-> plan[w].digest, action |-> plan[w].action] \in Decided
      BY <2>6 DEF SaveDecision, LocalsOK, Planned, Plans, Decided
    <3> QED BY <2>6, <3>1 DEF SaveDecision
  <2>7. CASE UNCHANGED tables
    BY <2>7
  <2> QED
    BY <1>1, <2>1, <2>2, <2>3, <2>4, <2>5, <2>6, <2>7
    DEF WorkerStep, LoadGoal, AcquireLease, LeaseBusy, EndReconcile, SkipActor, FinishLost,
        CheckAfterAct, Guard, EndPublish, SetStatus, ReleaseLease, Renew, RenewRefused,
        RenewFailed, StopRenewing, Throw, Signal, Crash, Spawn
<1>2. CASE UNCHANGED tables
  BY <1>2
<1> QED
  BY <1>1, <1>2, NextSteps
  DEF vars, ClockAdvance, WakeUp, Humans, Start, StartCheck, StartWrite, AbandonCheck,
      AbandonWrite, AbandonDenied, Get

(* What a guard or publish() may settle on is an action.                  *)
LEMMA PlanTypes ==
  /\ \A u, d : \A a \in Possible(u, d) \cap Explored : a \in Actions
  /\ \A w \in Workers : \A a \in Settled(w) \cap Explored : a \in Actions
  /\ \A a \in Actions : Held(a) \subseteq Actions
<1>1. \A a \in Actions : Held(a) \subseteq Actions
  BY ActionTypes DEF Held
<1> QED BY <1>1, InputsAssumption

(* What a process has in memory keeps its type.                           *)
LEMMA LocalsStep ==
  ASSUME TypeOK, [Next]_vars
  PROVE  LocalsOK'
<1> USE DEF TypeOK, LocalsOK, Planned, locals, Goto, Enter, Awaits, Sync, Body, Outside
<1>1. ASSUME NEW w \in Workers, WorkerStep(w)
      PROVE  LocalsOK'
  <2>1. CASE LoadGoal(w)
    BY <2>1 DEF LoadGoal, TablesOK
  <2>2. CASE BeginReconcile(w)
    BY <2>2, UsageType DEF BeginReconcile
  <2>3. ASSUME NEW d \in Digests, NEW a, EndReconcile(w, d, a)
        PROVE  LocalsOK'
    <3>1. [digest |-> d, action |-> a] \in Plans
      BY <2>3, PlanTypes DEF EndReconcile, Plans
    <3>2. NoUsage \in Usages
      BY DEF NoUsage, Usages
    <3> QED BY <2>3, <3>1, <3>2 DEF EndReconcile, Plan
  <2>4. CASE LaunchActor(w)
    BY <2>4 DEF LaunchActor, TablesOK
  <2>5. ASSUME NEW a \in Actions, Plan(w, plan[w].digest, a), pc[w] \in Planned,
               pc' = [pc EXCEPT ![w] = "releasing"] \/ pc' = [pc EXCEPT ![w] = "writing"]
                 \/ pc' = [pc EXCEPT ![w] = "recording"],
               UNCHANGED << seen, usage, myRun >>
        PROVE  LocalsOK'
    <3>1. [digest |-> plan[w].digest, action |-> a] \in Plans
      BY <2>5 DEF Plans
    <3> QED BY <2>5, <3>1 DEF Plan
  <2>6. ASSUME NEW a, Guard(w, a)
        PROVE  LocalsOK'
    BY <2>5, <2>6, PlanTypes DEF Guard, Goto, Enter
  <2>7. ASSUME NEW a, EndPublish(w, a)
        PROVE  LocalsOK'
    <3>1. a \in Actions
      BY <2>7, PlanTypes DEF EndPublish, Plans
    <3> QED BY <2>5, <2>7, <3>1 DEF EndPublish, Goto
  <2>8. ASSUME Forget(w), pc' = [pc EXCEPT ![w] = "idle"] \/ pc' = [pc EXCEPT ![w] = "dead"]
        PROVE  LocalsOK'
    <3>1. NoUsage \in Usages /\ NoPlan \in Plans
      BY ActionTypes DEF NoUsage, Usages, NoPlan, Plans
    <3> QED BY <2>8, <3>1 DEF Forget
  <2>9. CASE LeaseBusy(w) \/ ReleaseLease(w) \/ Crash(w)
    BY <2>8, <2>9 DEF LeaseBusy, ReleaseLease, Crash, Goto, Enter
  <2>10. CASE UNCHANGED locals
    <3>1. CASE AcquireLease(w) \/ Throw(w) \/ Spawn(w) \/ SetStatus(w)
      BY <2>10, <3>1 DEF AcquireLease, Throw, Spawn, SetStatus
    <3>2. CASE SkipActor(w) \/ FinishLost(w)
                \/ \E o \in { "completed", "failed", "interrupted" } : FinishActor(w, o)
      BY <2>10, <3>2 DEF SkipActor, FinishActor, FinishLost, CheckAfterAct
    <3>3. CASE SaveSnapshot(w) \/ SaveVerifications(w) \/ SaveDecision(w)
      BY <2>10, <3>3 DEF SaveSnapshot, SaveVerifications, SaveDecision
    <3>4. CASE UNCHANGED pc
      BY <2>10, <3>4
    <3>5. CASE LoadGoal(w) \/ LeaseBusy(w) \/ BeginReconcile(w) \/ LaunchActor(w)
                \/ ReleaseLease(w) \/ Crash(w)
      BY <3>5, <2>1, <2>2, <2>4, <2>9
    <3> QED
      BY <1>1, <2>3, <2>6, <2>7, <3>1, <3>2, <3>3, <3>4, <3>5
      DEF WorkerStep, Renew, RenewRefused, RenewFailed, StopRenewing, Signal
  <2> QED
    BY <1>1, <2>1, <2>2, <2>3, <2>4, <2>6, <2>7, <2>9, <2>10
    DEF WorkerStep, AcquireLease, SkipActor, FinishActor, FinishLost, CheckAfterAct,
        SaveSnapshot, SaveVerifications, SaveDecision, SetStatus, Renew, RenewRefused,
        RenewFailed, StopRenewing, Throw, Signal, Spawn
<1>2. CASE UNCHANGED << pc, locals >>
  BY <1>2
<1> QED
  BY <1>1, <1>2, NextSteps
  DEF vars, ClockAdvance, WakeUp, Humans, Start, StartCheck, StartWrite, AbandonCheck,
      AbandonWrite, AbandonDenied, Get

(* The type invariant holds initially.                                    *)
LEMMA InitType == Init => TypeOK
<1> SUFFICES ASSUME Init PROVE TypeOK
  OBVIOUS
<1>1. RowOK
  <2>1. status \in Statuses \cup { "UNREGISTERED" }
    BY InputsAssumption DEF Init, Statuses
  <2>2. -1 \in -1..LeaseTerm
    BY LeaseAssumption
  <2> QED BY <2>1, <2>2 DEF Init, RowOK
<1>2. TablesOK
  BY EmptySeq DEF Init, TablesOK
<1>3. LocalsOK
  <2>1. NoUsage \in Usages /\ NoPlan \in Plans
    BY ActionTypes DEF NoUsage, Usages, NoPlan, Plans
  <2> QED BY <2>1 DEF Init, LocalsOK, Planned, Body, Outside
<1>4. TimersOK
  BY LeaseAssumption DEF Init, TimersOK
<1> QED BY <1>1, <1>2, <1>3, <1>4 DEF TypeOK

(* Every step keeps the type invariant.                                   *)
LEMMA TypeStep == TypeOK /\ [Next]_vars => TypeOK'
  BY RowStep, TablesStep, LocalsStep, TimersStep DEF TypeOK

(* Every variable keeps its type, whatever the constants are.              *)
THEOREM TypeCorrect == Spec => []TypeOK
  BY InitType, TypeStep, PTL DEF Spec

-----------------------------------------------------------------------------
(* One reconcile at a time.  The argument: while a heartbeat is running,   *)
(* the lease is one's own and has at least one term left from the last     *)
(* renewal that reached the database; a period is half a term, so one      *)
(* heartbeat may be missed and the lease has still not expired when the    *)
(* next one is due.  No other process can take a lease that has not        *)
(* expired, and only its owner releases it.                                *)
Slack(w) == IF missed[w] = 0 THEN Beat ELSE 2 * Beat

LeaseKept ==
  \A w \in Workers :
    TimerOn(w) => leaseOwner = w /\ leaseLeft + Slack(w) >= due[w] + LeaseTerm

Fresh ==
  \A w \in Workers : pc[w] \in { "idle", "loaded", "dead" } => renewals[w] = 0 /\ missed[w] = 0

LeaseInv == TypeOK /\ Fresh /\ LeaseKept

(* A process that is not in a tick has no heartbeats behind it.           *)
LEMMA FreshStep ==
  ASSUME TypeOK, Fresh, [Next]_vars
  PROVE  Fresh'
<1> USE DEF TypeOK, Fresh, timer, Goto, Enter, LocalsOK, TimersOK
<1>1. ASSUME NEW w \in Workers, WorkerStep(w)
      PROVE  Fresh'
  <2>1. CASE Forget(w) /\ \E p \in { "idle", "dead" } : pc' = [pc EXCEPT ![w] = p]
    BY <2>1 DEF Forget
  <2>2. CASE UNCHANGED timer /\ \E p \in Body \cup { "releasing" } : pc' = [pc EXCEPT ![w] = p]
    BY <2>2 DEF Body, Awaits, Sync
  <2>3. CASE LoadGoal(w) \/ Spawn(w)
    BY <2>3 DEF LoadGoal, Spawn
  <2>4. CASE AcquireLease(w)
    BY <2>4 DEF AcquireLease
  <2>5. CASE SkipActor(w) \/ FinishLost(w)
              \/ \E o \in { "completed", "failed", "interrupted" } : FinishActor(w, o)
    BY <2>5 DEF SkipActor, FinishLost, FinishActor, CheckAfterAct
  <2>6. CASE pc[w] \in Body /\ pc' = pc /\ \A v \in Workers \ { w } : renewals'[v] = renewals[v] /\ missed'[v] = missed[v]
    BY <2>6 DEF Body, Awaits, Sync
  <2>7. CASE Renew(w) \/ RenewRefused(w) \/ RenewFailed(w) \/ StopRenewing(w)
    BY <2>6, <2>7 DEF Renew, RenewRefused, RenewFailed, StopRenewing, HeartbeatDue, Body
  <2>8. CASE Signal(w)
    BY <2>8 DEF Signal
  <2>9. CASE SetStatus(w) \/ Throw(w)
    BY <2>9 DEF SetStatus, Throw
  <2> QED
    BY <1>1, <2>1, <2>2, <2>3, <2>4, <2>5, <2>7, <2>8, <2>9
    DEF WorkerStep, LeaseBusy, ReleaseLease, Crash, BeginReconcile, EndReconcile, LaunchActor,
        Guard, SaveSnapshot, SaveVerifications, EndPublish, SaveDecision, Body, Awaits, Sync
<1>2. CASE ClockAdvance
  BY <1>2 DEF ClockAdvance
<1>3. CASE UNCHANGED << pc, timer >>
  BY <1>3
<1> QED
  BY <1>1, <1>2, <1>3, NextSteps
  DEF vars, WakeUp, Humans, Start, StartCheck, StartWrite, AbandonCheck,
      AbandonWrite, AbandonDenied, Get

(* A process whose heartbeat is running keeps everybody else out.          *)
LEMMA KeepsOthersOut ==
  ASSUME LeaseInv, MaxMissed <= 1, NEW v \in Workers, NEW w \in Workers, v # w, TimerOn(v)
  PROVE  ~CanAcquire(w) /\ leaseOwner = v
<1>1. leaseOwner = v /\ leaseLeft + 2 * Beat >= LeaseTerm
  BY LeaseAssumption DEF LeaseInv, LeaseKept, Slack, TypeOK, TimersOK, RowOK
<1>2. leaseLeft >= 0
  BY <1>1, LeaseAssumption DEF LeaseInv, TypeOK, RowOK
<1> QED BY <1>1, <1>2, WorkersAssumption DEF CanAcquire, LeaseInv, TypeOK, RowOK

(* A running heartbeat keeps the lease, with enough left to miss one      *)
(* beat.                                                                  *)
LEMMA LeaseKeptStep ==
  ASSUME Timely, MaxMissed <= 1, LeaseInv, [Next]_vars
  PROVE  LeaseKept'
<1> USE LeaseAssumption DEF LeaseInv, TypeOK, RowOK, LocalsOK, TimersOK, LeaseKept, Slack, TimerOn, timer, row
<1>1. ASSUME NEW w \in Workers, WorkerStep(w)
      PROVE  LeaseKept'
  <2> SUFFICES ASSUME NEW v \in Workers, TimerOn(v)'
               PROVE  (leaseOwner = v /\ leaseLeft + Slack(v) >= due[v] + LeaseTerm)'
    OBVIOUS
  <2>1. CASE AcquireLease(w)
    <3>1. CASE v = w
      BY <2>1, <3>1 DEF AcquireLease, TakeLease, Goto, Fresh
    <3>2. CASE v # w
      BY <2>1, <3>2, KeepsOthersOut DEF AcquireLease, Goto
    <3> QED BY <3>1, <3>2
  <2>2. CASE Renew(w)
    <3>1. CASE v = w
      BY <2>2, <3>1 DEF Renew, TakeLease
    <3>2. CASE v # w
      BY <2>2, <3>2, KeepsOthersOut DEF Renew
    <3> QED BY <3>1, <3>2
  <2>3. CASE RenewFailed(w)
    BY <2>3 DEF RenewFailed, HeartbeatDue
  <2>4. CASE RenewRefused(w)
    BY <2>4 DEF RenewRefused, HeartbeatDue, CanAcquire
  <2>5. CASE StopRenewing(w)
    BY <2>5 DEF StopRenewing
  <2>6. CASE ReleaseLease(w)
    BY <2>6 DEF ReleaseLease, Goto, Forget, Body, Awaits, Sync
  <2>7. CASE LeaseBusy(w) \/ Crash(w)
    BY <2>7 DEF LeaseBusy, Crash, Goto, Enter, Forget, Body, Awaits, Sync
  <2>8. CASE UNCHANGED << leaseOwner, leaseLeft, due, renewals, missed >>
              /\ (pc' = pc \/ \E p \in Body \cup Outside :
                    /\ pc' = [pc EXCEPT ![w] = p]
                    /\ pc[w] \in Body \/ p \notin Body)
    BY <2>8
  <2>9. CASE LoadGoal(w) \/ Throw(w) \/ Spawn(w) \/ Signal(w) \/ SetStatus(w)
    BY <2>8, <2>9 DEF LoadGoal, Throw, Spawn, Signal, SetStatus, Goto, Enter, Body, Awaits, Sync, Outside
  <2>10. CASE SkipActor(w) \/ FinishLost(w)
              \/ \E o \in { "completed", "failed", "interrupted" } : FinishActor(w, o)
    BY <2>8, <2>10 DEF SkipActor, FinishLost, FinishActor, CheckAfterAct, Enter, Body, Awaits, Sync, Outside
  <2>11. CASE BeginReconcile(w) \/ LaunchActor(w) \/ SaveSnapshot(w) \/ SaveVerifications(w) \/ SaveDecision(w)
    BY <2>8, <2>11 DEF BeginReconcile, LaunchActor, SaveSnapshot, SaveVerifications,
                       SaveDecision, Goto, Body, Awaits, Sync, Outside
  <2>12. ASSUME NEW d, NEW a, EndReconcile(w, d, a) \/ Guard(w, a) \/ EndPublish(w, a)
         PROVE  (leaseOwner = v /\ leaseLeft + Slack(v) >= due[v] + LeaseTerm)'
    BY <2>8, <2>12 DEF EndReconcile, Guard, EndPublish, Goto, Enter, Body, Awaits, Sync, Outside
  <2> QED
    BY <1>1, <2>1, <2>2, <2>3, <2>4, <2>5, <2>6, <2>7, <2>9, <2>10, <2>11, <2>12 DEF WorkerStep
<1>2. CASE ClockAdvance
  <2> SUFFICES ASSUME NEW v \in Workers, TimerOn(v)'
               PROVE  (leaseOwner = v /\ leaseLeft + Slack(v) >= due[v] + LeaseTerm)'
    OBVIOUS
  <2>1. TimerOn(v) /\ due[v] > 0 /\ due'[v] = due[v] - 1 /\ missed' = missed /\ leaseOwner' = leaseOwner
    BY <1>2 DEF ClockAdvance, Punctual, Less
  <2>2. leaseLeft' >= leaseLeft - 1
    BY <1>2 DEF ClockAdvance, Less
  <2>3. leaseOwner = v /\ leaseLeft + Slack(v) >= due[v] + LeaseTerm /\ Slack(v)' = Slack(v)
    BY <2>1
  <2>4. leaseLeft \in Int /\ leaseLeft' \in Int /\ due[v] \in Int /\ Slack(v) \in Int
    BY <1>2 DEF ClockAdvance, Less
  <2> HIDE DEF Slack
  <2> QED BY <2>1, <2>2, <2>3, <2>4
<1>3. CASE UNCHANGED << leaseOwner, leaseLeft, pc, timer >>
  BY <1>3
<1> QED
  BY <1>1, <1>2, <1>3, NextSteps
  DEF vars, WakeUp, Humans, Start, StartCheck, StartWrite, AbandonCheck,
      AbandonWrite, AbandonDenied, Get

(* The invariants of the lease hold in every reachable state.             *)
LEMMA LeaseInvariant ==
  ASSUME Timely, MaxMissed <= 1
  PROVE  Spec => []LeaseInv
<1>1. Init => LeaseInv
  BY InitType DEF Init, LeaseInv, Fresh, LeaseKept, TimerOn, Body, Awaits, Sync
<1>2. LeaseInv /\ [Next]_vars => LeaseInv'
  BY TypeStep, FreshStep, LeaseKeptStep DEF LeaseInv
<1> QED BY <1>1, <1>2, PTL DEF Spec

(* When timers fire on time and no two heartbeats in a row fail to reach   *)
(* the database, no two processes are ever inside a tick with a running    *)
(* heartbeat: tick() of controller/index.ts, whatever crashes, throws,     *)
(* restarts, commands and budgets there are.                               *)
THEOREM OneReconcile ==
  ASSUME Timely, MaxMissed <= 1
  PROVE  Spec => []OneReconcilePerGoal
<1>1. LeaseInv => OneReconcilePerGoal
  BY DEF LeaseInv, LeaseKept, OneReconcilePerGoal
<1> QED BY <1>1, LeaseInvariant, PTL

-----------------------------------------------------------------------------
(* The snapshot.  The third look at the lease and saveSnapshot belong to   *)
(* one piece of synchronous code: no time passes and nobody else can take  *)
(* a lease that is live in between.  Nothing is assumed of the heartbeats. *)
WritingHolds == \A w \in Workers : pc[w] = "writing" => HoldsLease(w)

(* The look at the lease is still right when the snapshot is written.     *)
LEMMA WritingHoldsStep ==
  ASSUME Timely, TypeOK, WritingHolds, [Next]_vars
  PROVE  WritingHolds'
<1> USE LeaseAssumption, WorkersAssumption DEF TypeOK, RowOK, LocalsOK, WritingHolds, HoldsLease, row
<1>1. ASSUME NEW w \in Workers, WorkerStep(w)
      PROVE  WritingHolds'
  <2> SUFFICES ASSUME NEW v \in Workers, pc'[v] = "writing"
               PROVE  HoldsLease(v)'
    BY DEF HoldsLease
  <2>1. CASE AcquireLease(w)
    BY <2>1 DEF AcquireLease, TakeLease, CanAcquire, Goto
  <2>2. CASE Renew(w)
    BY <2>2 DEF Renew, TakeLease, CanAcquire, HeartbeatDue, Awaits
  <2>3. CASE ReleaseLease(w)
    BY <2>3 DEF ReleaseLease, Goto
  <2>4. ASSUME NEW a, Guard(w, a)
        PROVE  HoldsLease(v)'
    BY <2>4 DEF Guard, Enter
  <2>5. CASE UNCHANGED << leaseOwner, leaseLeft >> /\ (pc' = pc \/ \E p \in Body \cup Outside :
                                            p # "writing" /\ pc' = [pc EXCEPT ![w] = p])
    BY <2>5
  <2>6. CASE RenewRefused(w) \/ RenewFailed(w) \/ StopRenewing(w) \/ Signal(w)
    BY <2>5, <2>6 DEF RenewRefused, RenewFailed, StopRenewing, Signal
  <2>7. CASE LoadGoal(w) \/ LeaseBusy(w) \/ BeginReconcile(w) \/ LaunchActor(w) \/ SaveSnapshot(w)
              \/ SaveVerifications(w) \/ SaveDecision(w) \/ SetStatus(w) \/ Throw(w)
              \/ Crash(w) \/ Spawn(w)
    BY <2>5, <2>7 DEF LoadGoal, LeaseBusy, BeginReconcile, LaunchActor, SaveSnapshot,
       SaveVerifications, SaveDecision, SetStatus, Throw, Crash, Spawn, Goto, Enter, Body,
       Awaits, Sync, Outside
  <2>8. CASE SkipActor(w) \/ FinishLost(w)
              \/ \E o \in { "completed", "failed", "interrupted" } : FinishActor(w, o)
    BY <2>5, <2>8 DEF SkipActor, FinishLost, FinishActor, CheckAfterAct, Enter, Body, Awaits, Sync, Outside
  <2>9. ASSUME NEW d, NEW a, EndReconcile(w, d, a) \/ EndPublish(w, a)
        PROVE  HoldsLease(v)'
    BY <2>5, <2>9 DEF EndReconcile, EndPublish, Goto, Enter, Body, Awaits, Sync, Outside
  <2> QED
    BY <1>1, <2>1, <2>2, <2>3, <2>4, <2>6, <2>7, <2>8, <2>9 DEF WorkerStep
<1>2. CASE ClockAdvance
  BY <1>2 DEF ClockAdvance, Punctual, Sync
<1>3. CASE UNCHANGED << leaseOwner, leaseLeft, pc >>
  BY <1>3
<1> QED
  BY <1>1, <1>2, <1>3, NextSteps
  DEF vars, WakeUp, Humans, Start, StartCheck, StartWrite, AbandonCheck,
      AbandonWrite, AbandonDenied, Get

(* No snapshot is written, and no reconcile counted, by a process that     *)
(* does not hold an unexpired lease: tick() of controller/index.ts, also   *)
(* when the Actor outlived the last heartbeat and others took over.        *)
THEOREM SnapshotNeedsLease ==
  ASSUME Timely
  PROVE  Spec => SnapshotUnderLease
<1>1. Init => TypeOK /\ WritingHolds
  BY InitType DEF Init, WritingHolds
<1>2. TypeOK /\ WritingHolds /\ [Next]_vars => (TypeOK /\ WritingHolds)'
  BY TypeStep, WritingHoldsStep
<1>3. WritingHolds => \A w \in Workers : pc[w] = "writing" /\ pc'[w] = "verifying" => HoldsLease(w)
  BY DEF WritingHolds
<1> QED BY <1>1, <1>2, <1>3, PTL DEF Spec, SnapshotUnderLease

-----------------------------------------------------------------------------
(* From here on no tick outlives its heartbeats (Bounded), so the body of  *)
(* tick() is never entered twice.                                          *)
Renewing == \A w \in Workers : pc[w] \in Body => renewals[w] <= MaxRenewals

(* With bounded ticks every process in a tick has a running heartbeat.    *)
LEMMA RenewingStep ==
  ASSUME Bounded, TypeOK, Fresh, Renewing, [Next]_vars
  PROVE  Renewing'
<1> USE LeaseAssumption DEF TypeOK, TimersOK, LocalsOK, Renewing, Fresh, timer, Goto, Enter
<1>1. ASSUME NEW w \in Workers, WorkerStep(w)
      PROVE  Renewing'
  <2>1. CASE AcquireLease(w)
    BY <2>1 DEF AcquireLease
  <2>2. CASE Forget(w) /\ \E p \in { "idle", "dead" } : pc' = [pc EXCEPT ![w] = p]
    BY <2>2 DEF Forget, Body, Awaits, Sync
  <2>3. CASE Renew(w) \/ RenewRefused(w) \/ RenewFailed(w)
    BY <2>3 DEF Renew, RenewRefused, RenewFailed
  <2>4. CASE UNCHANGED renewals
              /\ (pc' = pc \/ \E p \in Body \cup Outside :
                    /\ pc' = [pc EXCEPT ![w] = p]
                    /\ pc[w] \in Body \/ p \notin Body)
    BY <2>4
  <2>5. CASE LoadGoal(w) \/ Throw(w) \/ Spawn(w) \/ Signal(w) \/ SetStatus(w)
    BY <2>4, <2>5 DEF LoadGoal, Throw, Spawn, Signal, SetStatus, Body, Awaits, Sync, Outside
  <2>6. CASE SkipActor(w) \/ FinishLost(w)
              \/ \E o \in { "completed", "failed", "interrupted" } : FinishActor(w, o)
    BY <2>4, <2>6 DEF SkipActor, FinishLost, FinishActor, CheckAfterAct, Body, Awaits, Sync, Outside
  <2>7. CASE BeginReconcile(w) \/ LaunchActor(w) \/ SaveSnapshot(w) \/ SaveVerifications(w) \/ SaveDecision(w)
    BY <2>4, <2>7 DEF BeginReconcile, LaunchActor, SaveSnapshot, SaveVerifications,
                      SaveDecision, Body, Awaits, Sync, Outside
  <2>8. ASSUME NEW d, NEW a, EndReconcile(w, d, a) \/ Guard(w, a) \/ EndPublish(w, a)
        PROVE  Renewing'
    BY <2>4, <2>8 DEF EndReconcile, Guard, EndPublish, Body, Awaits, Sync, Outside
  <2> QED
    BY <1>1, <2>1, <2>2, <2>3, <2>5, <2>6, <2>7, <2>8
    DEF WorkerStep, LeaseBusy, ReleaseLease, Crash, StopRenewing
<1>2. CASE ClockAdvance
  BY <1>2 DEF ClockAdvance
<1>3. CASE UNCHANGED << pc, timer >>
  BY <1>3
<1> QED
  BY <1>1, <1>2, <1>3, NextSteps
  DEF vars, WakeUp, Humans, Start, StartCheck, StartWrite, AbandonCheck,
      AbandonWrite, AbandonDenied, Get

AloneInv == LeaseInv /\ Renewing

(* So no two processes are in the body of tick() together.                *)
LEMMA Alone ==
  ASSUME MaxMissed <= 1, AloneInv, NEW v \in Workers, NEW w \in Workers, v # w, pc[v] \in Body
  PROVE  pc[w] \notin Body /\ ~CanAcquire(w)
  BY KeepsOthersOut DEF AloneInv, LeaseInv, LeaseKept, Renewing, TimerOn

(* Being alone is kept by every step.                                     *)
LEMMA AloneStep ==
  ASSUME Timely, Bounded, MaxMissed <= 1, AloneInv, [Next]_vars
  PROVE  AloneInv'
  BY TypeStep, FreshStep, LeaseKeptStep, RenewingStep DEF AloneInv, LeaseInv

(* Being alone holds initially.                                           *)
LEMMA InitAlone == Init => AloneInv
  BY InitType DEF Init, AloneInv, LeaseInv, Fresh, LeaseKept, Renewing, TimerOn, Body, Awaits, Sync

-----------------------------------------------------------------------------
(* The Actor budget.  usageOf counts the Run rows after the lease was      *)
(* taken; as nobody else is in a tick, the count is still right when the   *)
(* Run row is written.  decide() acts only if no guard of its table stops  *)
(* it, so every limit it was given has room.                               *)
LEMMA ActWithinLimits ==
  ASSUME NEW u \in Usages, NEW d, NEW a \in Possible(u, d), a.type = "ACT"
  PROVE  /\ u.runs < Budget.maxRuns
         /\ u.reconciles < Budget.maxReconciles
         /\ u.failures < Budget.maxFailures
         /\ UnchangedReconciles(u, d) < Budget.maxUnchanged
<1>1. PICK t \in ElapsedTimes, o \in Observations : a \in Decisions(Budget, u, t, d, o)
  BY DEF Possible
<1> DEFINE g == Guards(Budget, u, t, d, o)
<1>2. ASSUME NEW i \in DOMAIN g
      PROVE  g[i].stop.type # "ACT"
  <2>1. /\ Complete.type # "ACT"
        /\ \A x : Escalate(x).type # "ACT" /\ Wait(x).type # "ACT"
    BY DEF Complete, Escalate, Wait
  <2>2. i \in 1..6
    BY <1>2 DEF Guards
  <2>3. /\ g[1].stop = Escalate("budget_exhausted") /\ g[2].stop = Escalate("shape_mismatch")
        /\ g[3].stop = Complete /\ g[4].stop = Wait(WaitReason(o.unresolved))
        /\ g[5].stop = Escalate("loop_detected") /\ g[6].stop = Escalate("repeated_attempt")
    BY DEF Guards
  <2>4. i = 1 \/ i = 2 \/ i = 3 \/ i = 4 \/ i = 5 \/ i = 6
    BY <2>2
  <2> QED BY <2>1, <2>3, <2>4
<1>3. ~\E i \in DOMAIN g : g[i].when
  BY <1>1, <1>2 DEF Decisions
<1>4. ~ExhaustedBudget(Budget, u, t)
  BY <1>3 DEF Guards
<1>5. ~(UnchangedReconciles(u, d) >= Budget.maxUnchanged)
  <2>1. 5 \in DOMAIN g /\ g[5].when = (UnchangedReconciles(u, d) >= Budget.maxUnchanged)
    BY DEF Guards
  <2> QED BY <1>3, <2>1
<1>6. UnchangedReconciles(u, d) \in Nat
  BY DEF UnchangedReconciles, Usages
<1> QED BY <1>4, <1>5, <1>6, BudgetAssumption DEF ExhaustedBudget, Usages

BudgetInv ==
  /\ BudgetHeld
  /\ \A w \in Workers :
       /\ pc[w] = "observing" => usage[w].runs = Len(runs)
       /\ pc[w] = "planned" /\ plan[w].action.type = "ACT" => Len(runs) < Budget.maxRuns

(* The budget, and that a counted usage is still right, are kept.         *)
LEMMA BudgetStep ==
  ASSUME Timely, Bounded, MaxMissed <= 1, AloneInv, BudgetInv, [Next]_vars
  PROVE  BudgetInv'
<1> USE BudgetAssumption
    DEF AloneInv, LeaseInv, TypeOK, TablesOK, LocalsOK, BudgetInv, BudgetHeld, locals, Goto, Enter
<1>1. ASSUME NEW w \in Workers, WorkerStep(w)
      PROVE  BudgetInv'
  <2>1. CASE BeginReconcile(w)
    <3>1. Len(runs') = Len(runs) /\ Len(runs) \in Nat
      BY <2>1, ReclaimedType DEF BeginReconcile
    <3>2. usage'[w].runs = Len(runs)
      BY <2>1 DEF BeginReconcile, UsageOf
    <3>3. \A v \in Workers \ { w } : pc[v] \notin Body
      BY <2>1, Alone DEF BeginReconcile, Body, Sync
    <3> QED BY <2>1, <3>1, <3>2, <3>3 DEF BeginReconcile, Body, Awaits
  <2>2. ASSUME NEW d \in Digests, NEW a \in Possible(usage[w], d), EndReconcile(w, d, a)
        PROVE  BudgetInv'
    <3>1. a.type = "ACT" => Len(runs) < Budget.maxRuns
      BY <2>2, ActWithinLimits DEF EndReconcile
    <3>2. PICK p \in { "planned", "releasing" } : pc' = [pc EXCEPT ![w] = p]
      BY <2>2 DEF EndReconcile
    <3>3. plan'[w].action = a /\ UNCHANGED runs
      BY <2>2 DEF EndReconcile, Plan, tables
    <3>4. \A v \in Workers \ { w } : usage'[v] = usage[v] /\ plan'[v] = plan[v]
      BY <2>2 DEF EndReconcile, Plan
    <3> QED BY <3>1, <3>2, <3>3, <3>4
  <2>3. CASE LaunchActor(w)
    <3>1. Len(runs') = Len(runs) + 1 /\ Len(runs) \in Nat /\ Len(runs) < Budget.maxRuns
      BY <2>3 DEF LaunchActor
    <3>2. \A v \in Workers \ { w } : pc[v] \notin Body
      BY <2>3, Alone DEF LaunchActor, Body, Awaits
    <3> QED BY <2>3, <3>1, <3>2 DEF LaunchActor, Body, Awaits
  <2>4. ASSUME NEW o, FinishActor(w, o)
        PROVE  BudgetInv'
    <3>1. Len(runs') = Len(runs)
      BY <2>4 DEF FinishActor
    <3> QED BY <2>4, <3>1 DEF FinishActor, CheckAfterAct
  <2>5. ASSUME NEW p \in { "idle", "loaded", "dead", "leased", "guarding", "writing", "verifying", "publishing", "recording",
                           "settling", "releasing" },
               pc' = [pc EXCEPT ![w] = p], UNCHANGED runs,
               \A v \in Workers \ { w } : usage'[v] = usage[v] /\ plan'[v] = plan[v]
        PROVE  BudgetInv'
    BY <2>5
  <2>6. CASE LoadGoal(w) \/ AcquireLease(w) \/ SkipActor(w) \/ FinishLost(w) \/ SaveSnapshot(w)
              \/ SaveVerifications(w) \/ SaveDecision(w) \/ SetStatus(w) \/ Throw(w) \/ Spawn(w)
    BY <2>5, <2>6 DEF LoadGoal, AcquireLease, SkipActor, FinishLost, CheckAfterAct, SaveSnapshot,
       SaveVerifications, SaveDecision, SetStatus, Throw, Spawn, tables
  <2>7. CASE LeaseBusy(w) \/ ReleaseLease(w) \/ Crash(w)
    BY <2>5, <2>7 DEF LeaseBusy, ReleaseLease, Crash, Forget, tables
  <2>8. ASSUME NEW a, Guard(w, a) \/ EndPublish(w, a)
        PROVE  BudgetInv'
    BY <2>5, <2>8 DEF Guard, EndPublish, Plan, tables
  <2>9. CASE UNCHANGED << runs, usage, plan, pc >>
    BY <2>9
  <2> QED
    BY <1>1, <2>1, <2>2, <2>3, <2>4, <2>6, <2>7, <2>8, <2>9
    DEF WorkerStep, Renew, RenewRefused, RenewFailed, StopRenewing, Signal, tables
<1>2. CASE UNCHANGED << runs, usage, plan, pc >>
  BY <1>2
<1> QED
  BY <1>1, <1>2, NextSteps
  DEF vars, tables, ClockAdvance, WakeUp, Humans, Start, StartCheck, StartWrite, AbandonCheck,
      AbandonWrite, AbandonDenied, Get

(* max_actor_runs: the Actor is never launched more often than that, for   *)
(* any number of processes, crashes and takeovers (usageOf and decide()).  *)
THEOREM BudgetIsHeld ==
  ASSUME Timely, Bounded, MaxMissed <= 1
  PROVE  Spec => []BudgetHeld
<1>1. Init => BudgetInv
  BY BudgetAssumption, EmptySeq DEF Init, BudgetInv, BudgetHeld
<1>2. AloneInv /\ BudgetInv /\ [Next]_vars => (AloneInv /\ BudgetInv)'
  BY AloneStep, BudgetStep
<1>3. BudgetInv => BudgetHeld
  BY DEF BudgetInv
<1> QED BY <1>1, <1>2, <1>3, InitAlone, PTL DEF Spec

-----------------------------------------------------------------------------
(* The Run rows.  After the reclaim at the entrance no row is starting; the*)
(* only one that becomes so again is the row of the process in the tick,   *)
(* and it is settled by the process that wrote it.                         *)
RunsInv ==
  \A w \in Workers :
    /\ pc[w] \in { "observing", "planned" } => \A r \in DOMAIN runs : runs[r] # "starting"
    /\ pc[w] = "acting" => myRun[w] \in DOMAIN runs /\ runs[myRun[w]] = "starting"
    /\ pc[w] \in Body \ { "leased" } =>
         \A r \in DOMAIN runs : runs[r] = "starting" => r = myRun[w]

(* No row but that of the tick in progress becomes starting.              *)
LEMMA RunsStep ==
  ASSUME Timely, Bounded, MaxMissed <= 1, AloneInv, RunsInv, [Next]_vars
  PROVE  RunsInv'
<1> USE DEF AloneInv, LeaseInv, TypeOK, TablesOK, LocalsOK, RunsInv, Goto, Enter
<1>1. ASSUME NEW w \in Workers, WorkerStep(w)
      PROVE  RunsInv'
  <2>1. CASE BeginReconcile(w)
    <3>1. \A r \in DOMAIN runs' : runs'[r] # "starting"
      BY <2>1, ReclaimedType DEF BeginReconcile, Reclaimed
    <3>2. \A v \in Workers \ { w } : pc'[v] \notin Body
      BY <2>1, Alone DEF BeginReconcile, Body, Sync
    <3> QED BY <2>1, <3>1, <3>2 DEF BeginReconcile, Body, Awaits
  <2>2. CASE LaunchActor(w)
    <3>1. /\ DOMAIN runs = 1..Len(runs) /\ DOMAIN runs' = 1..(Len(runs) + 1) /\ Len(runs) \in Nat
          /\ runs'[Len(runs) + 1] = "starting"
          /\ \A r \in DOMAIN runs : runs'[r] = runs[r]
      BY <2>2 DEF LaunchActor
    <3>2. \A v \in Workers \ { w } : pc'[v] \notin Body
      BY <2>2, Alone DEF LaunchActor, Body, Awaits
    <3>3. pc'[w] = "acting" /\ myRun'[w] = Len(runs) + 1
      BY <2>2 DEF LaunchActor
    <3>4. \A r \in DOMAIN runs : runs[r] # "starting"
      BY <2>2 DEF LaunchActor
    <3>5. \A r \in DOMAIN runs' : runs'[r] = "starting" => r = Len(runs) + 1
      <4> HIDE DEF RunsInv, AloneInv, LeaseInv, TypeOK, TablesOK, LocalsOK
      <4>1. \A r \in 1..(Len(runs) + 1) : r \in 1..Len(runs) \/ r = Len(runs) + 1
        BY <3>1
      <4> QED BY <3>1, <3>4, <4>1
    <3> QED BY <3>1, <3>2, <3>3, <3>5 DEF Body, Awaits
  <2>3. ASSUME NEW o \in { "completed", "failed", "interrupted" }, FinishActor(w, o)
        PROVE  RunsInv'
    <3>1. \A v \in Workers \ { w } : pc'[v] \notin Body
      BY <2>3, Alone DEF FinishActor, CheckAfterAct, Body, Awaits
    <3>2. /\ DOMAIN runs' = DOMAIN runs
          /\ \A r \in DOMAIN runs : runs'[r] = IF r = myRun[w] THEN o ELSE runs[r]
      BY <2>3 DEF FinishActor
    <3>3. \A r \in DOMAIN runs' : runs'[r] # "starting"
      BY <2>3, <3>2 DEF FinishActor, Body, Awaits
    <3>4. pc'[w] \in { "guarding", "releasing" }
      BY <2>3 DEF FinishActor, CheckAfterAct
    <3> QED BY <3>1, <3>3, <3>4 DEF Body, Awaits, Sync
  <2>4. ASSUME UNCHANGED runs, pc' = pc \/ \E p \in Body \cup Outside : pc' = [pc EXCEPT ![w] = p],
               pc'[w] \in { "observing", "planned" } => pc[w] \in { "observing", "planned" },
               pc'[w] = "acting" => pc[w] = "acting",
               pc'[w] \in Body \ { "leased" } => pc[w] \in Body \ { "leased" } /\ myRun'[w] = myRun[w],
               \A v \in Workers \ { w } : myRun'[v] = myRun[v]
        PROVE  RunsInv'
    <3>1. \A v \in Workers \ { w } : pc'[v] = pc[v] /\ myRun'[v] = myRun[v]
      BY <2>4
    <3>2. pc'[w] = "acting" => myRun'[w] = myRun[w]
      BY <2>4 DEF Body, Awaits
    <3>3. ASSUME NEW v \in Workers
          PROVE  /\ pc'[v] \in { "observing", "planned" } => pc[v] \in { "observing", "planned" }
                 /\ pc'[v] = "acting" => pc[v] = "acting" /\ myRun'[v] = myRun[v]
                 /\ pc'[v] \in Body \ { "leased" } =>
                      pc[v] \in Body \ { "leased" } /\ myRun'[v] = myRun[v]
      BY <2>4, <3>1, <3>2
    <3> QED BY <2>4, <3>3
  <2> USE DEF Body, Awaits, Sync, Outside, tables, locals
  <2>5. CASE LoadGoal(w) \/ AcquireLease(w) \/ SaveSnapshot(w)
              \/ SaveVerifications(w) \/ SaveDecision(w) \/ SetStatus(w) \/ Throw(w) \/ Spawn(w)
    BY <2>4, <2>5 DEF LoadGoal, AcquireLease, SaveSnapshot,
       SaveVerifications, SaveDecision, SetStatus, Throw, Spawn
  <2>6. CASE SkipActor(w) \/ FinishLost(w)
    BY <2>4, <2>6 DEF SkipActor, FinishLost, CheckAfterAct
  <2>7. CASE LeaseBusy(w) \/ ReleaseLease(w) \/ Crash(w)
    BY <2>4, <2>7 DEF LeaseBusy, ReleaseLease, Crash, Forget
  <2>8. ASSUME NEW d, NEW a, EndReconcile(w, d, a) \/ Guard(w, a) \/ EndPublish(w, a)
        PROVE  RunsInv'
    BY <2>4, <2>8 DEF EndReconcile, Guard, EndPublish
  <2>9. CASE UNCHANGED << runs, myRun, pc >>
    BY <2>9
  <2> QED
    BY <1>1, <2>1, <2>2, <2>3, <2>5, <2>6, <2>7, <2>8, <2>9
    DEF WorkerStep, Renew, RenewRefused, RenewFailed, StopRenewing, Signal
<1>2. CASE UNCHANGED << runs, myRun, pc >>
  BY <1>2
<1> QED
  BY <1>1, <1>2, NextSteps
  DEF vars, tables, locals, ClockAdvance, WakeUp, Humans, Start, StartCheck, StartWrite,
      AbandonCheck, AbandonWrite, AbandonDenied, Get

(* The invariant of the Run rows holds in every reachable state.          *)
LEMMA RunsInvariant ==
  ASSUME Timely, Bounded, MaxMissed <= 1
  PROVE  Spec => [](AloneInv /\ RunsInv)
<1>1. Init => RunsInv
  BY DEF Init, RunsInv, Body, Awaits, Sync
<1>2. AloneInv /\ RunsInv /\ [Next]_vars => (AloneInv /\ RunsInv)'
  BY AloneStep, RunsStep
<1> QED BY <1>1, <1>2, InitAlone, PTL DEF Spec

(* reclaimOrphanRuns runs before the first observation, so a tick never    *)
(* takes a dead process's Run for one that is still going.                 *)
THEOREM NoOrphanInTick ==
  ASSUME Timely, Bounded, MaxMissed <= 1
  PROVE  Spec => []OnlyOwnRunStarting
<1>1. RunsInv => OnlyOwnRunStarting
  BY DEF RunsInv, OnlyOwnRunStarting, TimerOn
<1> QED BY <1>1, RunsInvariant, PTL

(* finishRun overwrites whatever the row holds, and reclaimOrphanRuns      *)
(* whatever is starting; still no settled outcome is ever overwritten.     *)
THEOREM SettledStaysSettled ==
  ASSUME Timely, Bounded, MaxMissed <= 1
  PROVE  Spec => SettledRunIsFinal
<1> DEFINE Kept == \A r \in DOMAIN runs :
                     runs[r] # "starting" => r \in DOMAIN runs' /\ runs'[r] = runs[r]
<1>1. ASSUME AloneInv, RunsInv, [Next]_vars
      PROVE  Kept
  <2> USE <1>1 DEF AloneInv, LeaseInv, TypeOK, TablesOK, LocalsOK
  <2>1. ASSUME NEW w \in Workers, WorkerStep(w)
        PROVE  Kept
    <3>1. CASE BeginReconcile(w)
      BY <3>1 DEF BeginReconcile, Reclaimed
    <3>2. CASE LaunchActor(w)
      BY <3>2 DEF LaunchActor
    <3>3. ASSUME NEW o \in { "completed", "failed", "interrupted" }, FinishActor(w, o)
          PROVE  Kept
      BY <3>3 DEF FinishActor, RunsInv
    <3>4. CASE UNCHANGED runs
      BY <3>4
    <3> QED
      BY <2>1, <3>1, <3>2, <3>3, <3>4
      DEF WorkerStep, LoadGoal, AcquireLease, LeaseBusy, EndReconcile, SkipActor, FinishLost,
          CheckAfterAct, Guard, SaveSnapshot, SaveVerifications, EndPublish, SaveDecision,
          SetStatus, ReleaseLease, Renew, RenewRefused, RenewFailed, StopRenewing, Throw, Signal,
          Crash, Spawn, tables
  <2>2. CASE UNCHANGED runs
    BY <2>2
  <2> QED
    BY <1>1, <2>1, <2>2, NextSteps
    DEF vars, tables, ClockAdvance, WakeUp, Humans, Start, StartCheck, StartWrite,
        AbandonCheck, AbandonWrite, AbandonDenied, Get
<1>2. AloneInv /\ RunsInv /\ [Next]_vars => [Kept]_vars
  BY <1>1
<1> QED BY <1>2, RunsInvariant, PTL DEF Spec, SettledRunIsFinal

-----------------------------------------------------------------------------
(* Run rows where ticks do overlap.  No lease and no clock is needed: the  *)
(* row of a Run that goes on is its own process's only, and all that       *)
(* others can have done to it is to reclaim it.                            *)
OwnRowInv ==
  /\ \A w \in Workers : pc[w] = "acting" =>
       myRun[w] \in DOMAIN runs /\ runs[myRun[w]] \in { "starting", "interrupted" }
  /\ \A v, w \in Workers :
       pc[v] = "acting" /\ pc[w] = "acting" /\ myRun[v] = myRun[w] => v = w

(* A Run row keeps its owner until the Actor has ended.                    *)
LEMMA OwnRowStep ==
  ASSUME TypeOK, OwnRowInv, [Next]_vars
  PROVE  OwnRowInv'
<1> USE DEF TypeOK, TablesOK, LocalsOK, OwnRowInv, Goto, Enter
<1>1. ASSUME NEW w \in Workers, WorkerStep(w)
      PROVE  OwnRowInv'
  <2>1. CASE BeginReconcile(w)
    <3>1. DOMAIN runs' = DOMAIN runs
          /\ \A r \in DOMAIN runs : runs'[r] = IF runs[r] = "starting" THEN "interrupted" ELSE runs[r]
      BY <2>1 DEF BeginReconcile, Reclaimed
    <3>2. \A v \in Workers : pc'[v] = "acting" => pc[v] = "acting" /\ myRun'[v] = myRun[v]
      BY <2>1 DEF BeginReconcile
    <3> QED BY <3>1, <3>2
  <2>2. CASE LaunchActor(w)
    <3>1. /\ DOMAIN runs = 1..Len(runs) /\ DOMAIN runs' = 1..(Len(runs) + 1) /\ Len(runs) \in Nat
          /\ runs'[Len(runs) + 1] = "starting"
          /\ \A r \in DOMAIN runs : runs'[r] = runs[r]
      BY <2>2 DEF LaunchActor
    <3>2. pc'[w] = "acting" /\ myRun'[w] = Len(runs) + 1
      BY <2>2 DEF LaunchActor
    <3>3. \A v \in Workers \ { w } : pc'[v] = pc[v] /\ myRun'[v] = myRun[v]
      BY <2>2 DEF LaunchActor
    <3>4. \A v \in Workers \ { w } : pc'[v] = "acting" =>
            /\ myRun'[v] \in DOMAIN runs /\ myRun'[v] # Len(runs) + 1
            /\ runs'[myRun'[v]] \in { "starting", "interrupted" }
      BY <3>1, <3>3
    <3>5. DOMAIN runs \subseteq DOMAIN runs' /\ Len(runs) + 1 \in DOMAIN runs'
      BY <3>1
    <3>6. ASSUME NEW v \in Workers, pc'[v] = "acting"
          PROVE  myRun'[v] \in DOMAIN runs' /\ runs'[myRun'[v]] \in { "starting", "interrupted" }
      <4> HIDE DEF TypeOK, TablesOK, LocalsOK, OwnRowInv
      <4> QED BY <3>1, <3>2, <3>4, <3>5, <3>6
    <3>7. ASSUME NEW u \in Workers, NEW v \in Workers, pc'[u] = "acting", pc'[v] = "acting",
                 myRun'[u] = myRun'[v]
          PROVE  u = v
      <4>1. CASE u = w \/ v = w
        <5> HIDE DEF TypeOK, TablesOK, LocalsOK, OwnRowInv
        <5> QED BY <3>2, <3>4, <3>7, <4>1
      <4>2. CASE u # w /\ v # w
        <5> HIDE DEF TypeOK, TablesOK, LocalsOK
        <5> QED BY <3>3, <3>7, <4>2
      <4> QED BY <4>1, <4>2
    <3> QED BY <3>6, <3>7
  <2>3. ASSUME NEW o \in { "completed", "failed", "interrupted" }, FinishActor(w, o)
        PROVE  OwnRowInv'
    <3>1. /\ DOMAIN runs' = DOMAIN runs
          /\ \A r \in DOMAIN runs : r # myRun[w] => runs'[r] = runs[r]
      BY <2>3 DEF FinishActor
    <3>2. \A v \in Workers : pc'[v] = "acting" =>
            v # w /\ pc[v] = "acting" /\ myRun'[v] = myRun[v]
      BY <2>3 DEF FinishActor, CheckAfterAct, locals
    <3>3. pc[w] = "acting"
      BY <2>3 DEF FinishActor
    <3> QED BY <3>1, <3>2, <3>3
  <2>4. ASSUME UNCHANGED runs,
               \A v \in Workers : pc'[v] = "acting" => pc[v] = "acting" /\ myRun'[v] = myRun[v]
        PROVE  OwnRowInv'
    BY <2>4
  <2> USE DEF tables, locals
  <2>5. CASE LoadGoal(w) \/ AcquireLease(w) \/ SaveSnapshot(w)
              \/ SaveVerifications(w) \/ SaveDecision(w) \/ SetStatus(w) \/ Throw(w) \/ Spawn(w)
    BY <2>4, <2>5 DEF LoadGoal, AcquireLease, SaveSnapshot,
       SaveVerifications, SaveDecision, SetStatus, Throw, Spawn
  <2>6. CASE SkipActor(w) \/ FinishLost(w)
    BY <2>4, <2>6 DEF SkipActor, FinishLost, CheckAfterAct
  <2>7. CASE LeaseBusy(w) \/ ReleaseLease(w) \/ Crash(w)
    BY <2>4, <2>7 DEF LeaseBusy, ReleaseLease, Crash, Forget
  <2>8. ASSUME NEW d, NEW a, EndReconcile(w, d, a) \/ Guard(w, a) \/ EndPublish(w, a)
        PROVE  OwnRowInv'
    BY <2>4, <2>8 DEF EndReconcile, Guard, EndPublish
  <2>9. CASE UNCHANGED << runs, myRun, pc >>
    BY <2>9
  <2> QED
    BY <1>1, <2>1, <2>2, <2>3, <2>5, <2>6, <2>7, <2>8, <2>9
    DEF WorkerStep, Renew, RenewRefused, RenewFailed, StopRenewing, Signal
<1>2. CASE UNCHANGED << runs, myRun, pc >>
  BY <1>2
<1> QED
  BY <1>1, <1>2, NextSteps
  DEF vars, tables, locals, ClockAdvance, WakeUp, Humans, Start, StartCheck, StartWrite,
      AbandonCheck, AbandonWrite, AbandonDenied, Get

(* Whatever the clock does, whoever dies or ticks too long: a settled Run  *)
(* row is overwritten only to replace a reclaim's "interrupted" by what    *)
(* became of the Actor, by the process that launched it.                   *)
THEOREM ReclaimIsCorrectedByOwner == Spec => OnlyReclaimIsCorrected
<1> DEFINE Corrected == \A r \in DOMAIN runs :
             runs[r] # "starting" /\ runs'[r] # runs[r]
               => /\ runs[r] = "interrupted"
                  /\ \E w \in Workers : pc[w] = "acting" /\ pc'[w] # "acting" /\ myRun[w] = r
<1>1. ASSUME TypeOK, OwnRowInv, [Next]_vars
      PROVE  Corrected
  <2> USE <1>1 DEF TypeOK, TablesOK, LocalsOK
  <2>1. ASSUME NEW w \in Workers, WorkerStep(w)
        PROVE  Corrected
    <3>1. CASE BeginReconcile(w)
      BY <3>1 DEF BeginReconcile, Reclaimed
    <3>2. CASE LaunchActor(w)
      BY <3>2 DEF LaunchActor
    <3>3. ASSUME NEW o \in { "completed", "failed", "interrupted" }, FinishActor(w, o)
          PROVE  Corrected
      <4>1. /\ pc[w] = "acting" /\ pc'[w] # "acting"
            /\ \A r \in DOMAIN runs : r # myRun[w] => runs'[r] = runs[r]
        BY <3>3 DEF FinishActor, CheckAfterAct, Enter
      <4> QED BY <4>1 DEF OwnRowInv
    <3>4. CASE UNCHANGED runs
      BY <3>4
    <3> QED
      BY <2>1, <3>1, <3>2, <3>3, <3>4
      DEF WorkerStep, LoadGoal, AcquireLease, LeaseBusy, EndReconcile, SkipActor, FinishLost,
          CheckAfterAct, Guard, SaveSnapshot, SaveVerifications, EndPublish, SaveDecision,
          SetStatus, ReleaseLease, Renew, RenewRefused, RenewFailed, StopRenewing, Throw, Signal,
          Crash, Spawn, tables
  <2>2. CASE UNCHANGED runs
    BY <2>2
  <2> QED
    BY <1>1, <2>1, <2>2, NextSteps
    DEF vars, tables, ClockAdvance, WakeUp, Humans, Start, StartCheck, StartWrite,
        AbandonCheck, AbandonWrite, AbandonDenied, Get
<1>2. Init => OwnRowInv
  BY DEF Init, OwnRowInv
<1>3. TypeOK /\ OwnRowInv /\ [Next]_vars => OwnRowInv' /\ [Corrected]_vars
  BY <1>1, OwnRowStep
<1> QED BY <1>2, <1>3, TypeCorrect, PTL DEF Spec, OnlyReclaimIsCorrected

-----------------------------------------------------------------------------
(* The three tables are the log of one process (ReconcileLog).  What makes *)
(* it true is that saveVerifications and saveDecision number their rows by *)
(* the row's reconciles, and that this is the round the process began: no  *)
(* other process began one since.                                          *)
Recording == { "verifying", "publishing", "recording" }

LogInv ==
  /\ \A i \in DOMAIN rounds : rounds[i].seq <= Len(snapshots)
  /\ \A i \in DOMAIN decisions : decisions[i].seq <= Len(snapshots)
  /\ \A w \in Workers : pc[w] \in Recording =>
       /\ Len(snapshots) > 0
       /\ snapshots[Len(snapshots)] = plan[w].digest
       /\ ~Log!Decided
       /\ pc[w] = "verifying" <=> ~Log!Verified

(* The rows are numbered by natural numbers.                              *)
LEMMA RowNumbers ==
  ASSUME TypeOK
  PROVE  /\ \A i \in DOMAIN rounds : rounds[i].seq \in Nat
         /\ \A i \in DOMAIN decisions : decisions[i].seq \in Nat
<1>1. ASSUME NEW i \in DOMAIN rounds PROVE rounds[i].seq \in Nat
  <2>1. rounds[i] \in Rounds
    BY <1>1, ElementOfSeq, LenProperties DEF TypeOK, TablesOK
  <2> QED BY <2>1 DEF Rounds
<1>2. ASSUME NEW i \in DOMAIN decisions PROVE decisions[i].seq \in Nat
  <2>1. decisions[i] \in Decided
    BY <1>2, ElementOfSeq, LenProperties DEF TypeOK, TablesOK
  <2> QED BY <2>1 DEF Decided
<1> QED BY <1>1, <1>2

(* Every step is a step of the abstract log or leaves the tables alone.   *)
LEMMA LogStep ==
  ASSUME Timely, Bounded, MaxMissed <= 1, AloneInv, LogInv, [Next]_vars
  PROVE  LogInv' /\ [Log!Next]_(Log!log)
<1> USE DEF AloneInv, LeaseInv, TypeOK, TablesOK, LocalsOK, Goto, Enter, Log!log
<1> DEFINE n == Len(snapshots)
<1>1. ASSUME NEW w \in Workers, WorkerStep(w)
      PROVE  LogInv' /\ [Log!Next]_(Log!log)
  <2>1. CASE SaveSnapshot(w)
    <3>1. /\ n \in Nat /\ Len(snapshots') = n + 1 /\ snapshots'[n + 1] = plan[w].digest
          /\ UNCHANGED << rounds, decisions, plan >> /\ pc' = [pc EXCEPT ![w] = "verifying"]
      BY <2>1 DEF SaveSnapshot, locals, Planned
    <3>2. \A v \in Workers \ { w } : pc'[v] \notin Body
      BY <2>1, Alone DEF SaveSnapshot, Body, Sync
    <3>3. ~(Log!Decided)' /\ ~(Log!Verified)'
      <4>1. \A i \in DOMAIN rounds : rounds[i].seq # n + 1
        BY <3>1 DEF LogInv, Rounds
      <4>2. \A i \in DOMAIN decisions : decisions[i].seq # n + 1
        BY <3>1 DEF LogInv, Decided
      <4> QED BY <3>1, <4>1, <4>2 DEF Log!Decided, Log!Verified, Log!Current
    <3>4. LogInv'
      <4>0. /\ \A i \in DOMAIN rounds : rounds[i].seq \in Nat /\ rounds[i].seq <= n
            /\ \A i \in DOMAIN decisions : decisions[i].seq \in Nat /\ decisions[i].seq <= n
        BY RowNumbers DEF LogInv
      <4>1. \A i \in DOMAIN rounds' : rounds'[i].seq <= Len(snapshots')
        BY <3>1, <4>0
      <4>2. \A i \in DOMAIN decisions' : decisions'[i].seq <= Len(snapshots')
        BY <3>1, <4>0
      <4>3. ASSUME NEW v \in Workers, pc'[v] \in Recording
            PROVE  v = w /\ pc'[v] = "verifying"
        BY <3>1, <3>2, <4>3 DEF Recording, Body, Awaits, Sync
      <4> QED BY <3>1, <3>3, <4>1, <4>2, <4>3 DEF LogInv
    <3>5. Log!Begin(plan[w].digest) /\ plan[w].digest \in Digests
      BY <2>1 DEF SaveSnapshot, Log!Begin, Planned
    <3> QED BY <3>4, <3>5 DEF Log!Next
  <2>2. CASE SaveVerifications(w)
    <3> DEFINE row0 == [seq |-> n, digest |-> plan[w].digest]
    <3>1. /\ n \in Nat /\ n > 0 /\ snapshots[n] = plan[w].digest
          /\ ~Log!Decided /\ ~Log!Verified
      BY <2>2 DEF SaveVerifications, LogInv, Recording
    <3>2. /\ rounds' = Append(rounds, row0)
          /\ UNCHANGED << snapshots, decisions, plan >> /\ pc' = [pc EXCEPT ![w] = "publishing"]
      BY <2>2 DEF SaveVerifications, locals
    <3>3. \A v \in Workers \ { w } : pc'[v] \notin Body
      BY <2>2, Alone DEF SaveVerifications, Body, Sync
    <3>4. Log!Verify
      BY <3>1, <3>2 DEF Log!Verify, Log!Current
    <3>5. /\ DOMAIN rounds = 1..Len(rounds) /\ DOMAIN rounds' = 1..(Len(rounds) + 1)
          /\ Len(rounds) \in Nat /\ rounds'[Len(rounds) + 1] = row0
          /\ \A i \in DOMAIN rounds : rounds'[i] = rounds[i]
      BY <3>2 DEF Rounds
    <3>6. (Log!Verified)' /\ ~(Log!Decided)'
      BY <3>1, <3>2, <3>5 DEF Log!Verified, Log!Decided, Log!Current
    <3>7. LogInv'
      <4>1. \A i \in DOMAIN rounds' : rounds'[i].seq <= Len(snapshots')
        BY <3>1, <3>2, <3>5 DEF LogInv
      <4>2. \A i \in DOMAIN decisions' : decisions'[i].seq <= Len(snapshots')
        BY <3>2 DEF LogInv
      <4>3. ASSUME NEW v \in Workers, pc'[v] \in Recording
            PROVE  v = w /\ pc'[v] = "publishing"
        BY <3>2, <3>3, <4>3 DEF Recording, Body, Awaits, Sync
      <4> QED BY <3>1, <3>2, <3>6, <4>1, <4>2, <4>3 DEF LogInv
    <3> QED BY <3>4, <3>7 DEF Log!Next
  <2>3. CASE SaveDecision(w)
    <3> DEFINE row0 == [seq |-> n, digest |-> plan[w].digest, action |-> plan[w].action]
    <3>1. /\ n \in Nat /\ n > 0 /\ snapshots[n] = plan[w].digest
          /\ ~Log!Decided /\ Log!Verified
      BY <2>3 DEF SaveDecision, LogInv, Recording
    <3>2. /\ decisions' = Append(decisions, row0)
          /\ UNCHANGED << snapshots, rounds, plan >> /\ pc' = [pc EXCEPT ![w] = "settling"]
      BY <2>3 DEF SaveDecision, locals
    <3>3. \A v \in Workers \ { w } : pc'[v] \notin Body
      BY <2>3, Alone DEF SaveDecision, Body, Sync
    <3>4. plan[w].action \in Actions
      BY DEF Plans
    <3>5. Log!Decide(plan[w].action)
      BY <3>1, <3>2 DEF Log!Decide, Log!Current
    <3>6. /\ DOMAIN decisions = 1..Len(decisions) /\ DOMAIN decisions' = 1..(Len(decisions) + 1)
          /\ Len(decisions) \in Nat /\ decisions'[Len(decisions) + 1] = row0
          /\ \A i \in DOMAIN decisions : decisions'[i] = decisions[i]
      BY <3>2 DEF Decided
    <3>7. LogInv'
      <4>1. \A i \in DOMAIN decisions' : decisions'[i].seq <= Len(snapshots')
        BY <3>1, <3>2, <3>6 DEF LogInv
      <4>2. \A i \in DOMAIN rounds' : rounds'[i].seq <= Len(snapshots')
        BY <3>2 DEF LogInv
      <4>3. \A v \in Workers : pc'[v] \notin Recording
        BY <3>2, <3>3 DEF Recording, Body, Awaits, Sync
      <4> QED BY <4>1, <4>2, <4>3 DEF LogInv
    <3> QED BY <3>4, <3>5, <3>7 DEF Log!Next
  <2>4. ASSUME UNCHANGED << snapshots, rounds, decisions >>,
               \A v \in Workers : pc'[v] \in Recording =>
                 /\ pc[v] \in Recording
                 /\ plan'[v].digest = plan[v].digest
                 /\ pc'[v] = "verifying" <=> pc[v] = "verifying"
        PROVE  LogInv' /\ [Log!Next]_(Log!log)
    BY <2>4 DEF LogInv, Log!Decided, Log!Verified, Log!Current
  <2>5. ASSUME NEW a, EndPublish(w, a)
        PROVE  LogInv' /\ [Log!Next]_(Log!log)
    BY <2>4, <2>5 DEF EndPublish, Plan, tables, Recording, Plans
  <2>6. ASSUME UNCHANGED << snapshots, rounds, decisions >>,
               NEW p \in (Body \cup Outside) \ Recording, pc' = [pc EXCEPT ![w] = p],
               \A v \in Workers \ { w } : plan'[v] = plan[v]
        PROVE  LogInv' /\ [Log!Next]_(Log!log)
    BY <2>4, <2>6
  <2> USE DEF tables, locals
  <2>7. CASE LoadGoal(w) \/ AcquireLease(w) \/ BeginReconcile(w) \/ LaunchActor(w) \/ SetStatus(w)
               \/ Throw(w) \/ Spawn(w)
    BY <2>6, <2>7 DEF LoadGoal, AcquireLease, BeginReconcile, LaunchActor, SetStatus, Throw, Spawn,
       Recording, Body, Awaits, Sync, Outside
  <2>8. CASE SkipActor(w) \/ FinishLost(w)
               \/ \E o \in { "completed", "failed", "interrupted" } : FinishActor(w, o)
    BY <2>6, <2>8 DEF SkipActor, FinishLost, FinishActor, CheckAfterAct, Recording, Body, Awaits,
       Sync, Outside
  <2>9. CASE LeaseBusy(w) \/ ReleaseLease(w) \/ Crash(w)
    BY <2>6, <2>9 DEF LeaseBusy, ReleaseLease, Crash, Forget, Recording, Body, Awaits, Sync, Outside
  <2>10. ASSUME NEW d, NEW a, EndReconcile(w, d, a) \/ Guard(w, a)
         PROVE  LogInv' /\ [Log!Next]_(Log!log)
    BY <2>6, <2>10 DEF EndReconcile, Guard, Plan, Recording, Body, Awaits, Sync, Outside
  <2>11. CASE UNCHANGED << snapshots, rounds, decisions, pc, plan >>
    BY <2>4, <2>11
  <2> QED
    BY <1>1, <2>1, <2>2, <2>3, <2>5, <2>7, <2>8, <2>9, <2>10, <2>11
    DEF WorkerStep, Renew, RenewRefused, RenewFailed, StopRenewing, Signal
<1>2. CASE UNCHANGED << snapshots, rounds, decisions, pc, plan >>
  BY <1>2 DEF LogInv, Log!Decided, Log!Verified, Log!Current
<1> QED
  BY <1>1, <1>2, NextSteps
  DEF vars, tables, locals, ClockAdvance, WakeUp, Humans, Start, StartCheck, StartWrite,
      AbandonCheck, AbandonWrite, AbandonDenied, Get

(* The tables many processes write are the log of a single one: tick(),    *)
(* saveSnapshot, saveVerifications and saveDecision implement ReconcileLog.*)
THEOREM TablesAreALog ==
  ASSUME Timely, Bounded, MaxMissed <= 1
  PROVE  Spec => LogSpec
<1>1. Init => LogInv /\ Log!Init
  BY DEF Init, LogInv, Log!Init, Recording
<1>2. AloneInv /\ LogInv /\ [Next]_vars => (AloneInv /\ LogInv)' /\ [Log!Next]_(Log!log)
  BY AloneStep, LogStep
<1> QED BY <1>1, <1>2, InitAlone, PTL DEF Spec, LogSpec, Log!Spec

-----------------------------------------------------------------------------
(* The other limits.  What usageOf counted under the lease is still what   *)
(* the tables say when the decision is taken, and what the decision was    *)
(* taken on is still so when the Run is written and when the decision is.  *)
Deciding == { "planned", "acting", "guarding", "writing" } \cup Recording

GroundsInv ==
  \A w \in Workers :
    /\ pc[w] = "observing" =>
         /\ usage[w].reconciles = seen[w]
         /\ usage[w].failures = ConsecutiveFailures(runs)
         /\ usage[w].digest = TrailingDigest.digest
         /\ usage[w].streak = TrailingDigest.streak
    /\ pc[w] \in Deciding /\ plan[w].action.type = "ACT" =>
         /\ seen[w] < Budget.maxReconciles
         /\ UnchangedReconciles(TrailingDigest, plan[w].digest) < Budget.maxUnchanged
         /\ pc[w] = "planned" => ConsecutiveFailures(runs) < Budget.maxFailures

(* A decision may be replaced on its way to the table, but not by an ACT.  *)
LEMMA NoNewAct ==
  ASSUME NEW w \in Workers, NEW a \in Settled(w) \cup Held(plan[w].action), a.type = "ACT"
  PROVE  a = plan[w].action
<1>1. /\ WaitUntil.type # "ACT" /\ \A x : Escalate(x).type # "ACT"
  BY DEF WaitUntil, Escalate
<1> QED BY <1>1 DEF Settled, Held, GuardStops, ActorUsageLimitDecision

(* What a tick goes by is kept by every step.                              *)
LEMMA GroundsStep ==
  ASSUME Timely, Bounded, MaxMissed <= 1, AloneInv, GroundsInv, [Next]_vars
  PROVE  GroundsInv'
<1> USE DEF AloneInv, LeaseInv, TypeOK, TablesOK, LocalsOK, Goto, Enter
<1>1. ASSUME NEW w \in Workers, WorkerStep(w)
      PROVE  GroundsInv'
  <2>0. ASSUME pc[w] \in Body
        PROVE  \A v \in Workers \ { w } : pc[v] \notin Body
    BY <2>0, Alone
  <2>1. CASE BeginReconcile(w)
    <3>1. /\ pc' = [pc EXCEPT ![w] = "observing"] /\ usage' = [usage EXCEPT ![w] = UsageOf(w)]
          /\ runs' = Reclaimed /\ UNCHANGED << decisions, seen >> /\ pc[w] \in Body
      BY <2>1 DEF BeginReconcile, Body, Sync
    <3>2. /\ usage'[w].reconciles = seen[w] /\ usage'[w].failures = ConsecutiveFailures(Reclaimed)
          /\ usage'[w].digest = TrailingDigest.digest /\ usage'[w].streak = TrailingDigest.streak
      BY <3>1 DEF UsageOf
    <3>3. TrailingDigest' = TrailingDigest
      BY <3>1 DEF TrailingDigest
    <3>4. pc'[w] = "observing" /\ \A v \in Workers \ { w } : pc'[v] \notin Body
      BY <2>0, <3>1
    <3> QED BY <3>1, <3>2, <3>3, <3>4 DEF GroundsInv, Deciding, Recording, Body, Awaits, Sync
  <2>2. ASSUME NEW d \in Digests, NEW a \in Possible(usage[w], d), EndReconcile(w, d, a)
        PROVE  GroundsInv'
    <3>1. /\ pc[w] = "observing" /\ pc'[w] \in { "planned", "releasing" }
          /\ plan'[w].action = a /\ plan'[w].digest = d
          /\ UNCHANGED << runs, decisions, seen >>
          /\ \A v \in Workers \ { w } : pc'[v] = pc[v]
      BY <2>2 DEF EndReconcile, Plan, tables
    <3>2. usage[w] \in Usages
      OBVIOUS
    <3>3. a.type = "ACT" =>
            /\ seen[w] < Budget.maxReconciles
            /\ ConsecutiveFailures(runs) < Budget.maxFailures
            /\ UnchangedReconciles(usage[w], d) < Budget.maxUnchanged
      BY <3>1, <3>2, ActWithinLimits DEF GroundsInv
    <3>4. UnchangedReconciles(usage[w], d) = UnchangedReconciles(TrailingDigest, d)
      BY <3>1 DEF GroundsInv, UnchangedReconciles
    <3>5. TrailingDigest' = TrailingDigest
      BY <3>1 DEF TrailingDigest
    <3>6. \A v \in Workers \ { w } : pc'[v] \notin Body
      BY <2>0, <3>1 DEF Body, Awaits
    <3> QED BY <3>1, <3>3, <3>4, <3>5, <3>6 DEF GroundsInv, Deciding, Recording, Body, Awaits, Sync
  <2>3. ASSUME NEW p \in { "acting", "guarding", "settling", "releasing" }, pc' = [pc EXCEPT ![w] = p],
               pc[w] \in Body, p \in Deciding => pc[w] \in Deciding,
               p # "settling" => UNCHANGED decisions, UNCHANGED << seen, plan >>
        PROVE  GroundsInv'
    <3>1. pc'[w] = p /\ \A v \in Workers \ { w } : pc'[v] \notin Body
      BY <2>0, <2>3
    <3>2. UNCHANGED decisions => TrailingDigest' = TrailingDigest
      BY DEF TrailingDigest
    <3> QED BY <2>3, <3>1, <3>2 DEF GroundsInv, Deciding, Recording, Body, Awaits, Sync
  <2>4. CASE LaunchActor(w) \/ SkipActor(w) \/ FinishLost(w) \/ SaveDecision(w)
             \/ \E o \in { "completed", "failed", "interrupted" } : FinishActor(w, o)
    BY <2>3, <2>4 DEF LaunchActor, SkipActor, FinishLost, FinishActor, CheckAfterAct, SaveDecision,
       Deciding, Recording, Body, Awaits, Sync, tables, locals
  <2>5. ASSUME UNCHANGED << runs, decisions >>,
               \A v \in Workers :
                 \/ pc'[v] \notin { "observing" } \cup Deciding
                 \/ /\ pc'[v] = "observing" /\ pc[v] = "observing"
                    /\ usage'[v] = usage[v] /\ seen'[v] = seen[v]
                 \/ /\ pc'[v] \in Deciding /\ pc[v] \in Deciding
                    /\ pc'[v] = "planned" => pc[v] = "planned"
                    /\ seen'[v] = seen[v] /\ plan'[v].digest = plan[v].digest
                    /\ plan'[v].action.type = "ACT" => plan'[v].action = plan[v].action
        PROVE  GroundsInv'
    <3>1. TrailingDigest' = TrailingDigest /\ ConsecutiveFailures(runs)' = ConsecutiveFailures(runs)
      BY <2>5 DEF TrailingDigest
    <3> SUFFICES ASSUME NEW v \in Workers
                 PROVE  /\ pc'[v] = "observing" =>
                             /\ usage'[v].reconciles = seen'[v]
                             /\ usage'[v].failures = ConsecutiveFailures(runs)
                             /\ usage'[v].digest = TrailingDigest.digest
                             /\ usage'[v].streak = TrailingDigest.streak
                        /\ pc'[v] \in Deciding /\ plan'[v].action.type = "ACT" =>
                             /\ seen'[v] < Budget.maxReconciles
                             /\ UnchangedReconciles(TrailingDigest, plan'[v].digest)
                                  < Budget.maxUnchanged
                             /\ pc'[v] = "planned" => ConsecutiveFailures(runs) < Budget.maxFailures
      BY <3>1 DEF GroundsInv
    <3>2. "observing" \notin Deciding
      BY DEF Deciding, Recording
    <3> QED BY <2>5, <3>2 DEF GroundsInv
  <2>6. ASSUME NEW a \in Settled(w) \cup Held(plan[w].action), Guard(w, a) \/ EndPublish(w, a)
        PROVE  GroundsInv'
    <3>1. /\ pc[w] \in Deciding /\ pc'[w] # "planned" /\ UNCHANGED << runs, decisions, seen, usage >>
          /\ plan'[w].digest = plan[w].digest /\ plan'[w].action = a
          /\ \A v \in Workers \ { w } : pc'[v] = pc[v] /\ plan'[v] = plan[v]
      BY <2>6 DEF Guard, EndPublish, Plan, tables, Deciding, Recording, Plans
    <3>2. a.type = "ACT" => a = plan[w].action
      BY NoNewAct
    <3>3. pc'[w] \in Deciding \cup { "releasing" }
      BY <2>6 DEF Guard, EndPublish, Deciding, Recording
    <3>4. "releasing" \notin { "observing" } \cup Deciding /\ "observing" \notin Deciding
      BY DEF Deciding, Recording
    <3> QED BY <2>5, <3>1, <3>2, <3>3, <3>4
  <2> USE DEF tables, locals
  <2>7. CASE SaveSnapshot(w) \/ SaveVerifications(w)
    BY <2>5, <2>7 DEF SaveSnapshot, SaveVerifications, Deciding, Recording
  <2>8. CASE LoadGoal(w) \/ AcquireLease(w) \/ SetStatus(w) \/ Throw(w) \/ Spawn(w)
    BY <2>5, <2>8 DEF LoadGoal, AcquireLease, SetStatus, Throw, Spawn, Deciding, Recording
  <2>9. CASE LeaseBusy(w) \/ ReleaseLease(w) \/ Crash(w)
    BY <2>5, <2>9 DEF LeaseBusy, ReleaseLease, Crash, Forget, Deciding, Recording
  <2>10. CASE UNCHANGED << runs, decisions, pc, seen, usage, plan >>
    BY <2>5, <2>10
  <2> QED
    BY <1>1, <2>1, <2>2, <2>4, <2>6, <2>7, <2>8, <2>9, <2>10
    DEF WorkerStep, Renew, RenewRefused, RenewFailed, StopRenewing, Signal
<1>2. CASE UNCHANGED << runs, decisions, pc, seen, usage, plan >>
  <2>1. TrailingDigest' = TrailingDigest /\ ConsecutiveFailures(runs)' = ConsecutiveFailures(runs)
    BY <1>2 DEF TrailingDigest
  <2> QED BY <1>2, <2>1 DEF GroundsInv
<1> QED
  BY <1>1, <1>2, NextSteps
  DEF vars, tables, locals, ClockAdvance, WakeUp, Humans, Start, StartCheck, StartWrite,
      AbandonCheck, AbandonWrite, AbandonDenied, Get

(* What a tick goes by holds in every state.                              *)
LEMMA GroundsInvariant ==
  ASSUME Timely, Bounded, MaxMissed <= 1
  PROVE  Spec => [](AloneInv /\ GroundsInv)
<1>1. Init => GroundsInv
  BY DEF Init, GroundsInv, Deciding, Recording
<1>2. AloneInv /\ GroundsInv /\ [Next]_vars => (AloneInv /\ GroundsInv)'
  BY AloneStep, GroundsStep
<1> QED BY <1>1, <1>2, InitAlone, PTL DEF Spec

(* Only saveDecision adds a decision.                                     *)
LEMMA DecisionsGrow ==
  ASSUME [Next]_vars
  PROVE  UNCHANGED decisions \/ \E w \in Workers : SaveDecision(w)
<1>1. ASSUME NEW w \in Workers, WorkerStep(w)
      PROVE  UNCHANGED decisions \/ SaveDecision(w)
  BY <1>1
  DEF WorkerStep, LoadGoal, AcquireLease, LeaseBusy, BeginReconcile, EndReconcile, LaunchActor,
      SkipActor, FinishActor, FinishLost, CheckAfterAct, Guard, SaveSnapshot, SaveVerifications,
      EndPublish, SetStatus, ReleaseLease, Renew, RenewRefused, RenewFailed, StopRenewing, Throw,
      Signal, Crash, Spawn, tables
<1> QED
  BY <1>1, NextSteps
  DEF vars, tables, ClockAdvance, WakeUp, Humans, Start, StartCheck, StartWrite,
      AbandonCheck, AbandonWrite, AbandonDenied, Get

(* The decision about to be saved is no ACT if it and those before it, as  *)
(* many as the limit, were taken on one observation.                       *)
LEMMA NoActIsSaved ==
  ASSUME TypeOK, GroundsInv, NEW w \in Workers, SaveDecision(w), plan[w].action.type = "ACT",
         Len(decisions) + 1 >= Budget.maxUnchanged,
         \A i \in (Len(decisions) + 2 - Budget.maxUnchanged)..Len(decisions) :
           decisions[i].digest = plan[w].digest
  PROVE  FALSE
<1> USE BudgetAssumption DEF TypeOK, TablesOK, LocalsOK
<1> DEFINE L == Len(decisions)
           m == Budget.maxUnchanged
           d == plan[w].digest
           S == { i \in DOMAIN decisions : decisions[i].digest = d }
<1>1. L \in Nat /\ m \in Nat /\ DOMAIN decisions = 1..L
  OBVIOUS
<1>2. UnchangedReconciles(TrailingDigest, d) < m
  BY DEF SaveDecision, GroundsInv, Deciding, Recording, Goto
<1>3. TrailingDigest.streak \in Nat
  <2> DEFINE last == decisions[L].digest
             T == { i \in DOMAIN decisions : decisions[i].digest = last }
  <2>1. TrailingCount(L, T) \in Nat
    BY <1>1, TrailingType
  <2>2. TrailingDigest.streak \in { 0, TrailingCount(L, T) }
    BY DEF TrailingDigest
  <2> QED BY <2>1, <2>2
<1>4. m >= 2
  BY <1>1, <1>2, <1>3 DEF UnchangedReconciles
<1>5. (L - (m - 1) + 1)..L \subseteq S
  <2> SUFFICES ASSUME NEW i \in (L - (m - 1) + 1)..L PROVE i \in S
    OBVIOUS
  <2>1. i \in 1..L /\ i \in (L + 2 - m)..L
    BY <1>1, <1>4
  <2> QED BY <1>1, <2>1
<1>6. TrailingCount(L, S) >= m - 1
  <2> DEFINE k == m - 1
  <2>1. k \in Nat /\ k <= L /\ (L - k + 1)..L \subseteq S
    BY <1>1, <1>4, <1>5
  <2> HIDE DEF L, S, k
  <2>2. TrailingCount(L, S) >= k
    BY <1>1, <2>1, TrailingAtLeast
  <2> QED BY <2>2 DEF k
<1>7. L \in (L - (m - 1) + 1)..L /\ decisions # <<>>
  BY <1>1, <1>4
<1>8. decisions[L].digest = d
  BY <1>5, <1>7
<1>9. TrailingDigest = [digest |-> d, streak |-> TrailingCount(L, S)]
  BY <1>7, <1>8 DEF TrailingDigest
<1> QED BY <1>1, <1>2, <1>3, <1>4, <1>6, <1>9 DEF UnchangedReconciles

(* Loop detection (decide(), usageOf): of max_unchanged_reconciles         *)
(* decisions in a row on one observation the last is never an ACT, for any *)
(* number of processes that take the Goal over from each other.            *)
THEOREM LoopIsDetected ==
  ASSUME Timely, Bounded, MaxMissed <= 1
  PROVE  Spec => []NoActOnUnchanged
<1>1. Init => NoActOnUnchanged
  BY DEF Init, NoActOnUnchanged
<1>2. ASSUME AloneInv, GroundsInv, NoActOnUnchanged, [Next]_vars
      PROVE  NoActOnUnchanged'
  <2> USE <1>2, BudgetAssumption DEF AloneInv, LeaseInv, TypeOK, TablesOK
  <2> DEFINE L == Len(decisions)
             m == Budget.maxUnchanged
  <2>1. CASE UNCHANGED decisions
    BY <2>1 DEF NoActOnUnchanged
  <2>2. ASSUME NEW w \in Workers, SaveDecision(w)
        PROVE  NoActOnUnchanged'
    <3>1. /\ L \in Nat /\ m \in Nat /\ Len(decisions') = L + 1
          /\ \A i \in 1..L : decisions'[i] = decisions[i]
          /\ decisions'[L + 1].digest = plan[w].digest
          /\ decisions'[L + 1].action = plan[w].action
      BY <2>2 DEF SaveDecision
    <3> SUFFICES ASSUME NEW n \in 1..(L + 1), n >= m,
                        \A i \in (n - m + 1)..n : decisions'[i].digest = decisions'[n].digest,
                        decisions'[n].action.type = "ACT"
                 PROVE  FALSE
      BY <3>1 DEF NoActOnUnchanged
    <3>2. CASE n \in 1..L
      <4>1. \A i \in (n - m + 1)..n : i \in 1..L
        BY <3>1, <3>2
      <4> QED BY <3>1, <3>2, <4>1 DEF NoActOnUnchanged
    <3>3. CASE n = L + 1
      <4>1. \A i \in (L + 2 - m)..L : i \in 1..L /\ i \in (n - m + 1)..n
        BY <3>1, <3>3
      <4>2. \A i \in (L + 2 - m)..L : decisions[i].digest = plan[w].digest
        BY <3>1, <3>3, <4>1
      <4> QED BY <2>2, <3>1, <3>3, <4>2, NoActIsSaved
    <3> QED BY <3>1, <3>2, <3>3
  <2> QED BY <2>1, <2>2, DecisionsGrow
<1> QED BY <1>1, <1>2, GroundsInvariant, PTL DEF Spec

(* max_consecutive_failures (decide(), usageOf): no Run row is written     *)
(* while the newest rows, as many as the limit, are all failed.            *)
THEOREM NoRunOnFailures ==
  ASSUME Timely, Bounded, MaxMissed <= 1
  PROVE  Spec => NoRunAfterFailures
<1> DEFINE Allowed == Len(runs') > Len(runs) => ConsecutiveFailures(runs) < Budget.maxFailures
<1>1. ASSUME AloneInv, GroundsInv, [Next]_vars
      PROVE  Allowed
  <2> USE <1>1 DEF AloneInv, LeaseInv, TypeOK, TablesOK, LocalsOK
  <2>1. ASSUME NEW w \in Workers, WorkerStep(w)
        PROVE  Allowed
    <3>1. CASE BeginReconcile(w)
      BY <3>1, ReclaimedType DEF BeginReconcile
    <3>2. CASE LaunchActor(w)
      BY <3>2 DEF LaunchActor, GroundsInv, Deciding, Goto
    <3>3. ASSUME NEW o \in { "completed", "failed", "interrupted" }, FinishActor(w, o)
          PROVE  Allowed
      BY <3>3 DEF FinishActor
    <3>4. CASE UNCHANGED runs
      BY <3>4
    <3> QED
      BY <2>1, <3>1, <3>2, <3>3, <3>4
      DEF WorkerStep, LoadGoal, AcquireLease, LeaseBusy, EndReconcile, SkipActor, FinishLost,
          CheckAfterAct, Guard, SaveSnapshot, SaveVerifications, EndPublish, SaveDecision,
          SetStatus, ReleaseLease, Renew, RenewRefused, RenewFailed, StopRenewing, Throw, Signal,
          Crash, Spawn, tables
  <2>2. CASE UNCHANGED runs
    BY <2>2
  <2> QED
    BY <1>1, <2>1, <2>2, NextSteps
    DEF vars, tables, ClockAdvance, WakeUp, Humans, Start, StartCheck, StartWrite,
        AbandonCheck, AbandonWrite, AbandonDenied, Get
<1>2. AloneInv /\ GroundsInv /\ [Next]_vars => [Allowed]_vars
  BY <1>1
<1> QED BY <1>2, GroundsInvariant, PTL DEF Spec, NoRunAfterFailures

-----------------------------------------------------------------------------
(* max_reconciles is judged by the count of the row read before the lease  *)
(* was taken.  Late processes read it when there was still room, and have  *)
(* not yet recorded a decision past the limit; once the limit is reached   *)
(* nobody becomes late any more, one of them wrote the last snapshot       *)
(* allowed, and each of the others adds at most one ACT.                   *)
Late ==
  { w \in Workers :
      /\ seen[w] < Budget.maxReconciles
      /\ \/ pc[w] \in { "loaded", "leased", "observing", "planned", "acting", "guarding", "writing" }
         \/ pc[w] \in Recording /\ Len(snapshots) > Budget.maxReconciles }

ActsPast ==
  { i \in DOMAIN decisions : /\ decisions[i].seq > Budget.maxReconciles
                             /\ decisions[i].action.type = "ACT" }

LateInv ==
  Len(snapshots) >= Budget.maxReconciles =>
    Cardinality(ActsPast) + Cardinality(Late) < Cardinality(Workers)

(* Both sets are finite.                                                  *)
LEMMA LateFinite ==
  ASSUME IsFiniteSet(Workers), TypeOK
  PROVE  /\ IsFiniteSet(ActsPast) /\ Cardinality(ActsPast) \in Nat
         /\ IsFiniteSet(Late) /\ Cardinality(Late) \in Nat /\ Cardinality(Late) <= Cardinality(Workers)
<1>1. ActsPast \subseteq 1..Len(decisions) /\ Len(decisions) \in Nat
  BY DEF ActsPast, TypeOK, TablesOK
<1>2. IsFiniteSet(1..Len(decisions))
  BY <1>1, FS_Interval
<1>3. Late \subseteq Workers
  BY DEF Late
<1> QED BY <1>1, <1>2, <1>3, FS_Subset, FS_CardinalityType

(* Before the limit is passed no ACT lies past it.                        *)
LEMMA NoneBefore ==
  ASSUME TypeOK, LogInv, Len(snapshots) <= Budget.maxReconciles
  PROVE  ActsPast = {} /\ Cardinality(ActsPast) = 0
<1>1. ASSUME NEW i \in DOMAIN decisions PROVE ~(decisions[i].seq > Budget.maxReconciles)
  <2>1. decisions[i].seq \in Nat /\ decisions[i].seq <= Len(snapshots) /\ Len(snapshots) \in Nat
    BY <1>1, RowNumbers DEF LogInv, TypeOK, TablesOK
  <2> QED BY <2>1, BudgetAssumption
<1>2. ActsPast = {}
  BY <1>1 DEF ActsPast
<1> QED BY <1>2, FS_EmptySet

(* A step that makes nobody late and adds no decision keeps the bound.    *)
LEMMA NobodyLater ==
  ASSUME IsFiniteSet(Workers), TypeOK, LateInv, Late' \subseteq Late, ActsPast' = ActsPast,
         Len(snapshots) >= Budget.maxReconciles
  PROVE  LateInv'
<1>1. Cardinality(Late') <= Cardinality(Late) /\ Cardinality(Late') \in Nat
  BY LateFinite, FS_Subset, FS_CardinalityType
<1>2. Cardinality(Workers) \in Nat
  BY FS_CardinalityType
<1> QED BY <1>1, <1>2, LateFinite DEF LateInv

(* An ACT past the limit is paid for by a process that is late no more.   *)
LEMMA OneForOne ==
  ASSUME NEW a \in Nat, NEW b \in Nat, NEW c \in Nat, NEW n \in Nat, a + b < n, c <= b - 1
  PROVE  (a + 1) + c < n
OBVIOUS

(* The bound is kept by every step.                                       *)
LEMMA LateStep ==
  ASSUME IsFiniteSet(Workers), Timely, Bounded, MaxMissed <= 1,
         AloneInv, LogInv, GroundsInv, LateInv, [Next]_vars
  PROVE  LateInv'
<1> USE BudgetAssumption DEF AloneInv, LeaseInv, TypeOK, TablesOK, LocalsOK, Goto, Enter
<1> DEFINE N == Len(snapshots)
           M == Budget.maxReconciles
<1>0. N \in Nat /\ M \in Nat /\ Cardinality(Workers) \in Nat
  BY FS_CardinalityType
<1>1. ASSUME NEW w \in Workers, WorkerStep(w)
      PROVE  LateInv'
  <2>1. CASE SaveSnapshot(w)
    <3>1. /\ Len(snapshots') = N + 1 /\ pc[w] = "writing" /\ pc' = [pc EXCEPT ![w] = "verifying"]
          /\ UNCHANGED << decisions, seen >>
      BY <2>1 DEF SaveSnapshot, locals
    <3>2. \A v \in Workers \ { w } : pc'[v] = pc[v] /\ pc[v] \notin Recording
      BY <2>1, <3>1, Alone DEF Recording, Body, Awaits, Sync
    <3>3. ActsPast' = ActsPast
      BY <3>1 DEF ActsPast
    <3>4. CASE N >= M
      <4>1. Late' \subseteq Late
        BY <3>1, <3>2 DEF Late
      <4> QED BY <3>3, <3>4, <4>1, NobodyLater
    <3>5. CASE N + 1 = M
      <4>1. w \notin Late'
        BY <1>0, <3>1, <3>5 DEF Late, Recording
      <4>2. Late' \subseteq Workers \ { w }
        BY <4>1 DEF Late
      <4>3. Cardinality(Workers \ { w }) = Cardinality(Workers) - 1 /\ IsFiniteSet(Workers \ { w })
        BY FS_RemoveElement
      <4>4. Cardinality(Late') <= Cardinality(Workers) - 1 /\ Cardinality(Late') \in Nat
        BY <4>2, <4>3, FS_Subset, FS_CardinalityType
      <4>5. Cardinality(ActsPast') = 0
        BY <1>0, <3>3, <3>5, NoneBefore
      <4> QED BY <1>0, <4>4, <4>5 DEF LateInv
    <3>6. CASE N + 1 < M
      BY <1>0, <3>1, <3>6 DEF LateInv
    <3> QED BY <1>0, <3>4, <3>5, <3>6
  <2>2. CASE SaveDecision(w)
    <3> DEFINE e == [seq |-> N, digest |-> plan[w].digest, action |-> plan[w].action]
               L == Len(decisions)
    <3>1. /\ decisions' = Append(decisions, e) /\ pc[w] = "recording" /\ UNCHANGED << snapshots, seen >>
          /\ pc' = [pc EXCEPT ![w] = "settling"] /\ L \in Nat
      BY <2>2 DEF SaveDecision, locals
    <3>2. Late' \subseteq Late \ { w }
      BY <3>1 DEF Late, Recording
    <3>3. DOMAIN decisions = 1..L /\ DOMAIN decisions' = 1..(L + 1)
      BY <3>1
    <3>4. \A i \in 1..L : decisions'[i] = decisions[i]
      BY <3>1
    <3>5. decisions'[L + 1] = e
      BY <3>1
    <3>6. CASE N >= M /\ ~(N > M /\ e.action.type = "ACT")
      <4>1. ActsPast' = ActsPast
        BY <3>1, <3>3, <3>4, <3>5, <3>6 DEF ActsPast
      <4> QED BY <3>2, <3>6, <4>1, NobodyLater
    <3>7. CASE N > M /\ e.action.type = "ACT"
      <4>1. w \in Late
        BY <3>1, <3>7 DEF Late, GroundsInv, Deciding, Recording
      <4>2. Cardinality(Late \ { w }) = Cardinality(Late) - 1 /\ IsFiniteSet(Late \ { w })
        BY <4>1, LateFinite, FS_RemoveElement
      <4>3. Cardinality(Late') <= Cardinality(Late) - 1 /\ Cardinality(Late') \in Nat
        BY <3>2, <4>2, FS_Subset, FS_CardinalityType
      <4>4. ActsPast' = ActsPast \cup { L + 1 }
        BY <3>1, <3>3, <3>4, <3>5, <3>7 DEF ActsPast
      <4>5. L + 1 \notin ActsPast
        BY <3>1, <3>3 DEF ActsPast
      <4>6. Cardinality(ActsPast') = Cardinality(ActsPast) + 1
        BY <4>4, <4>5, LateFinite, FS_AddElement
      <4>7. Cardinality(ActsPast) + Cardinality(Late) < Cardinality(Workers)
        BY <1>0, <3>7 DEF LateInv
      <4>8. Cardinality(ActsPast) \in Nat /\ Cardinality(Late) \in Nat
        BY LateFinite
      <4>9. Cardinality(ActsPast') + Cardinality(Late') < Cardinality(Workers)
        BY <1>0, <4>3, <4>6, <4>7, <4>8, OneForOne
      <4> QED BY <4>9 DEF LateInv
    <3>8. CASE N < M
      BY <1>0, <3>1, <3>8 DEF LateInv
    <3> QED BY <1>0, <3>6, <3>7, <3>8
  <2>3. ASSUME UNCHANGED << snapshots, decisions >>, N >= M => Late' \subseteq Late
        PROVE  LateInv'
    <3>1. ActsPast' = ActsPast
      BY <2>3 DEF ActsPast
    <3>2. CASE N >= M
      BY <2>3, <3>1, <3>2, NobodyLater
    <3>3. CASE N < M
      BY <1>0, <2>3, <3>3 DEF LateInv
    <3> QED BY <1>0, <3>2, <3>3
  <2>4. CASE LoadGoal(w)
    <3>1. N >= M => Late' \subseteq Late
      BY <1>0, <2>4 DEF LoadGoal, Late, tables
    <3> QED BY <2>3, <2>4, <3>1 DEF LoadGoal, tables
  <2> USE DEF tables, locals
  <2>5. CASE AcquireLease(w) \/ BeginReconcile(w) \/ LaunchActor(w) \/ SkipActor(w) \/ FinishLost(w)
             \/ SaveVerifications(w) \/ SetStatus(w) \/ Throw(w) \/ Spawn(w)
             \/ \E o \in { "completed", "failed", "interrupted" } : FinishActor(w, o)
    <3>1. UNCHANGED << snapshots, decisions, seen >>
      BY <2>5 DEF AcquireLease, BeginReconcile, LaunchActor, SkipActor, FinishLost, FinishActor,
         CheckAfterAct, SaveVerifications, SetStatus, Throw, Spawn
    <3>2. Late' \subseteq Late
      BY <2>5, <3>1
      DEF Late, Recording, AcquireLease, BeginReconcile, LaunchActor, SkipActor, FinishLost, FinishActor,
          CheckAfterAct, SaveVerifications, SetStatus, Throw, Spawn
    <3> QED BY <2>3, <3>1, <3>2
  <2>6. ASSUME NEW d, NEW a, EndReconcile(w, d, a) \/ Guard(w, a) \/ EndPublish(w, a)
        PROVE  LateInv'
    <3>1. UNCHANGED << snapshots, decisions, seen >>
      BY <2>6 DEF EndReconcile, Guard, EndPublish
    <3>2. Late' \subseteq Late
      BY <2>6, <3>1 DEF Late, Recording, EndReconcile, Guard, EndPublish
    <3> QED BY <2>3, <3>1, <3>2
  <2>7. CASE LeaseBusy(w) \/ ReleaseLease(w) \/ Crash(w)
    <3>1. UNCHANGED << snapshots, decisions >>
      BY <2>7 DEF LeaseBusy, ReleaseLease, Crash
    <3>2. Late' \subseteq Late
      BY <2>7, <3>1 DEF Late, Recording, LeaseBusy, ReleaseLease, Crash, Forget
    <3> QED BY <2>3, <3>1, <3>2
  <2>8. CASE UNCHANGED << snapshots, decisions, pc, seen >>
    BY <2>3, <2>8 DEF Late
  <2> QED
    BY <1>1, <2>1, <2>2, <2>4, <2>5, <2>6, <2>7, <2>8
    DEF WorkerStep, Renew, RenewRefused, RenewFailed, StopRenewing, Signal
<1>2. CASE UNCHANGED << snapshots, decisions, pc, seen >>
  BY <1>2 DEF LateInv, Late, ActsPast
<1> QED
  BY <1>1, <1>2, NextSteps
  DEF vars, tables, locals, ClockAdvance, WakeUp, Humans, Start, StartCheck, StartWrite,
      AbandonCheck, AbandonWrite, AbandonDenied, Get

(* max_reconciles (tick(), usageOf): past the limit no more ACT decisions  *)
(* are recorded than there are other processes.                            *)
THEOREM FewLateActs ==
  ASSUME IsFiniteSet(Workers), Workers # {}, Timely, Bounded, MaxMissed <= 1
  PROVE  Spec => []FewActsAfterReconciles
<1>0. Cardinality(Workers) \in Nat \ { 0 }
  BY FS_CardinalityType, FS_EmptySet
<1>1. Init => LogInv /\ GroundsInv /\ LateInv
  <2> SUFFICES ASSUME Init PROVE LogInv /\ GroundsInv /\ LateInv
    OBVIOUS
  <2>1. LogInv /\ GroundsInv
    BY DEF Init, LogInv, GroundsInv, Deciding, Recording
  <2>2. ActsPast = {} /\ Late \subseteq {}
    BY DEF Init, ActsPast, Late, Recording
  <2> QED BY <1>0, <2>1, <2>2, FS_EmptySet DEF LateInv
<1>2. ASSUME AloneInv, LogInv, GroundsInv, LateInv, [Next]_vars
      PROVE  (AloneInv /\ LogInv /\ GroundsInv /\ LateInv)'
  BY <1>2, AloneStep, LogStep, GroundsStep, LateStep
<1>3. ASSUME AloneInv, LogInv, LateInv
      PROVE  FewActsAfterReconciles
  <2>1. FewActsAfterReconciles <=> Cardinality(ActsPast) < Cardinality(Workers)
    BY DEF FewActsAfterReconciles, ActsPast
  <2>2. Len(snapshots) \in Nat /\ Budget.maxReconciles \in Nat /\ TypeOK
    BY <1>3, BudgetAssumption DEF AloneInv, LeaseInv, TypeOK, TablesOK
  <2>3. CASE Len(snapshots) >= Budget.maxReconciles
    BY <1>0, <1>3, <2>1, <2>2, <2>3, LateFinite DEF LateInv
  <2>4. CASE Len(snapshots) <= Budget.maxReconciles
    BY <1>0, <1>3, <2>1, <2>2, <2>4, NoneBefore
  <2> QED BY <2>2, <2>3, <2>4
<1>4. AloneInv /\ LogInv /\ GroundsInv /\ LateInv /\ [Next]_vars
        => (AloneInv /\ LogInv /\ GroundsInv /\ LateInv)'
  BY <1>2
<1>5. AloneInv /\ LogInv /\ LateInv => FewActsAfterReconciles
  BY <1>3
<1> QED BY <1>1, <1>4, <1>5, InitAlone, PTL DEF Spec

=============================================================================
