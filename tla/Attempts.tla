------------------------------ MODULE Attempts ------------------------------
(***************************************************************************)
(* The ledger of attempts (packages/core/src/domain/attempt.ts).  No table *)
(* holds it: it is tied together, each time it is read, from three tables  *)
(* by the times their rows carry.  A Run is closed by the first round of   *)
(* verifications that is younger than its start, and of the commit before  *)
(* and after it the youngest snapshot of the time tells.                   *)
(*                                                                         *)
(* Two readers depend on it: the guard of decide() that stops an           *)
(* implementer who ends in the same result over and over, and the copy     *)
(* that is put into the Actor's working tree at the head of each tick      *)
(* (packages/ent/src/usecase/deliver-attempts.ts).                         *)
(*                                                                         *)
(* Ticks follow one another, as LeasedTick shows they do, and any of them  *)
(* may die.  The other guards are given room enough not to interfere.  One *)
(* criterion asks for a review of the current commit, the others are       *)
(* together what VERIFY found; the reviewer's verdict is the expected one. *)
(***************************************************************************)
EXTENDS Decide

CONSTANTS
  Results,       (* what VERIFY may find while other criteria do not pass   *)
  MaxUnchanged,  (* budget.max_unchanged_reconciles                         *)
  ViewLimit,     (* ATTEMPT_VIEW_LIMIT                                      *)
  Pace,          (* how far the clock moves from OBSERVE to the Actor       *)
  MaxTicks,      (* bound: ticks of the model                               *)
  MaxFaults      (* bound: failures of ticks                                *)

ASSUME AttemptsAssumption ==
  /\ MaxUnchanged \in Nat \ {0} /\ ViewLimit \in Nat /\ Pace \in Nat
  /\ MaxTicks \in Nat /\ MaxFaults \in Nat

VARIABLES
  now,        (* the clock                                                  *)
  ticks,      (* ticks begun                                                *)
  faults,     (* ticks that died, could not read the store or the head      *)
  runs,       (* table runs: [role, status, startedAt], and its tick        *)
  snapshots,  (* table snapshots: [observedAt, head], the head carried over *)
  rounds,     (* table verifications by reconcile_seq: [verifiedAt, result] *)
  view,       (* the copy in the working tree, NoView before there is one   *)
  head,       (* the tip of the branch: how many commits it has             *)
  reviewed,   (* the commit the last review read, or NoHead                 *)
  pc,         (* the place in the tick                                      *)
  observedAt, (* observedAt of the tick                                     *)
  observed,   (* the head its Facts name, NoHead when none was ever read    *)
  found,      (* what its VERIFY found                                      *)
  judged,     (* and how it judged the criterion on the review              *)
  told        (* whether the guard could read the ledger                    *)

tables == << runs, snapshots, rounds >>
branch == << head, reviewed >>
tick   == << observedAt, observed, found, judged, told >>
vars   == << now, ticks, faults, tables, view, branch, pc, tick >>

NoRound == 0
NoHead  == -1
NoView  == {}
Passed  == "passed"

(* The row of the criterion on the review: its detail names both commits.  *)
Unread       == << "unread", NoHead, NoHead >>
SetAside     == << "set aside", NoHead, NoHead >>
Read(at, of) == << "read", at, of >>
NotYet       == [what |-> "not yet", review |-> Unread]

-----------------------------------------------------------------------------
(* buildAttempts.                                                          *)

YoungerThan(t) == { i \in DOMAIN rounds : rounds[i].verifiedAt > t }

(* Mutants: a round of the same instant closes; the last one does.         *)
ClosingAtOnce(t) ==
  LET closable == { i \in DOMAIN rounds : rounds[i].verifiedAt >= t }
  IN  IF closable = {} THEN NoRound ELSE CHOOSE i \in closable : \A j \in closable : i <= j

ClosingLast(t) ==
  IF YoungerThan(t) = {} THEN NoRound
  ELSE CHOOSE i \in YoungerThan(t) : \A j \in YoungerThan(t) : j <= i

(* closingRound: the index of the round that closes a Run started at t.    *)
ClosingRound(t) ==
  IF YoungerThan(t) = {} THEN NoRound
  ELSE CHOOSE i \in YoungerThan(t) : \A j \in YoungerThan(t) : i <= j

(* headShaAt.                                                              *)
SeenBy(t) == { i \in DOMAIN snapshots : snapshots[i].observedAt <= t /\ snapshots[i].head # NoHead }

HeadShaAt(t) ==
  IF SeenBy(t) = {} THEN NoHead
  ELSE snapshots[CHOOSE i \in SeenBy(t) : \A j \in SeenBy(t) : j <= i].head

Closed(r)  == ClosingRound(runs[r].startedAt) # NoRound
Outcome(r) == rounds[ClosingRound(runs[r].startedAt)].result
HeadAfter(r) == HeadShaAt(rounds[ClosingRound(runs[r].startedAt)].verifiedAt)

(* attemptSignature, of the attempts it is not null for.  It is the text   *)
(* of the round, of which the Gaps are a part.                             *)
Countable(r) == runs[r].role = "implement" /\ runs[r].status = "completed" /\ Closed(r)

(* trailingRepeatedAttempts: what cannot be counted is skipped.            *)
SameAsLast(r) == \A s \in DOMAIN runs : s >= r /\ Countable(s) => Outcome(s) = Outcome(r)

TrailingRepeatedAttempts == Cardinality({ r \in DOMAIN runs : Countable(r) /\ SameAsLast(r) })

-----------------------------------------------------------------------------
(* deliverAttemptLedger: the last attempts, an open one as not verified.   *)
Shown == { r \in DOMAIN runs : r > Len(runs) - ViewLimit }

Rendered ==
  { [run |-> r, result |-> IF Closed(r) THEN Outcome(r) ELSE NotYet] : r \in Shown }

Deliver == view' = IF Shown = {} THEN view ELSE Rendered

Goto(from, to) == pc = from /\ pc' = to

(* cli.ts puts the copy into place, tick() reclaims the Runs a dead tick   *)
(* has left, observes and verifies.  The head is carried over from the     *)
(* last snapshot when it cannot be read, and without the store neither the *)
(* copy is written nor does the guard see an attempt.                      *)
Reclaimed == [ r \in DOMAIN runs |->
  IF runs[r].status = "starting" THEN [ runs[r] EXCEPT !.status = "interrupted" ] ELSE runs[r] ]

CarriedHead == IF snapshots = << >> THEN NoHead ELSE snapshots[Len(snapshots)].head

Judged(at, of) == IF NoHead \in { at, of } THEN Unread ELSE Read(at, of)

AllWell    == Deliver /\ told' = TRUE /\ observed' = head /\ UNCHANGED faults
StoreFails == UNCHANGED view /\ told' = FALSE /\ observed' = head
GitFails   == Deliver /\ told' = TRUE /\ observed' = CarriedHead

BeginTick ==
  /\ Goto("idle", "deciding") /\ ticks < MaxTicks
  /\ ticks' = ticks + 1 /\ now' = now + 1 /\ observedAt' = now + 1
  /\ runs' = Reclaimed
  /\ \/ AllWell
     \/ (StoreFails \/ GitFails) /\ faults < MaxFaults /\ faults' = faults + 1
  /\ found' \in Results \cup { Passed } /\ judged' = Judged(reviewed, observed')
  /\ UNCHANGED << snapshots, rounds, branch >>

(* decide() with only the guard on attempts in reach, and maybeAct().      *)
Room   == [maxRuns |-> MaxTicks + 1, maxReconciles |-> MaxTicks + 1,
           maxFailures |-> MaxTicks + 1, maxUnchanged |-> MaxUnchanged, wallClock |-> MaxTicks]
Usage  == [runs |-> Len(runs), reconciles |-> Len(snapshots),
           failures |-> 0, digest |-> observedAt - 1, streak |-> 0]
Gaps   == found # Passed \/ judged = Unread \/ judged[2] # judged[3]
Found  == [gaps |-> Gaps, unresolved |-> { x \in { "pending" } : judged = Unread },
           repeated |-> IF told THEN TrailingRepeatedAttempts ELSE 0,
           ctx |-> [asksForReview |-> TRUE, reviewedHead |-> reviewed = observed,
                    changesRequested |-> FALSE]]

Decided == Decisions(Room, Usage, 0, observedAt, Found)

(* The Run is written ahead, maybe within the same instant as OBSERVE.     *)
StartRun ==
  /\ Goto("deciding", "acting")
  /\ now' = now + Pace
  /\ \E role \in { "implement", "review" } :
       /\ Act(role) \in Decided
       /\ runs' = Append(runs, [role |-> role, status |-> "starting",
                                startedAt |-> now', tick |-> ticks])
  /\ UNCHANGED << ticks, faults, snapshots, rounds, view, branch, tick >>

NoRunThisTick ==
  /\ Goto("deciding", "saving") /\ \E a \in Decided : a.type # "ACT"
  /\ UNCHANGED << now, ticks, faults, tables, view, branch, tick >>

FinishRun ==
  /\ Goto("acting", "saving")
  /\ \E s \in { "completed", "failed" } :
       /\ runs' = [ runs EXCEPT ![Len(runs)] = [ @ EXCEPT !.status = s ] ]
       /\ \/ runs[Len(runs)].role = "implement"
             /\ head' \in { head, head + 1 } /\ UNCHANGED reviewed
          \/ runs[Len(runs)].role = "review"
             /\ reviewed' = (IF s = "completed" THEN head ELSE reviewed) /\ UNCHANGED head
  /\ UNCHANGED << now, ticks, faults, snapshots, rounds, view, tick >>

(* pendingReviewCriteria: after an implementer the review is not judged,   *)
(* unless it had no conclusion anyway.                                     *)
ImplementRan == runs # << >> /\ runs[Len(runs)].tick = ticks /\ runs[Len(runs)].role = "implement"

Result == [what   |-> found,
           review |-> IF ImplementRan /\ judged # Unread THEN SetAside ELSE judged]

SaveSnapshot ==
  /\ Goto("saving", "saved")
  /\ snapshots' = Append(snapshots, [observedAt |-> observedAt, head |-> observed])
  /\ UNCHANGED << now, ticks, faults, runs, rounds, view, branch, tick >>

(* The locals of a tick end with it.                                       *)
ForgetTick ==
  /\ observedAt' = 0 /\ observed' = NoHead /\ found' = Passed
  /\ judged' = Unread /\ told' = TRUE

(* saveVerifications carries the time of the observation, not its own.     *)
SaveVerifications ==
  /\ pc = "saved" /\ pc' = IF Gaps THEN "idle" ELSE "completed"
  /\ rounds' = Append(rounds,
       [verifiedAt |-> observedAt, result |-> Result,
        tick |-> ticks, head |-> observed, judged |-> judged])
  /\ ForgetTick
  /\ UNCHANGED << now, ticks, faults, runs, snapshots, view, branch >>

Die ==
  /\ pc \in { "deciding", "acting", "saving", "saved" } /\ pc' = "idle"
  /\ faults < MaxFaults /\ faults' = faults + 1
  /\ ForgetTick
  /\ UNCHANGED << now, ticks, tables, view, branch >>

Init ==
  /\ now = 0 /\ ticks = 0 /\ faults = 0
  /\ runs = << >> /\ snapshots = << >> /\ rounds = << >>
  /\ view = NoView /\ head = 0 /\ reviewed = NoHead /\ pc = "idle"
  /\ observedAt = 0 /\ observed = NoHead /\ found = Passed
  /\ judged = Unread /\ told = TRUE

Next ==
  \/ BeginTick \/ StartRun \/ NoRunThisTick \/ FinishRun
  \/ SaveSnapshot \/ SaveVerifications \/ Die

Spec == Init /\ [][Next]_vars

-----------------------------------------------------------------------------
Heads == Nat \cup { NoHead }

RunRows   == [role : { "implement", "review" }, status : { "starting", "completed", "failed", "interrupted" },
              startedAt : Nat, tick : Nat]
Snapshots == [observedAt : Nat, head : Heads]
Whats     == Results \cup { Passed }
Reviews   == { Unread, SetAside } \cup { Read(a, h) : a, h \in Heads }
Rounds    == [verifiedAt : Nat, result : [what : Whats, review : Reviews],
              tick : Nat, head : Heads, judged : Reviews]

(* Every variable keeps its type.                                          *)
TypeOK ==
  /\ now \in Nat /\ ticks \in 0..MaxTicks /\ faults \in 0..MaxFaults
  /\ runs \in Seq(RunRows) /\ snapshots \in Seq(Snapshots)
  /\ rounds \in Seq(Rounds)
  /\ head \in Nat /\ reviewed \in Heads /\ observed \in Heads
  /\ pc \in { "idle", "deciding", "acting", "saving", "saved", "completed" }
  /\ observedAt \in Nat /\ told \in BOOLEAN /\ found \in Whats /\ judged \in Reviews

(* An attempt is never judged by its own tick, whose VERIFY came before it *)
(* ran, however fast it ran; and the commits it is said to have started    *)
(* from and ended at are those the two ticks had observed, also when heads *)
(* could not be read and ticks have died in between.                       *)
JudgedByALaterTick ==
  \A r \in DOMAIN runs :
    /\ Closed(r) =>
         LET c == rounds[ClosingRound(runs[r].startedAt)]
         IN  c.tick > runs[r].tick /\ HeadAfter(r) = c.head
    /\ \A i \in DOMAIN rounds :
         rounds[i].tick = runs[r].tick => HeadShaAt(runs[r].startedAt) = rounds[i].head

(* The guard on attempts lags one tick behind, since an attempt is closed  *)
(* by a tick that has ended.  Still an implementer that ends in the same   *)
(* result again and again, counting the attempts that are yet to be judged,*)
(* is let go on only once more than the limit says, and once more for each *)
(* tick that died or could not read the ledger.                            *)
Open == { r \in DOMAIN runs : runs[r].role = "implement" /\ runs[r].status = "completed" /\ ~Closed(r) }

StuckImplementerStopped ==
  TrailingRepeatedAttempts + Cardinality(Open) <= MaxUnchanged + 1 + faults

(* What the copy in the working tree says of an attempt stays what the     *)
(* ledger says, however old the copy is: an outcome is never rewritten by  *)
(* later rounds, and an attempt shown with a result has one.               *)
ViewAgreesWithLedger ==
  \A e \in view : e.result = NotYet \/ (Closed(e.run) /\ Outcome(e.run) = e.result)
=============================================================================
