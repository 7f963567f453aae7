-------------------------- MODULE Evidence_proofs --------------------------
(* The theorems about Evidence, for any criteria, any versions of the tree *)
(* and any ways in which a Port may fail.  First what COMPLETE requires of *)
(* the tick that decides it; then, each from an invariant of its own, what *)
(* is pushed, what is left behind, what is carried over and what a COMPLETE*)
(* rests on, after the types of what is known.                             *)
EXTENDS Evidence, TLAPS

(* decide() completes only what has no gap and nothing unresolved.         *)
LEMMA CompleteDecided ==
  ASSUME NEW b, NEW u, NEW t, NEW d, NEW o, Complete \in Decisions(b, u, t, d, o)
  PROVE  ~o.gaps /\ o.unresolved = {}
<1> DEFINE g == Guards(b, u, t, d, o)
<1>1. /\ Complete.type = "COMPLETE" /\ Verify.type = "VERIFY"
      /\ WaitUntil.type = "WAIT"
      /\ \A x : Escalate(x).type = "ESCALATE" /\ Wait(x).type = "WAIT" /\ Act(x).type = "ACT"
  BY DEF Complete, Escalate, Wait, Act, Verify, WaitUntil
<1>2. Complete \notin LlmChoices(o.ctx)
  BY <1>1 DEF LlmChoices
<1>3. PICK i \in DOMAIN g : g[i].stop = Complete /\ FirstGuard(g, i)
  BY <1>2 DEF Decisions
<1>4. i \in 1..6
  BY <1>3 DEF Guards
<1>5. /\ g[1].stop = Escalate("budget_exhausted") /\ g[2].stop = Escalate("shape_mismatch")
      /\ g[3].stop = Complete /\ g[4].stop = Wait(WaitReason(o.unresolved))
      /\ g[5].stop = Escalate("loop_detected") /\ g[6].stop = Escalate("repeated_attempt")
  BY DEF Guards
<1>6. i = 1 \/ i = 2 \/ i = 3 \/ i = 4 \/ i = 5 \/ i = 6
  BY <1>4
<1>7. i = 3
  BY <1>1, <1>3, <1>5, <1>6
<1>8. g[3].when
  BY <1>3, <1>7 DEF FirstGuard
<1> QED BY <1>8 DEF Guards

(* So does a tick, whichever COMPLETE it ends up with.                     *)
LEMMA CompleteMeans ==
  ASSUME NEW f, NEW o, NEW u, NEW a \in Decided(f, o, u), Essence(a) = Complete
  PROVE  Gaps(f) = {} /\ u = {}
<1>1. /\ Complete.type = "COMPLETE" /\ Verify.type = "VERIFY" /\ WaitUntil.type = "WAIT"
      /\ Escalate("budget_exhausted").type = "ESCALATE"
  BY DEF Complete, Escalate, Verify, WaitUntil
<1>2. a = Complete
  BY <1>1 DEF Essence
<1> DEFINE q == [gaps |-> Gaps(f) # {}, unresolved |-> { x[2] : x \in u }, repeated |-> 0,
                 ctx |-> Context(f, o)]
<1>3. Complete \in Decisions(Plenty, Unused, 0, 0, q)
  BY <1>1, <1>2 DEF Decided
<1>4. ~q.gaps /\ q.unresolved = {}
  BY <1>3, CompleteDecided
<1> QED BY <1>4

-----------------------------------------------------------------------------
(* Pushes.  What a tick has found untouched is still so when it pushes:    *)
(* the guard looks at all the files, so that no commit of what it saw can  *)
(* bring a protected path in.                                              *)
ProtectedInv ==
  /\ remote \notin Protected
  /\ ~made => tree = Base /\ head = Base
  /\ pc \in { "guarded", "settled", "saved" } /\ ~Unpushable => { head, tree } \cap Protected = {}

LEMMA ProtectedStep ==
  ASSUME ProtectedInv, [Next]_vars
  PROVE  ProtectedInv'
<1> USE DEF ProtectedInv, world
<1>1. CASE ObserveLocal \/ ObserveGitHub \/ Reconcile \/ NoAct \/ NotLaunched
  BY <1>1 DEF ObserveLocal, ObserveGitHub, Reconcile, NoAct, NotLaunched
<1>2. CASE RunFails
  BY <1>2 DEF RunFails, Launch
<1>3. CASE Implement \/ Review
  BY <1>3 DEF Implement, Review, Launch
<1>4. CASE Guard
  <2>1. pc' = "guarded" /\ UNCHANGED << head, tree, made, remote >>
    BY <1>4 DEF Guard
  <2>2. ~Unpushable' => ~Touched
    BY <1>4 DEF Guard, GuardedDecisions, Unpushable
  <2>3. ~Touched => { head, tree } \cap Protected = {}
    BY ProtectedAssumption DEF Touched, ProtectedInv
  <2> QED BY <2>1, <2>2, <2>3
<1>5. CASE CommitVerifiedWork
  BY <1>5 DEF CommitVerifiedWork, MayCommit, Unpushable
<1>6. CASE LeaveUncommitted
  <2>1. Unpushable => decision' = decision
    <3>1. \A x : Escalate(x).type = "ESCALATE"
      BY DEF Escalate
    <3> QED BY <1>6, <3>1 DEF LeaveUncommitted, UncommittedDecision, LeavesWorkUncommitted,
                              ClaimsNothingLeft, Unpushable
  <2> QED BY <1>6, <2>1 DEF LeaveUncommitted, Unpushable
<1>7. CASE SaveSnapshot
  BY <1>7 DEF SaveSnapshot, Unpushable
<1>8. CASE Push
  BY <1>8 DEF Push
<1>9. CASE PushNothing \/ Record \/ Crash
  BY <1>9 DEF PushNothing, Record, Crash, TickOver
<1>10. CASE Edit \/ Commit
  BY <1>10 DEF Edit, Commit, Outside, tick, Unpushable
<1>11. CASE UNCHANGED vars
  BY <1>11 DEF vars, tick, Unpushable
<1> QED
  BY <1>1, <1>2, <1>3, <1>4, <1>5, <1>6, <1>7, <1>8, <1>9, <1>10, <1>11 DEF Next, Tick, World

(* No version that touches a protected path becomes the head of the pull   *)
(* request, whatever the Actor does and wherever ticks die.                *)
THEOREM ProtectedStaysHome == Spec => []ProtectedNeverPushed
<1>1. Init => ProtectedInv
  <2>1. Init => remote = Absent /\ tree = Base /\ head = Base /\ pc = "idle"
    BY DEF Init
  <2> QED BY <2>1, ProtectedAssumption, AbsentAssumption DEF ProtectedInv
<1>2. ProtectedInv => ProtectedNeverPushed
  BY DEF ProtectedInv, ProtectedNeverPushed
<1> QED BY <1>1, <1>2, ProtectedStep, PTL DEF Spec

-----------------------------------------------------------------------------
(* Work that no commit holds.  A tick that may still complete the Goal has *)
(* either seen it lie there or met a failure that keeps it from completing.*)
WorkInv ==
  /\ unsaved => made /\ tree # head
  /\ pc # "idle" => ~completed
  /\ completed => ~unsaved
  /\ pc \in { "local", "observed" } /\ unsaved => sawLeftovers \/ unresolved # {}
  /\ pc \in { "decided", "acted", "guarded" } /\ decision = Complete /\ unsaved => sawLeftovers
  /\ pc \in { "settled", "saved", "published" } /\ decision = Complete => ~unsaved

(* No ACT, no Escalate and no VERIFY is a COMPLETE.                        *)
LEMMA NotComplete ==
  /\ \A x : Act(x) # Complete /\ Escalate(x) # Complete
  /\ Verify # Complete /\ Complete.type = "COMPLETE"
<1>1. /\ Complete.type = "COMPLETE" /\ Verify.type = "VERIFY"
      /\ \A x : Act(x).type = "ACT" /\ Escalate(x).type = "ESCALATE"
  BY DEF Complete, Act, Escalate, Verify
<1> QED BY <1>1

LEMMA WorkStep ==
  ASSUME WorkInv, [Next]_vars
  PROVE  WorkInv'
<1> USE DEF WorkInv, world
<1>1. CASE ObserveLocal
  <2>1. /\ pc = "idle" /\ pc' = "local" /\ ~completed
        /\ UNCHANGED << unsaved, made, tree, head, completed >>
    BY <1>1 DEF ObserveLocal
  <2>2. made /\ tree # head => sawLeftovers' \/ unresolved' # {}
    <3>1. PICK local, rev \in { {} } \cup { { e } : e \in PortErrors } :
            /\ unresolved' = ({ "local" } \X local) \cup (ReviewKeys \X rev)
                               \cup (IF rev = {} THEN ReviewUnclear ELSE {})
            /\ sawLeftovers' = (local = {} /\ made /\ tree # head)
      BY <1>1 DEF ObserveLocal
    <3>2. CASE local = {}
      BY <3>1, <3>2
    <3>3. ASSUME NEW e \in local
          PROVE  unresolved' # {}
      <4>1. << "local", e >> \in { "local" } \X local
        BY <3>3
      <4> QED BY <3>1, <4>1
    <3> QED BY <3>2, <3>3
  <2> QED BY <2>1, <2>2
<1>2. CASE ObserveGitHub
  BY <1>2 DEF ObserveGitHub
<1>3. CASE Reconcile
  <2>1. /\ pc = "observed" /\ pc' = "decided"
        /\ UNCHANGED << unsaved, made, tree, head, completed, sawLeftovers >>
    BY <1>3 DEF Reconcile
  <2>2. decision' = Complete => unresolved = {}
    <3>1. PICK v, f, a :
            a \in Decided(f, seen, unresolved \cup UnverifiedOf(v)) /\ decision' = Essence(a)
      BY <1>3 DEF Reconcile
    <3> QED BY <3>1, CompleteMeans
  <2> QED BY <2>1, <2>2
<1>4. CASE NoAct \/ NotLaunched
  BY <1>4 DEF NoAct, NotLaunched
<1>5. CASE RunFails
  <2>1. decision # Complete /\ pc = "decided" /\ pc' = "acted"
        /\ UNCHANGED << unsaved, tree, head, completed, decision >> /\ (made => made')
    BY <1>5, NotComplete DEF RunFails, Launch
  <2> QED BY <2>1
<1>6. CASE Implement
  <2>1. decision # Complete /\ pc = "decided" /\ pc' = "acted" /\ UNCHANGED << completed, decision >>
    BY <1>6, NotComplete DEF Implement, Launch
  <2>2. unsaved' => made' /\ tree' # head'
    BY <1>6 DEF Implement
  <2> QED BY <2>1, <2>2
<1>7. CASE Review
  <2>1. decision # Complete /\ pc = "decided" /\ pc' = "acted"
        /\ UNCHANGED << unsaved, tree, head, completed, decision >> /\ made'
    BY <1>7, NotComplete DEF Review, Launch
  <2> QED BY <2>1
<1>8. CASE Guard
  <2>1. decision' = Complete => decision = Complete
    BY <1>8, NotComplete DEF Guard, GuardedDecisions
  <2> QED BY <1>8, <2>1 DEF Guard
<1>9. CASE CommitVerifiedWork
  BY <1>9 DEF CommitVerifiedWork
<1>10. CASE LeaveUncommitted
  <2>1. decision' = Complete => decision = Complete /\ ~sawLeftovers
    BY <1>10, NotComplete DEF LeaveUncommitted, UncommittedDecision, LeavesWorkUncommitted, ClaimsNothingLeft
  <2> QED BY <1>10, <2>1 DEF LeaveUncommitted
<1>11. CASE SaveSnapshot \/ Push \/ PushNothing
  BY <1>11 DEF SaveSnapshot, Push, PushNothing
<1>12. CASE Record
  <2>1. /\ pc = "published" /\ pc' = "idle" /\ UNCHANGED << unsaved, made, tree, head >>
        /\ (completed' => decision = Complete)
    BY <1>12 DEF Record, TickOver
  <2> QED BY <2>1
<1>13. CASE Crash
  BY <1>13 DEF Crash, TickOver
<1>14. CASE Edit
  <2>1. /\ made /\ ~completed /\ UNCHANGED << made, head, completed, pc, sawLeftovers, unresolved, decision >>
        /\ (unsaved' => unsaved /\ tree' # head')
    BY <1>14 DEF Edit, Outside, tick
  <2> QED BY <2>1
<1>15. CASE Commit
  <2>1. ~unsaved' /\ UNCHANGED << completed, pc >>
    BY <1>15 DEF Commit, Outside, tick
  <2> QED BY <2>1
<1>16. CASE UNCHANGED vars
  BY <1>16 DEF vars, tick
<1> QED
  BY <1>1, <1>2, <1>3, <1>4, <1>5, <1>6, <1>7, <1>8, <1>9, <1>10, <1>11, <1>12, <1>13, <1>14,
     <1>15, <1>16 DEF Next, Tick, World

(* A Goal is completed with nothing of its Actor's work uncommitted,       *)
(* although what is uncommitted is looked at before the Actor, the guard   *)
(* and people have had their turn.                                         *)
THEOREM NothingLeftBehind == Spec => []NoWorkLeftBehind
<1>1. Init => WorkInv
  <2>1. Init => ~unsaved /\ pc = "idle" /\ ~completed
    BY DEF Init
  <2> QED BY <2>1 DEF WorkInv
<1>2. WorkInv => NoWorkLeftBehind
  BY DEF WorkInv, NoWorkLeftBehind
<1> QED BY <1>1, <1>2, WorkStep, PTL DEF Spec

-----------------------------------------------------------------------------
(* What is carried from tick to tick.  How facts are laid over facts:      *)
LEMMA LaidFacts ==
  ASSUME NEW a, NEW b, NEW k \in FactKeys
  PROVE  Laid(a, b)[k] = IF b[k] = Absent THEN a[k] ELSE b[k]
  BY DEF Laid

LEMMA NamesOfFacts ==
  /\ \A k, l \in FactKeys : \A v : Fact(k, v)[l] = IF l = k THEN v ELSE Absent
  /\ \A k \in FactKeys : NoFacts[k] = Absent
  /\ { "local.head_sha", "github.pr.head_sha", "github.ci.conclusion", "github.pr.unresolved_threads",
       "review.verdict", "review.reviewed_sha", "test", "ci", "threads", "review", "human" } = FactKeys
  BY DEF Fact, NoFacts, FactKeys, Observations, Criteria

(* A read of GitHub tells nothing of the worktree or the review, and the   *)
(* conclusion it tells is that of the head it tells.                       *)
LEMMA GitHubFacts ==
  ASSUME NEW r \in GitHubReads
  PROVE  /\ \A k \in { "local.head_sha", "review.verdict", "review.reviewed_sha" } : r[1][k] = Absent
         /\ \/ r[1]["github.pr.head_sha"] = Absent /\ r[1]["github.ci.conclusion"] = Absent
            \/ /\ remote # Absent /\ r[1]["github.pr.head_sha"] = remote
               /\ r[1]["github.ci.conclusion"] \in { Absent, ConclusionOf(remote) }
<1>1. CASE r[1] = NoFacts
  BY <1>1, NamesOfFacts
<1>2. ASSUME NEW t \in ThreadReads, NEW c \in CiReads, remote # Absent,
             r[1] = Laid(Laid(Fact("github.pr.head_sha", remote), t), c[1])
      PROVE  /\ \A k \in { "local.head_sha", "review.verdict", "review.reviewed_sha" } : r[1][k] = Absent
             /\ r[1]["github.pr.head_sha"] = remote
             /\ r[1]["github.ci.conclusion"] \in { Absent, ConclusionOf(remote) }
  <2>1. \A k \in FactKeys : k # "github.pr.unresolved_threads" => t[k] = Absent
    BY NamesOfFacts DEF ThreadReads
  <2>2. c[1] = NoFacts \/ c[1] = Fact("github.ci.conclusion", ConclusionOf(remote))
    BY DEF CiReads
  <2>3. /\ \A k \in FactKeys : k # "github.ci.conclusion" => c[1][k] = Absent
        /\ c[1]["github.ci.conclusion"] \in { Absent, ConclusionOf(remote) }
    BY <2>2, NamesOfFacts
  <2>4. \A k \in FactKeys : k # "github.pr.head_sha" => Fact("github.pr.head_sha", remote)[k] = Absent
    BY NamesOfFacts
  <2>5. Fact("github.pr.head_sha", remote)["github.pr.head_sha"] = remote
    BY NamesOfFacts
  <2> HIDE DEF Fact
  <2>6. \A k \in FactKeys : r[1][k] = IF c[1][k] # Absent THEN c[1][k] ELSE
                                      IF t[k] # Absent THEN t[k] ELSE Fact("github.pr.head_sha", remote)[k]
    BY <1>2, LaidFacts
  <2> QED BY <2>1, <2>3, <2>4, <2>5, <2>6, NamesOfFacts
<1>3. r[1] = NoFacts \/ (remote # Absent /\ \E t \in ThreadReads, c \in CiReads :
                           r[1] = Laid(Laid(Fact("github.pr.head_sha", remote), t), c[1]))
  BY DEF GitHubReads
<1> QED BY <1>1, <1>2, <1>3

(* Nor is it a judgement of a criterion.                                   *)
LEMMA CriteriaUnread ==
  ASSUME NEW r \in GitHubReads, NEW k \in Criteria
  PROVE  r[1][k] = Absent
<1>1. k \in FactKeys /\ k \notin Observations
  BY DEF FactKeys, Criteria, Observations
<1>2. CASE r[1] = NoFacts
  BY <1>1, <1>2, NamesOfFacts
<1>3. ASSUME NEW t \in ThreadReads, NEW c \in CiReads,
             r[1] = Laid(Laid(Fact("github.pr.head_sha", remote), t), c[1])
      PROVE  r[1][k] = Absent
  <2>1. t[k] = Absent
    BY <1>1, NamesOfFacts DEF ThreadReads, Observations
  <2>2. c[1][k] = Absent
    BY <1>1, NamesOfFacts DEF CiReads, Observations
  <2>3. Fact("github.pr.head_sha", remote)[k] = Absent
    BY <1>1, NamesOfFacts DEF Observations
  <2> HIDE DEF Fact
  <2> QED BY <1>1, <1>3, <2>1, <2>2, <2>3, LaidFacts
<1> QED BY <1>2, <1>3 DEF GitHubReads

(* Carried over to a new head, a conclusion is dropped; read, it is that   *)
(* of the head it was read with.                                           *)
LEMMA MergeFits ==
  ASSUME NEW before, NEW new, ConclusionFits(before), ConclusionFits(new)
  PROVE  ConclusionFits(MergeFacts(ExpireStaleFacts(before, new), new))
<1> DEFINE o == MergeFacts(ExpireStaleFacts(before, new), new)
           h == "github.pr.head_sha"
           c == "github.ci.conclusion"
<1>1. h \in FactKeys /\ c \in FactKeys
  BY NamesOfFacts
<1>2. o[h] = IF new[h] = Absent THEN before[h] ELSE new[h]
  <2>1. h \notin StaleKeys(before, new)
    BY DEF StaleKeys
  <2> QED BY <1>1, <2>1 DEF MergeFacts, Laid, ExpireStaleFacts
<1>3. o[c] = IF new[c] = Absent
             THEN IF HeadShaChanged(before, new) THEN Absent ELSE before[c]
             ELSE new[c]
  <2>1. c \in StaleKeys(before, new) <=> HeadShaChanged(before, new)
    BY DEF StaleKeys
  <2> QED BY <1>1, <2>1 DEF MergeFacts, Laid, ExpireStaleFacts
<1>4. ConclusionFits(o) <=> (o[c] # Absent => o[h] # Absent /\ o[c] = ConclusionOf(o[h]))
  BY DEF ConclusionFits
<1> HIDE DEF o
<1>5. ConclusionFits(o)
  BY <1>2, <1>3, <1>4 DEF ConclusionFits, HeadShaChanged
<1> QED BY <1>5 DEF o

(* The facts of a tick: what it has read, on top of what was carried, and  *)
(* what it has judged.  Nothing was carried of a review before there was   *)
(* one, and nothing at all of a criterion that is not declared.            *)
IsDeclared(f) == \A c \in Criteria \ criteria : f[c] = Absent
IsReviewless(f) == f["review.verdict"] = Absent /\ f["review.reviewed_sha"] = Absent

FactsInv ==
  /\ criteria \subseteq Criteria
  /\ ConclusionOfItsHead
  /\ pc = "local" => seen["github.pr.head_sha"] = Absent /\ seen["github.ci.conclusion"] = Absent
  /\ review = Absent => IsReviewless(carried) /\ IsReviewless(facts) /\ IsReviewless(seen)
  /\ IsDeclared(carried) /\ IsDeclared(facts) /\ IsDeclared(seen)

(* NoFacts are facts of every kind.                                        *)
LEMMA NoFactsFit == ConclusionFits(NoFacts) /\ IsReviewless(NoFacts) /\ IsDeclared(NoFacts)
  BY NamesOfFacts DEF ConclusionFits, IsReviewless, IsDeclared, Criteria

(* The first read: the worktree and the review.                            *)
LEMMA LocalFacts ==
  ASSUME ObserveLocal
  PROVE  /\ seen'["github.pr.head_sha"] = Absent /\ seen'["github.ci.conclusion"] = Absent
         /\ \A c \in Criteria : seen'[c] = Absent
         /\ review = Absent => IsReviewless(seen)'
<1>1. PICK l \in { LocalRead, NoFacts }, r \in { ReviewRead, NoFacts } : seen' = Laid(l, r)
  <2>1. PICK local, rev : seen' = Laid(IF local = {} THEN LocalRead ELSE NoFacts,
                                       IF rev = {} THEN ReviewRead ELSE NoFacts)
    BY DEF ObserveLocal
  <2> QED BY <2>1
<1>2. \A k \in FactKeys : k # "local.head_sha" => l[k] = Absent
  BY NamesOfFacts DEF LocalRead
<1>3. \A k \in FactKeys : /\ k \notin ReviewKeys => r[k] = Absent
                          /\ review = Absent => r[k] = Absent
  <2>1. CASE r = NoFacts
    BY <2>1, NamesOfFacts
  <2>2. CASE r = ReviewRead /\ review \notin { Absent, <<>> }
    <3>1. r = Laid(Fact("review.verdict", review[1]), Fact("review.reviewed_sha", review[2]))
      BY <2>2 DEF ReviewRead
    <3>2. \A k \in FactKeys : k \notin ReviewKeys => /\ Fact("review.verdict", review[1])[k] = Absent
                                                    /\ Fact("review.reviewed_sha", review[2])[k] = Absent
      <4>1. "review.verdict" \in FactKeys /\ "review.reviewed_sha" \in FactKeys
        BY NamesOfFacts
      <4>2. \A k \in FactKeys : k \notin ReviewKeys => k # "review.verdict" /\ k # "review.reviewed_sha"
        BY DEF ReviewKeys
      <4> QED BY <4>1, <4>2, NamesOfFacts
    <3>3. \A k \in FactKeys : k \notin ReviewKeys => r[k] = Absent
      BY <3>1, <3>2, LaidFacts
    <3> QED BY <2>2, <3>3
  <2> QED BY <2>1, <2>2 DEF ReviewRead
<1>4. \A k \in FactKeys : seen'[k] = IF r[k] = Absent THEN l[k] ELSE r[k]
  BY <1>1, LaidFacts
<1>5. Criteria \subseteq FactKeys /\ Criteria \cap Observations = {}
  BY DEF FactKeys, Criteria, Observations
<1> QED BY <1>2, <1>3, <1>4, <1>5, NamesOfFacts DEF ReviewKeys, IsReviewless, Criteria

(* The judgements of a tick name declared criteria only.                   *)
LEMMA JudgedFacts ==
  ASSUME NEW v, DOMAIN v = criteria, criteria \subseteq Criteria
  PROVE  /\ \A k \in Observations : FactsOf(v)[k] = Absent
         /\ IsDeclared(FactsOf(v))
  BY DEF FactsOf, IsDeclared, FactKeys, Observations, Criteria

(* RECONCILE keeps all of it.                                              *)
LEMMA ReconcileFacts ==
  ASSUME FactsInv, Reconcile
  PROVE  FactsInv'
<1>1. PICK ready \in BOOLEAN, ran \in CommandOutcomes, asked \in HumanOutcomes :
        LET o == MergeFacts(ExpireStaleFacts(carried, seen), seen)
        IN  facts' = MergeFacts(o, FactsOf(Verified(o, ready, ran, asked)))
  BY DEF Reconcile
<1> DEFINE o == MergeFacts(ExpireStaleFacts(carried, seen), seen)
           v == Verified(o, ready, ran, asked)
<1>2. DOMAIN v = criteria
  BY DEF Verified
<1>3. facts' = MergeFacts(o, FactsOf(v))
  BY <1>1
<1>4. /\ ConclusionFits(o)
      /\ review = Absent => IsReviewless(o)
      /\ IsDeclared(o)
  <2>1. ConclusionFits(o)
    BY MergeFits DEF FactsInv, ConclusionOfItsHead
  <2>2. \A k \in FactKeys : o[k] \in { carried[k], seen[k], Absent }
    BY DEF MergeFacts, Laid, ExpireStaleFacts
  <2>3. { "review.verdict", "review.reviewed_sha" } \cup Criteria \subseteq FactKeys
    BY DEF FactKeys, Observations
  <2> HIDE DEF o
  <2> QED BY <2>1, <2>2, <2>3 DEF FactsInv, IsReviewless, IsDeclared
<1> HIDE DEF o, v
<1>5. \A k \in Observations : facts'[k] = o[k]
  BY <1>2, <1>3, JudgedFacts, LaidFacts DEF FactsInv, MergeFacts, FactKeys
<1>6. \A k \in Criteria : facts'[k] \in { o[k], FactsOf(v)[k] }
  BY <1>3, LaidFacts DEF MergeFacts, FactKeys
<1>7. IsDeclared(facts)'
  BY <1>2, <1>4, <1>6, JudgedFacts DEF IsDeclared, FactsInv, Reconcile
<1>8. ConclusionFits(facts)' /\ (review = Absent => IsReviewless(facts)')
  BY <1>4, <1>5 DEF ConclusionFits, IsReviewless, Observations
<1> QED
  BY <1>7, <1>8, NoFactsFit DEF FactsInv, Reconcile, ConclusionOfItsHead, world, IsDeclared

(* The declaration never changes, the tree holds versions it can have, and *)
(* a review is of a commit.                                                *)
RangeInv ==
  /\ criteria \in CriteriaSets
  /\ tree \in Commits /\ head \in Commits
  /\ IsReview(review)

LEMMA RangeStep ==
  ASSUME RangeInv, [Next]_vars
  PROVE  RangeInv'
<1> USE DEF RangeInv, world
<1>1. Versions[criteria] \subseteq Commits
  BY DEF Commits
<1>2. CASE \/ ObserveLocal \/ ObserveGitHub \/ Reconcile \/ NoAct \/ NotLaunched \/ RunFails \/ Guard
           \/ CommitVerifiedWork \/ LeaveUncommitted \/ SaveSnapshot \/ Push \/ PushNothing \/ Record
           \/ Crash \/ UNCHANGED vars
  BY <1>2 DEF ObserveLocal, ObserveGitHub, Reconcile, NoAct, NotLaunched, RunFails, Launch, Guard,
              CommitVerifiedWork, LeaveUncommitted, SaveSnapshot, Push, PushNothing, Record, Crash, vars
<1>3. CASE Implement
  BY <1>1, <1>3 DEF Implement, Launch
<1>4. CASE Review
  <2>1. UNCHANGED << criteria, tree, head >>
    BY <1>4 DEF Review, Launch
  <2>2. review' = <<>> \/ \E verdict \in Verdicts : review' = << verdict, head >>
    BY <1>4 DEF Review
  <2> QED BY <2>1, <2>2 DEF IsReview
<1>5. CASE Edit \/ Commit
  BY <1>1, <1>5 DEF Edit, Commit, Outside
<1> QED BY <1>2, <1>3, <1>4, <1>5 DEF Next, Tick, World

LEMMA InitRange ==
  ASSUME Init
  PROVE  RangeInv /\ FactsInv
<1>1. criteria \in CriteriaSets /\ Base \in Commits
  BY VersionsAssumption DEF Init, Commits
<1>2. criteria \subseteq Criteria
  BY <1>1, CriteriaAssumption
<1>3. carried = NoFacts /\ seen = NoFacts /\ facts = NoFacts /\ pc = "idle"
      /\ review = Absent /\ tree = Base /\ head = Base
  BY DEF Init
<1> QED
  BY <1>1, <1>2, <1>3, NoFactsFit DEF RangeInv, FactsInv, ConclusionOfItsHead, IsReview

LEMMA FactsStep ==
  ASSUME RangeInv, FactsInv, [Next]_vars
  PROVE  FactsInv'
<1> USE DEF FactsInv, ConclusionOfItsHead, world
<1>1. CASE ObserveLocal
  <2>1. ConclusionFits(seen)' /\ IsDeclared(seen)'
    BY <1>1, LocalFacts DEF ConclusionFits, IsDeclared, ObserveLocal
  <2> QED BY <1>1, <2>1, LocalFacts DEF ObserveLocal, IsDeclared, IsReviewless
<1>2. CASE ObserveGitHub
  <2>1. PICK r \in GitHubReads : seen' = Laid(seen, r[1])
    BY <1>2 DEF ObserveGitHub
  <2>2. \A k \in FactKeys : seen'[k] = IF r[1][k] = Absent THEN seen[k] ELSE r[1][k]
    BY <2>1, LaidFacts
  <2>3. pc = "local" /\ pc' = "observed"
        /\ UNCHANGED << criteria, carried, facts, review, remote >>
    BY <1>2 DEF ObserveGitHub
  <2>4. ConclusionFits(seen)'
    <3>1. { "github.pr.head_sha", "github.ci.conclusion" } \subseteq FactKeys
      BY NamesOfFacts
    <3> QED BY <2>2, <2>3, <3>1, GitHubFacts DEF ConclusionFits
  <2>5. review = Absent => IsReviewless(seen)'
    BY <2>2, <2>3, GitHubFacts, NamesOfFacts DEF IsReviewless
  <2>6. IsDeclared(seen)'
    <3>1. \A c \in Criteria : c \in FactKeys /\ r[1][c] = Absent
      BY CriteriaUnread, NamesOfFacts DEF Criteria
    <3> QED BY <2>2, <2>3, <3>1 DEF IsDeclared
  <2> QED BY <2>3, <2>4, <2>5, <2>6 DEF IsDeclared, IsReviewless
<1>3. CASE Reconcile
  BY <1>3, ReconcileFacts
<1>4. CASE \/ NoAct \/ NotLaunched \/ RunFails \/ Implement \/ Guard \/ CommitVerifiedWork \/ LeaveUncommitted
           \/ Push \/ PushNothing \/ Edit \/ Commit \/ UNCHANGED vars
  <2>1. UNCHANGED << criteria, carried, facts, seen, review >> /\ (pc' = "local" => pc = "local")
    BY <1>4 DEF NoAct, NotLaunched, RunFails, Implement, Launch, Guard, CommitVerifiedWork, LeaveUncommitted,
                Push, PushNothing, Edit, Commit, Outside, tick, vars
  <2> QED BY <2>1 DEF ConclusionFits, IsReviewless, IsDeclared
<1>5. CASE Review
  <2>1. UNCHANGED << criteria, carried, facts, seen >> /\ pc' = "acted"
    BY <1>5 DEF Review, Launch
  <2>2. review' # Absent
    <3>1. review' = <<>> \/ \E verdict \in Verdicts : review' = << verdict, head >>
      BY <1>5 DEF Review
    <3> QED BY <3>1, AbsentAssumption DEF RangeInv
  <2> QED BY <2>1, <2>2 DEF ConclusionFits, IsDeclared
<1>6. CASE SaveSnapshot
  <2>1. /\ pc' = "saved" /\ seen' = NoFacts /\ facts' = NoFacts /\ UNCHANGED << criteria, review >>
        /\ carried' = PendingReviewCriteria(facts)
    BY <1>6 DEF SaveSnapshot, Forget
  <2>2. \A k \in FactKeys : k # "review" => carried'[k] = facts[k]
    BY <2>1 DEF PendingReviewCriteria
  <2>3. carried'["review"] \in { facts["review"], Absent }
    BY <2>1, NamesOfFacts DEF PendingReviewCriteria
  <2>4. ConclusionFits(carried)' /\ IsDeclared(carried)' /\ (review = Absent => IsReviewless(carried)')
    BY <2>1, <2>2, <2>3, NamesOfFacts DEF ConclusionFits, IsDeclared, IsReviewless, Criteria
  <2> QED BY <2>1, <2>4, NoFactsFit DEF IsDeclared, IsReviewless
<1>7. CASE Record \/ Crash
  <2>1. /\ pc' = "idle" /\ seen' = NoFacts /\ facts' = NoFacts /\ UNCHANGED << criteria, review, carried >>
    BY <1>7 DEF Record, Crash, TickOver, Forget
  <2> QED BY <2>1, NoFactsFit DEF ConclusionFits, IsDeclared, IsReviewless
<1> QED BY <1>1, <1>2, <1>3, <1>4, <1>5, <1>6, <1>7 DEF Next, Tick, World

(* However reads fail, come late or are carried over, a tick never takes a *)
(* conclusion of CI for that of another commit.                            *)
THEOREM ConclusionsFitTheirHeads == Spec => []ConclusionOfItsHead
<1>1. FactsInv => ConclusionOfItsHead
  BY DEF FactsInv
<1> QED BY <1>1, InitRange, RangeStep, FactsStep, PTL DEF Spec

-----------------------------------------------------------------------------
(* Types.  Whatever a Port answers and however facts are laid over facts,  *)
(* a fact keeps to the range of its key, and what cannot be resolved has a *)
(* kind that decide() knows.                                               *)
ValuesOf(k) ==
  CASE k \in { "local.head_sha", "github.pr.head_sha", "review.reviewed_sha" } -> Commits
    [] k = "github.ci.conclusion" -> Conclusions
    [] k = "github.pr.unresolved_threads" -> 0..1
    [] k = "review.verdict" -> Verdicts
    [] OTHER -> BOOLEAN

LEMMA FactsAre ==
  ASSUME NEW f
  PROVE  IsFacts(f) <=> /\ f = [k \in FactKeys |-> f[k]]
                        /\ \A k \in FactKeys : f[k] \in ValuesOf(k) \cup { Absent }
<1>1. /\ \A k \in { "local.head_sha", "github.pr.head_sha", "review.reviewed_sha" } : ValuesOf(k) = Commits
      /\ ValuesOf("github.ci.conclusion") = Conclusions
      /\ ValuesOf("github.pr.unresolved_threads") = 0..1
      /\ ValuesOf("review.verdict") = Verdicts
      /\ \A k \in Criteria : ValuesOf(k) = BOOLEAN
  BY DEF ValuesOf, Criteria
<1>2. FactKeys = { "local.head_sha", "github.pr.head_sha", "review.reviewed_sha", "github.ci.conclusion",
                   "github.pr.unresolved_threads", "review.verdict" } \cup Criteria
  BY DEF FactKeys, Observations
<1> QED BY <1>1, <1>2 DEF IsFacts

(* Facts made, merged, expired and set aside are facts.                   *)
LEMMA FactsStayFacts ==
  /\ IsFacts(NoFacts)
  /\ \A k \in FactKeys : \A v \in ValuesOf(k) : IsFacts(Fact(k, v))
  /\ \A f, g : IsFacts(f) /\ IsFacts(g) => IsFacts(Laid(f, g)) /\ IsFacts(ExpireStaleFacts(f, g))
  /\ \A f : IsFacts(f) => IsFacts(PendingReviewCriteria(f))
<1>1. IsFacts(NoFacts)
  BY FactsAre DEF NoFacts
<1>2. ASSUME NEW k \in FactKeys, NEW v \in ValuesOf(k) PROVE IsFacts(Fact(k, v))
  BY FactsAre DEF Fact
<1>3. ASSUME NEW f, NEW g, IsFacts(f), IsFacts(g)
      PROVE  IsFacts(Laid(f, g)) /\ IsFacts(ExpireStaleFacts(f, g))
  <2>1. \A k \in FactKeys : /\ f[k] \in ValuesOf(k) \cup { Absent }
                            /\ g[k] \in ValuesOf(k) \cup { Absent }
    BY <1>3, FactsAre
  <2>2. IsFacts(Laid(f, g))
    BY <2>1, FactsAre DEF Laid
  <2>3. IsFacts(ExpireStaleFacts(f, g))
    BY <2>1, FactsAre DEF ExpireStaleFacts
  <2> QED BY <2>2, <2>3
<1>4. ASSUME NEW f, IsFacts(f) PROVE IsFacts(PendingReviewCriteria(f))
  <2>1. \A k \in FactKeys : f[k] \in ValuesOf(k) \cup { Absent }
    BY <1>4, FactsAre
  <2> QED BY <2>1, FactsAre DEF PendingReviewCriteria
<1> QED BY <1>1, <1>2, <1>3, <1>4

(* What a tick reads are facts, and what it could not read is of a kind.   *)
LEMMA ReadsAreFacts ==
  ASSUME RangeInv, remote \in Commits \cup { Absent }
  PROVE  /\ IsFacts(LocalRead) /\ IsFacts(ReviewRead)
         /\ \A r \in GitHubReads : IsFacts(r[1]) /\ \A x \in r[2] : x[2] \in UnresolvedKinds
<1>1. /\ \A k \in { "local.head_sha", "github.pr.head_sha", "review.reviewed_sha" } :
           k \in FactKeys /\ ValuesOf(k) = Commits
      /\ "github.ci.conclusion" \in FactKeys /\ ValuesOf("github.ci.conclusion") = Conclusions
      /\ "github.pr.unresolved_threads" \in FactKeys /\ ValuesOf("github.pr.unresolved_threads") = 0..1
      /\ "review.verdict" \in FactKeys /\ ValuesOf("review.verdict") = Verdicts
  BY DEF ValuesOf, FactKeys, Observations
<1>2. Base \in Commits
  BY VersionsAssumption DEF RangeInv, Commits
<1>3. IsFacts(LocalRead)
  BY <1>1, <1>2, FactsStayFacts DEF LocalRead, RangeInv
<1>4. IsFacts(ReviewRead)
  <2>1. CASE review \in { Absent, <<>> }
    BY <2>1, FactsStayFacts DEF ReviewRead
  <2>2. CASE review \notin { Absent, <<>> }
    <3>1. review[1] \in Verdicts /\ review[2] \in Commits
      BY <2>2 DEF RangeInv, IsReview
    <3>2. IsFacts(Fact("review.verdict", review[1])) /\ IsFacts(Fact("review.reviewed_sha", review[2]))
      BY <1>1, <3>1, FactsStayFacts
    <3> QED BY <2>2, <3>2, FactsStayFacts DEF ReviewRead
  <2> QED BY <2>1, <2>2
<1>5. \A e \in PortErrors : e \in UnresolvedKinds
  BY PortAssumption DEF UnresolvedKinds
<1>6. \A t \in ThreadReads : IsFacts(t)
  BY <1>1, FactsStayFacts DEF ThreadReads
<1>7. \A c \in CiReads : IsFacts(c[1]) /\ \A x \in c[2] : x[2] \in UnresolvedKinds
  <2>1. ConclusionOf(remote) \in Conclusions
    BY DEF ConclusionOf, Conclusions
  <2>2. IsFacts(Fact("github.ci.conclusion", ConclusionOf(remote)))
    BY <1>1, <2>1, FactsStayFacts
  <2> QED BY <1>5, <2>2, FactsStayFacts DEF CiReads
<1>8. ASSUME remote # Absent, NEW t \in ThreadReads, NEW c \in CiReads
      PROVE  IsFacts(Laid(Laid(Fact("github.pr.head_sha", remote), t), c[1]))
  <2>1. IsFacts(Fact("github.pr.head_sha", remote))
    BY <1>1, <1>8, FactsStayFacts
  <2> QED BY <1>6, <1>7, <2>1, FactsStayFacts
<1>9. ASSUME NEW r \in GitHubReads
      PROVE  IsFacts(r[1]) /\ \A x \in r[2] : x[2] \in UnresolvedKinds
  <2>1. \/ r = << NoFacts, {} >>
        \/ \E e \in PortErrors : r = << NoFacts, { << "github.pr", e >> } >>
        \/ remote # Absent /\ \E t \in ThreadReads, c \in CiReads :
             r = << Laid(Laid(Fact("github.pr.head_sha", remote), t), c[1]), c[2] >>
    BY DEF GitHubReads
  <2>2. CASE r = << NoFacts, {} >>
    BY <2>2, FactsStayFacts
  <2>3. ASSUME NEW e \in PortErrors, r = << NoFacts, { << "github.pr", e >> } >>
        PROVE  IsFacts(r[1]) /\ \A x \in r[2] : x[2] \in UnresolvedKinds
    BY <1>5, <2>3, FactsStayFacts
  <2>4. ASSUME remote # Absent, NEW t \in ThreadReads, NEW c \in CiReads,
               r = << Laid(Laid(Fact("github.pr.head_sha", remote), t), c[1]), c[2] >>
        PROVE  IsFacts(r[1]) /\ \A x \in r[2] : x[2] \in UnresolvedKinds
    BY <1>7, <1>8, <2>4
  <2> QED BY <2>1, <2>2, <2>3, <2>4
<1> QED BY <1>3, <1>4, <1>9

(* A judgement is a yes or a no, or says why there is none.               *)
IsJudgement(j) == j.resolved \in BOOLEAN /\ j.passed \in BOOLEAN /\ j.reason \in UnresolvedKinds \cup { "" }
                  /\ (~j.resolved => j.reason # "")

LEMMA JudgementsAre ==
  ASSUME NEW o, NEW ready \in BOOLEAN, NEW ran \in CommandOutcomes, NEW asked \in HumanOutcomes,
         NEW c \in criteria, made \in BOOLEAN
  PROVE  IsJudgement(Verified(o, ready, ran, asked)[c])
<1>1. \A p \in BOOLEAN : IsJudgement(Outcome(p))
  BY DEF IsJudgement, Outcome
<1>2. \A e \in UnresolvedKinds : IsJudgement(Open(e))
  BY DEF IsJudgement, Open, UnresolvedKinds
<1>3. { "port_failed", "pending" } \cup PortErrors \subseteq UnresolvedKinds
  BY PortAssumption DEF UnresolvedKinds
<1>4. IsJudgement(ran)
  BY <1>1, <1>2, <1>3 DEF CommandOutcomes, Works
<1>5. IsJudgement(asked)
  BY <1>1, <1>2, <1>3 DEF HumanOutcomes
<1>6. IsJudgement(JudgeFact(c, o))
  BY <1>1, <1>2, <1>3 DEF JudgeFact, JudgeReviewVerdict
<1> QED BY <1>2, <1>3, <1>4, <1>5, <1>6 DEF Verified, Judge

(* What a tick keeps of a decision is an action.                          *)
LEMMA EssenceType ==
  ASSUME NEW f, NEW o, NEW u, NEW a \in Decided(f, o, u)
  PROVE  Essence(a) \in Actions
<1>1. /\ Complete \in Actions /\ Verify \in Actions /\ WaitUntil \in Actions
      /\ Act("implement") \in Actions /\ Act("review") \in Actions
      /\ Escalate("budget_exhausted") \in Actions
  BY DEF Actions, Roles, EscalateReasons
<1>2. /\ Complete.type = "COMPLETE" /\ Verify.type = "VERIFY"
      /\ \A x : Escalate(x).type = "ESCALATE" /\ Wait(x).type = "WAIT" /\ Act(x).type = "ACT"
  BY DEF Complete, Escalate, Wait, Act, Verify
<1> DEFINE q == [gaps |-> Gaps(f) # {}, unresolved |-> { x[2] : x \in u }, repeated |-> 0,
                 ctx |-> Context(f, o)]
           g == Guards(Plenty, Unused, 0, 0, q)
           Usual(x) == \/ x \in { Complete, Verify, WaitUntil, Act("implement"), Act("review"), Act("investigate") }
                       \/ \E y : x = Escalate(y) \/ x = Wait(y)
<1>3. ASSUME NEW i \in DOMAIN g PROVE Usual(g[i].stop)
  <2>1. i \in 1..6
    BY <1>3 DEF Guards
  <2>2. /\ g[1].stop = Escalate("budget_exhausted") /\ g[2].stop = Escalate("shape_mismatch")
        /\ g[3].stop = Complete /\ g[4].stop = Wait(WaitReason(q.unresolved))
        /\ g[5].stop = Escalate("loop_detected") /\ g[6].stop = Escalate("repeated_attempt")
    BY DEF Guards
  <2>3. i = 1 \/ i = 2 \/ i = 3 \/ i = 4 \/ i = 5 \/ i = 6
    BY <2>1
  <2> HIDE DEF g
  <2> QED BY <2>2, <2>3
<1>4. \A x \in LlmChoices(q.ctx) : Usual(x)
  BY DEF LlmChoices
<1>5. Usual(a)
  <2>1. a \in Decisions(Plenty, Unused, 0, 0, q) \/ a = Escalate("budget_exhausted")
    BY DEF Decided
  <2>2. Decisions(Plenty, Unused, 0, 0, q) \subseteq { g[i].stop : i \in DOMAIN g } \cup LlmChoices(q.ctx)
    BY DEF Decisions
  <2>3. Usual(Escalate("budget_exhausted"))
    OBVIOUS
  <2> HIDE DEF g, q, Usual
  <2> QED BY <1>3, <1>4, <2>1, <2>2, <2>3
<1> QED BY <1>1, <1>2, <1>5 DEF Essence

(* Every step keeps the types.                                            *)
LEMMA TypeStep ==
  ASSUME TypeOK, [Next]_vars
  PROVE  TypeOK'
<1> USE DEF world
<1>0. /\ IsFacts(NoFacts) /\ Absent \in { Absent }
      /\ Verify \in Actions /\ Escalate("budget_exhausted") \in Actions
      /\ Escalate("protected_path_touched") \in Actions /\ Escalate("guard_unavailable") \in Actions
      /\ Escalate("uncommitted_changes") \in Actions
  BY FactsStayFacts DEF Actions, EscalateReasons
<1>1. Versions[criteria] \subseteq Commits
  BY DEF Commits, TypeOK
<1>2. RangeInv
  BY DEF RangeInv, TypeOK
<1>3. RangeInv'
  BY <1>2, RangeStep
<1>4. CASE ObserveLocal
  <2>1. PICK local, rev \in { {} } \cup { { e } : e \in PortErrors } :
          /\ seen' = Laid(IF local = {} THEN LocalRead ELSE NoFacts, IF rev = {} THEN ReviewRead ELSE NoFacts)
          /\ unresolved' = ({ "local" } \X local) \cup (ReviewKeys \X rev)
                             \cup (IF rev = {} THEN ReviewUnclear ELSE {})
          /\ sawLeftovers' = (local = {} /\ made /\ tree # head)
    BY <1>4 DEF ObserveLocal
  <2>2. IsFacts(seen')
    BY <1>0, <1>2, <2>1, ReadsAreFacts, FactsStayFacts DEF TypeOK
  <2>3. \A x \in unresolved' : x[2] \in UnresolvedKinds
    <3>1. local \subseteq UnresolvedKinds /\ rev \subseteq UnresolvedKinds /\ "pending" \in UnresolvedKinds
      BY PortAssumption DEF UnresolvedKinds
    <3> QED BY <2>1, <3>1 DEF ReviewUnclear
  <2>4. sawLeftovers' \in BOOLEAN
    BY <2>1 DEF TypeOK
  <2> QED BY <1>4, <2>2, <2>3, <2>4 DEF ObserveLocal, TypeOK, ghosts
<1>5. CASE ObserveGitHub
  <2>1. PICK r \in GitHubReads : seen' = Laid(seen, r[1]) /\ unresolved' = unresolved \cup r[2]
    BY <1>5 DEF ObserveGitHub
  <2>2. IsFacts(seen') /\ \A x \in unresolved' : x[2] \in UnresolvedKinds
    BY <1>2, <2>1, ReadsAreFacts, FactsStayFacts DEF TypeOK
  <2> QED BY <1>5, <2>2 DEF ObserveGitHub, TypeOK, ghosts
<1>6. CASE Reconcile
  <2>1. PICK ready \in BOOLEAN, ran \in CommandOutcomes, asked \in HumanOutcomes :
          LET o == MergeFacts(ExpireStaleFacts(carried, seen), seen)
              v == Verified(o, ready, ran, asked)
              f == MergeFacts(o, FactsOf(v))
              u == unresolved \cup UnverifiedOf(v)
          IN  /\ facts' = f
              /\ decision' \in { Essence(a) : a \in Decided(f, seen, u) }
              /\ unresolved' = { x \in u : x[1] = "test" }
    BY <1>6 DEF Reconcile
  <2> DEFINE o == MergeFacts(ExpireStaleFacts(carried, seen), seen)
             v == Verified(o, ready, ran, asked)
  <2>2. DOMAIN v = criteria /\ \A c \in criteria : IsJudgement(v[c])
    <3>1. \A c \in criteria : IsJudgement(v[c])
      BY JudgementsAre DEF TypeOK
    <3> QED BY <3>1 DEF Verified
  <2>3. IsFacts(o)
    BY FactsStayFacts DEF MergeFacts, TypeOK
  <2> HIDE DEF o, v
  <2>4. IsFacts(FactsOf(v))
    <3>1. \A k \in FactKeys : FactsOf(v)[k] = IF k \in criteria /\ v[k].resolved THEN v[k].passed ELSE Absent
      BY <2>2 DEF FactsOf
    <3>2. \A k \in criteria : ValuesOf(k) = BOOLEAN
      BY CriteriaAssumption DEF TypeOK, Criteria, ValuesOf
    <3>3. \A k \in FactKeys : FactsOf(v)[k] \in ValuesOf(k) \cup { Absent }
      BY <2>2, <3>1, <3>2 DEF IsJudgement
    <3>4. FactsOf(v) = [k \in FactKeys |-> FactsOf(v)[k]]
      BY DEF FactsOf
    <3> QED BY <3>3, <3>4, FactsAre
  <2>5. IsFacts(facts')
    BY <2>1, <2>3, <2>4, FactsStayFacts DEF MergeFacts, o, v
  <2>6. \A x \in unresolved \cup UnverifiedOf(v) : x[2] \in UnresolvedKinds
    <3>1. ASSUME NEW x \in UnverifiedOf(v) PROVE x[2] \in UnresolvedKinds
      <4>1. PICK c \in DOMAIN v : ~v[c].resolved /\ x = << c, v[c].reason >>
        BY DEF UnverifiedOf
      <4>2. IsJudgement(v[c])
        BY <2>2, <4>1
      <4> QED BY <4>1, <4>2 DEF IsJudgement
    <3> QED BY <3>1 DEF TypeOK
  <2>7. \A x \in unresolved' : x[2] \in UnresolvedKinds
    BY <2>1, <2>6 DEF o, v
  <2>8. decision' \in Actions
    BY <2>1, EssenceType
  <2>9. IsFacts(basis') /\ IsFacts(seen') /\ ranOn' = tree /\ pc' = "decided"
        /\ UNCHANGED << criteria, tree, head, made, unsaved, remote, review, carried, completed,
                        sawLeftovers, implemented, moved >>
    BY <1>0, <1>6 DEF Reconcile, TypeOK
  <2> QED BY <2>5, <2>7, <2>8, <2>9 DEF TypeOK
<1>7. CASE NoAct \/ NotLaunched \/ RunFails \/ Implement \/ Review
  <2>1. /\ tree' \in Commits /\ head' \in Commits /\ IsReview(review') /\ criteria' \in CriteriaSets
    BY <1>3 DEF RangeInv
  <2>2. made' \in BOOLEAN /\ implemented' \in BOOLEAN
    BY <1>7 DEF NoAct, NotLaunched, RunFails, Implement, Review, Launch, TypeOK
  <2>3. moved' \in BOOLEAN /\ unsaved' \in BOOLEAN
    BY <1>7 DEF NoAct, NotLaunched, RunFails, Implement, Review, Launch, TypeOK, ghosts
  <2>4. /\ pc' = "acted"
        /\ UNCHANGED << remote, carried, completed, seen, facts, sawLeftovers, unresolved, decision, ranOn, basis >>
    BY <1>7 DEF NoAct, NotLaunched, RunFails, Implement, Review, Launch, ghosts
  <2> QED BY <2>1, <2>2, <2>3, <2>4 DEF TypeOK
<1>8. CASE Guard
  <2>1. decision' \in Actions
    BY <1>0, <1>8 DEF Guard, GuardedDecisions, TypeOK
  <2> QED BY <1>8, <2>1 DEF Guard, TypeOK, ghosts
<1>9. CASE CommitVerifiedWork
  BY <1>9 DEF CommitVerifiedWork, TypeOK, ghosts
<1>10. CASE LeaveUncommitted
  <2>1. decision' \in Actions
    BY <1>0, <1>10 DEF LeaveUncommitted, UncommittedDecision, TypeOK
  <2> QED BY <1>10, <2>1 DEF LeaveUncommitted, TypeOK, ghosts
<1>11. CASE SaveSnapshot
  <2>1. IsFacts(carried')
    BY <1>11, FactsStayFacts DEF SaveSnapshot, TypeOK
  <2> QED BY <1>0, <1>11, <2>1 DEF SaveSnapshot, Forget, TypeOK
<1>12. CASE Push \/ PushNothing
  BY <1>12 DEF Push, PushNothing, TypeOK, ghosts
<1>13. CASE Record \/ Crash
  <2>1. completed' \in BOOLEAN
    BY <1>13 DEF Record, Crash, TypeOK
  <2> QED BY <1>0, <1>13, <2>1 DEF Record, Crash, TickOver, Forget, TypeOK
<1>14. CASE Edit \/ Commit
  <2>1. unsaved' \in BOOLEAN
    BY <1>14 DEF Edit, Commit, TypeOK
  <2> QED BY <1>1, <1>14, <2>1 DEF Edit, Commit, Outside, tick, ghosts, TypeOK
<1>15. CASE UNCHANGED vars
  BY <1>15 DEF vars, tick, ghosts, TypeOK
<1> QED BY <1>4, <1>5, <1>6, <1>7, <1>8, <1>9, <1>10, <1>11, <1>12, <1>13, <1>14, <1>15 DEF Next, Tick, World

(* Every variable keeps its type: whatever the ports answer, a fact is one *)
(* its key may have (observe(), verify(), mergeFacts, expireStaleFacts).   *)
THEOREM TypeCorrect == Spec => []TypeOK
<1>1. Init => TypeOK
  <2>1. Verify \in Actions /\ IsFacts(NoFacts)
    BY FactsStayFacts DEF Actions
  <2> QED BY <2>1, InitRange DEF Init, RangeInv, TypeOK
<1> QED BY <1>1, TypeStep, PTL DEF Spec

-----------------------------------------------------------------------------
(* What a COMPLETE rests on.  While nothing is unresolved the reads of the *)
(* tick are complete, and so the facts that count are of this tick; a      *)
(* COMPLETE leaves the world alone until it is written down.               *)
ReadsComplete ==
  /\ seen["local.head_sha"] # Absent
  /\ review # <<>>
  /\ review # Absent => /\ seen["review.verdict"] = review[1]
                        /\ seen["review.reviewed_sha"] = review[2]

Grounds ==
  /\ "test" \in criteria => Works(ranOn)
  /\ "review" \in criteria => review = << "approved", basis["local.head_sha"] >>

GroundsInv ==
  /\ pc \in { "local", "observed" } /\ unresolved = {} => ReadsComplete
  /\ Completes => Grounds

(* The parts of a review are told by the review and stand for something.   *)
LEMMA ReviewParts ==
  ASSUME RangeInv, review \notin { Absent, <<>> }
  PROVE  /\ review[1] # Absent /\ review[2] # Absent
         /\ review = << review[1], review[2] >>
<1>1. review \in Verdicts \X Commits
  BY DEF RangeInv, IsReview
<1>2. Absent \notin Verdicts /\ Absent \notin Commits
  BY AbsentAssumption DEF Verdicts
<1> QED BY <1>1, <1>2

(* A first read with nothing unresolved.                                   *)
LEMMA LocalReadComplete ==
  ASSUME RangeInv, ObserveLocal, unresolved' = {}
  PROVE  ReadsComplete'
<1>1. PICK local, rev \in { {} } \cup { { e } : e \in PortErrors } :
        /\ seen' = Laid(IF local = {} THEN LocalRead ELSE NoFacts,
                        IF rev = {} THEN ReviewRead ELSE NoFacts)
        /\ unresolved' = ({ "local" } \X local) \cup (ReviewKeys \X rev)
                            \cup (IF rev = {} THEN ReviewUnclear ELSE {})
  BY DEF ObserveLocal
<1>2. local = {}
  <2>1. ASSUME NEW e \in local
        PROVE  FALSE
    <3>1. << "local", e >> \in { "local" } \X local
      BY <2>1
    <3> QED BY <1>1, <3>1
  <2> QED BY <2>1
<1>3. rev = {}
  <2>1. ASSUME NEW e \in rev
        PROVE  FALSE
    <3>1. << "review.verdict", e >> \in ReviewKeys \X rev
      BY <2>1 DEF ReviewKeys
    <3> QED BY <1>1, <3>1
  <2> QED BY <2>1
<1>4. review # <<>> /\ UNCHANGED review
  <2>1. review = <<>> => << "review.verdict", "pending" >> \in unresolved'
    BY <1>1, <1>3 DEF ReviewUnclear, ReviewKeys
  <2> QED BY <2>1 DEF ObserveLocal, world
<1>5. \A k \in FactKeys : seen'[k] = IF ReviewRead[k] = Absent THEN LocalRead[k] ELSE ReviewRead[k]
  BY <1>1, <1>2, <1>3, LaidFacts
<1>6. LocalRead["local.head_sha"] # Absent
  <2>1. Base \in Commits /\ head \in Commits
    BY VersionsAssumption DEF RangeInv, Commits
  <2>2. LocalRead["local.head_sha"] \in { Base, head }
    BY NamesOfFacts DEF LocalRead
  <2> QED BY <2>1, <2>2, AbsentAssumption
<1>7. CASE review = Absent
  <2>1. ReviewRead["local.head_sha"] = Absent
    BY <1>7, NamesOfFacts DEF ReviewRead
  <2> QED BY <1>4, <1>5, <1>6, <1>7, <2>1, NamesOfFacts DEF ReadsComplete
<1>8. CASE review # Absent
  <2>1. ReviewRead = Laid(Fact("review.verdict", review[1]), Fact("review.reviewed_sha", review[2]))
    BY <1>4, <1>8 DEF ReviewRead
  <2>2. \A k \in FactKeys : ReviewRead[k] = IF k = "review.reviewed_sha" /\ review[2] # Absent THEN review[2]
                                            ELSE IF k = "review.verdict" THEN review[1] ELSE Absent
    <3>1. "review.reviewed_sha" \in FactKeys /\ "review.verdict" \in FactKeys
      BY NamesOfFacts
    <3>2. \A k \in FactKeys :
            /\ Fact("review.verdict", review[1])[k] = IF k = "review.verdict" THEN review[1] ELSE Absent
            /\ Fact("review.reviewed_sha", review[2])[k] = IF k = "review.reviewed_sha" THEN review[2] ELSE Absent
      BY <3>1, NamesOfFacts
    <3> HIDE DEF Fact
    <3> QED BY <2>1, <3>2, LaidFacts
  <2>3. review[1] # Absent /\ review[2] # Absent
    BY <1>4, <1>8, ReviewParts
  <2> QED BY <1>4, <1>5, <1>6, <2>2, <2>3, NamesOfFacts DEF ReadsComplete
<1> QED BY <1>7, <1>8

(* Nothing that GitHub says changes what the first read said.              *)
LEMMA GitHubReadComplete ==
  ASSUME GroundsInv, ObserveGitHub, unresolved' = {}
  PROVE  ReadsComplete'
<1>1. PICK r \in GitHubReads : seen' = Laid(seen, r[1]) /\ unresolved' = unresolved \cup r[2]
  BY DEF ObserveGitHub
<1>2. ReadsComplete /\ UNCHANGED review
  BY <1>1 DEF GroundsInv, ObserveGitHub, world
<1>3. \A k \in { "local.head_sha", "review.verdict", "review.reviewed_sha" } : seen'[k] = seen[k]
  BY <1>1, LaidFacts, GitHubFacts, NamesOfFacts
<1> QED BY <1>2, <1>3 DEF ReadsComplete

(* A COMPLETE is decided on the ground of what it claims.                  *)
LEMMA CompleteHasGrounds ==
  ASSUME RangeInv, FactsInv, GroundsInv, Reconcile, decision' = Complete
  PROVE  Grounds'
<1> DEFINE o == MergeFacts(ExpireStaleFacts(carried, seen), seen)
<1>1. PICK ready \in BOOLEAN, ran \in CommandOutcomes, asked \in HumanOutcomes :
        LET w == Verified(o, ready, ran, asked)
        IN  \E a \in Decided(MergeFacts(o, FactsOf(w)), seen, unresolved \cup UnverifiedOf(w)) :
              decision' = Essence(a)
  BY DEF Reconcile
<1> DEFINE v == Verified(o, ready, ran, asked)
           f == MergeFacts(o, FactsOf(v))
<1>2. /\ pc = "observed" /\ basis' = seen /\ ranOn' = tree
      /\ UNCHANGED << criteria, review >>
  BY DEF Reconcile, world
<1>3. Gaps(f) = {} /\ unresolved \cup UnverifiedOf(v) = {}
  BY <1>1, CompleteMeans
<1>4. ReadsComplete
  BY <1>2, <1>3 DEF GroundsInv
<1>5. ASSUME NEW c \in criteria
      PROVE  v[c].resolved /\ ready /\ v[c] = Judge(c, o, ran, asked) /\ f[c] = TRUE
  <2>1. DOMAIN v = criteria /\ v[c] = IF ready THEN Judge(c, o, ran, asked) ELSE Open("port_failed")
    BY <1>5 DEF Verified
  <2>2. v[c].resolved
    <3>1. ~v[c].resolved => << c, v[c].reason >> \in UnverifiedOf(v)
      BY <1>5, <2>1 DEF UnverifiedOf
    <3> QED BY <1>3, <3>1
  <2>3. ~Open("port_failed").resolved
    BY DEF Open
  <2>4. f[c] = TRUE
    BY <1>3, <1>5 DEF Gaps
  <2> QED BY <2>1, <2>2, <2>3, <2>4
<1> HIDE DEF o
<1>6. ASSUME NEW c \in criteria, v[c].passed \in BOOLEAN
      PROVE  v[c].passed
  <2>1. DOMAIN v = criteria /\ c \in FactKeys
    BY <1>6 DEF Verified, FactsInv, FactKeys
  <2>2. FactsOf(v)[c] = v[c].passed
    BY <1>5, <2>1 DEF FactsOf
  <2>3. FactsOf(v)[c] # Absent
    BY <1>6, <2>2, AbsentAssumption
  <2>4. f[c] = FactsOf(v)[c]
    BY <2>1, <2>3, LaidFacts DEF MergeFacts
  <2>5. v[c].passed = TRUE
    BY <1>5, <2>2, <2>4
  <2> QED BY <2>5
<1> HIDE DEF v, f
<1>7. ASSUME "test" \in criteria
      PROVE  Works(tree)
  <2>1. v["test"] = ran
    BY <1>5, <1>7 DEF Judge
  <2>2. ran = Outcome(made /\ Works(tree))
    <3>1. ran.resolved
      BY <1>5, <1>7, <2>1
    <3>2. ~Open("port_failed").resolved
      BY DEF Open
    <3> QED BY <3>1, <3>2 DEF CommandOutcomes
  <2>3. ran.passed = (made /\ Works(tree))
    BY <2>2 DEF Outcome
  <2>4. ran.passed
    BY <1>6, <1>7, <2>1, <2>3
  <2> QED BY <2>3, <2>4
<1>8. ASSUME "review" \in criteria
      PROVE  review = << "approved", seen["local.head_sha"] >>
  <2>1. v["review"] = JudgeFact("review", o)
    BY <1>5, <1>8 DEF Judge
  <2>2. FactBehind["review"] = "review.verdict" /\ Expected.review = "approved"
    BY DEF FactBehind, Expected
  <2>3. /\ \A r : ~Open(r).resolved
        /\ \A p : Outcome(p).passed = p
    BY DEF Open, Outcome
  <2>4. o["review.verdict"] # Absent /\ v["review"] = JudgeReviewVerdict(o)
    BY <1>5, <1>8, <2>1, <2>2, <2>3 DEF JudgeFact
  <2>5. v["review"] = Outcome(/\ o["review.reviewed_sha"] = o["local.head_sha"]
                              /\ o["review.verdict"] = Expected.review)
    BY <1>5, <1>8, <2>3, <2>4 DEF JudgeReviewVerdict
  <2>6. o["review.reviewed_sha"] = o["local.head_sha"] /\ o["review.verdict"] = "approved"
    BY <1>6, <1>8, <2>2, <2>3, <2>5
  <2>7. \A k \in FactKeys : o[k] = seen[k] \/ (seen[k] = Absent /\ o[k] \in { carried[k], Absent })
    BY DEF o, MergeFacts, Laid, ExpireStaleFacts
  <2>8. review # Absent
    <3>1. review = Absent => o["review.verdict"] = Absent
      BY <2>7, NamesOfFacts DEF FactsInv, IsReviewless
    <3> QED BY <2>4, <3>1
  <2>9. /\ seen["review.verdict"] = review[1] /\ seen["review.reviewed_sha"] = review[2]
        /\ review = << review[1], review[2] >> /\ review[1] # Absent /\ review[2] # Absent
    BY <1>4, <2>8, ReviewParts DEF ReadsComplete
  <2>10. seen["local.head_sha"] = o["local.head_sha"] /\ review[2] = o["review.reviewed_sha"]
         /\ review[1] = o["review.verdict"]
    BY <1>4, <2>7, <2>9, NamesOfFacts DEF ReadsComplete
  <2> QED BY <2>6, <2>9, <2>10
<1> QED BY <1>2, <1>7, <1>8 DEF Grounds

LEMMA GroundsStep ==
  ASSUME RangeInv, FactsInv, GroundsInv, [Next]_vars
  PROVE  GroundsInv'
<1> USE DEF GroundsInv, Completes
<1>1. CASE ObserveLocal
  BY <1>1, LocalReadComplete DEF ObserveLocal
<1>2. CASE ObserveGitHub
  BY <1>2, GitHubReadComplete DEF ObserveGitHub
<1>3. CASE Reconcile
  BY <1>3, CompleteHasGrounds DEF Reconcile
<1>4. CASE NoAct \/ NotLaunched
  BY <1>4 DEF NoAct, NotLaunched, Grounds, world, ghosts
<1>5. CASE RunFails \/ Implement \/ Review
  <2>1. pc' = "acted" /\ decision' # Complete
    BY <1>5, NotComplete DEF RunFails, Implement, Review, Launch
  <2> QED BY <2>1
<1>6. CASE Guard \/ LeaveUncommitted
  <2>1. /\ pc \in { "acted", "guarded" } /\ pc' \in { "guarded", "settled" }
        /\ UNCHANGED << criteria, review, ranOn, basis >>
    BY <1>6 DEF Guard, LeaveUncommitted, world, ghosts
  <2>2. decision' = Complete => decision = Complete
    BY <1>6, NotComplete DEF Guard, GuardedDecisions, LeaveUncommitted, UncommittedDecision
  <2> QED BY <2>1, <2>2 DEF Grounds
<1>7. CASE CommitVerifiedWork
  BY <1>7 DEF CommitVerifiedWork, Grounds, ghosts
<1>8. CASE SaveSnapshot \/ Push \/ PushNothing \/ Record \/ Crash
  <2>1. pc' \in { "saved", "published", "idle" }
    BY <1>8 DEF SaveSnapshot, Push, PushNothing, Record, Crash, TickOver
  <2> QED BY <2>1
<1>9. CASE Edit \/ Commit \/ UNCHANGED vars
  <2>1. UNCHANGED << criteria, pc, decision, review, ranOn, basis, seen, unresolved >>
    BY <1>9 DEF Edit, Commit, Outside, tick, ghosts, world, vars
  <2> QED BY <2>1 DEF Grounds, ReadsComplete
<1> QED BY <1>1, <1>2, <1>3, <1>4, <1>5, <1>6, <1>7, <1>8, <1>9 DEF Next, Tick, World

LEMMA GroundsInvariant == Spec => []GroundsInv
<1>1. Init => GroundsInv
  <2>1. Init => pc = "idle"
    BY DEF Init
  <2> QED BY <2>1 DEF GroundsInv, Completes
<1> QED BY <1>1, InitRange, RangeStep, FactsStep, GroundsStep, PTL DEF Spec

(* No Goal with a command among its criteria is completed on a pass of     *)
(* another tick.                                                           *)
THEOREM CommandsPassNow == Spec => []CommandPassedNow
<1>1. GroundsInv => CommandPassedNow
  BY DEF GroundsInv, Grounds, CommandPassedNow
<1> QED BY <1>1, GroundsInvariant, PTL

(* No Goal that asks for a review is completed on a review of another      *)
(* commit than the one the tick saw, however stale the facts it carries.   *)
THEOREM ReviewsAreOfThisHead == Spec => []ReviewOfThisHead
<1>1. GroundsInv => ReviewOfThisHead
  BY DEF GroundsInv, Grounds, ReviewOfThisHead
<1> QED BY <1>1, GroundsInvariant, PTL

-----------------------------------------------------------------------------
(* What the Actor committed in a tick nobody has read in that tick.        *)
UnreadInv ==
  /\ moved => pc \in { "acted", "guarded", "settled", "saved", "published" }
  /\ moved /\ pc \in { "acted", "guarded", "settled" } => implemented
  /\ moved /\ pc \in { "saved", "published" } => carried["review"] # TRUE

LEMMA UnreadStep ==
  ASSUME FactsInv, UnreadInv, [Next]_vars
  PROVE  UnreadInv'
<1> USE DEF UnreadInv, ghosts
<1>1. CASE ObserveLocal \/ ObserveGitHub \/ Reconcile \/ NoAct \/ NotLaunched
  <2>1. UNCHANGED moved /\ pc \in { "idle", "local", "observed", "decided" }
    BY <1>1 DEF ObserveLocal, ObserveGitHub, Reconcile, NoAct, NotLaunched
  <2> QED BY <2>1
<1>2. CASE RunFails \/ Review
  <2>1. UNCHANGED moved /\ pc = "decided"
    BY <1>2 DEF RunFails, Review, Launch
  <2> QED BY <2>1
<1>3. CASE Implement
  <2>1. pc' = "acted" /\ implemented'
    <3>1. PICK role \in { "implement" } : Launch(role)
      BY <1>3 DEF Implement
    <3> QED BY <3>1 DEF Launch
  <2> QED BY <2>1
<1>4. CASE Guard \/ CommitVerifiedWork \/ LeaveUncommitted
  <2>1. pc \in { "acted", "guarded" } /\ pc' \in { "guarded", "settled" } /\ UNCHANGED << moved, implemented >>
    BY <1>4 DEF Guard, CommitVerifiedWork, LeaveUncommitted
  <2> QED BY <2>1
<1>5. CASE SaveSnapshot
  <2>1. pc = "settled" /\ pc' = "saved" /\ UNCHANGED moved /\ carried' = PendingReviewCriteria(facts)
    BY <1>5 DEF SaveSnapshot
  <2>2. "review" \in FactKeys /\ "review" \in Criteria
    BY NamesOfFacts DEF Criteria
  <2>3. implemented => carried'["review"] = Absent
    BY <2>1, <2>2 DEF PendingReviewCriteria, FactsInv, IsDeclared
  <2>4. Absent # TRUE
    BY AbsentAssumption
  <2> QED BY <2>1, <2>3, <2>4
<1>6. CASE Push \/ PushNothing
  <2>1. pc = "saved" /\ pc' = "published" /\ UNCHANGED << moved, carried >>
    BY <1>6 DEF Push, PushNothing
  <2> QED BY <2>1
<1>7. CASE Record \/ Crash
  <2>1. ~moved'
    BY <1>7 DEF Record, Crash, TickOver
  <2> QED BY <2>1
<1>8. CASE Edit \/ Commit \/ UNCHANGED vars
  <2>1. UNCHANGED << moved, pc, implemented, carried >>
    BY <1>8 DEF Edit, Commit, Outside, tick, vars
  <2> QED BY <2>1
<1> QED BY <1>1, <1>2, <1>3, <1>4, <1>5, <1>6, <1>7, <1>8 DEF Next, Tick, World

(* No snapshot says the review passed of commits made in the tick that     *)
(* took it.                                                                *)
THEOREM UnreadCommitsAreNotPassed == Spec => []NoReviewOfUnreadCommits
<1>1. Init => UnreadInv
  <2>1. Init => ~moved
    BY DEF Init
  <2> QED BY <2>1 DEF UnreadInv
<1>2. UnreadInv => NoReviewOfUnreadCommits
  BY DEF UnreadInv, NoReviewOfUnreadCommits
<1> QED BY <1>1, <1>2, InitRange, RangeStep, FactsStep, UnreadStep, PTL DEF Spec
=============================================================================
