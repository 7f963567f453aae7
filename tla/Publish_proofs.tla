--------------------------- MODULE Publish_proofs ---------------------------
(***************************************************************************)
(* Theorems about Publish, for any number of commits, pull requests and    *)
(* observations, with deaths and failing calls at any place.               *)
(***************************************************************************)
EXTENDS Publish, TLAPS

-----------------------------------------------------------------------------
(* Types.                                                                  *)

LEMMA ActionTypes ==
  /\ Verify \in Actions /\ Complete \in Actions
  /\ Escalate("push_branch_declared_manual") \in Actions
  /\ Escalate("open_pull_request_declared_manual") \in Actions
  BY DEF Verify, Complete, Escalate, Actions, EscalateReasons

LEMMA SettledType ==
  ASSUME TypeOK
  PROVE  Settled \in Actions
  BY ActionTypes DEF TypeOK, Settled, HeldReason

LEMMA IdleType ==
  Idle \in [ pr : Numbers, issue : Numbers, digest : Digests \cup {NoDigest},
             action : Actions ]
  BY ActionTypes DEF Idle, Numbers

LEMMA InitType == Init => TypeOK
<1> SUFFICES ASSUME Init PROVE TypeOK
  OBVIOUS
<1>1. policy \in [ push : { "auto", "manual" }, open : { "auto", "manual" } ]
  BY ChoicesAssumption DEF Init
<1>2. log \in [ digest : Digests \cup {NoDigest}, action : Actions ]
  BY ActionTypes DEF Init, Nothing
<1> QED
  BY <1>1, <1>2, IdleType DEF Init, TypeOK, Targets, Numbers, Places, Steps, Reasons

(* ensurePullRequest ends with a number.                                   *)
LEMMA EnsuredType ==
  ASSUME TypeOK, NEW n \in Nat, NEW s \in Steps, NEW r \in Reasons, pc # "idle", Ensured(n, s, r),
         head' \in Nat, remote' \in Nat, opened' \in Nat, open' \subseteq 1..opened'
  PROVE  TypeOK'
  BY DEF TypeOK, Ensured, Numbers, Places, past

LEMMA EnsureType ==
  ASSUME TypeOK, Ensure
  PROVE  TypeOK'
<1> USE DEF Steps, Reasons
<1>A. tick.pr \in Nat /\ head \in Nat /\ remote \in Nat /\ opened \in Nat /\ open \subseteq 1..opened
  BY DEF TypeOK, Numbers
<1>B. pc # "idle"
  BY DEF Ensure, KeepBack, HoldPush, NothingToPush, MayPush, Push, PushFails, Find, FindFails,
         Create, CreateUnanswered, CreateRefused
<1>1. CASE KeepBack
  BY <1>A, <1>B, <1>1, EnsuredType DEF KeepBack, world
<1>2. CASE HoldPush
  BY <1>A, <1>B, <1>2, EnsuredType DEF HoldPush, world
<1>3. CASE NothingToPush
  BY <1>A, <1>B, <1>3, EnsuredType DEF NothingToPush, world
<1>4. CASE Push
  <2>1. CASE Ensured(tick.pr, "none", "none")
    BY <1>A, <1>B, <1>4, <2>1, EnsuredType DEF Push
  <2>2. CASE pc' = "finding"
    BY <1>A, <1>B, <1>4, <2>2 DEF Push, TypeOK, Places, local, past, Ensured
  <2> QED
    BY <1>4, <2>1, <2>2 DEF Push
<1>5. CASE PushFails
  BY <1>A, <1>B, <1>5, EnsuredType DEF PushFails
<1>6. CASE Find
  <2>1. ASSUME NEW p \in open, Ensured(p, "none", "none")
        PROVE  TypeOK'
    <3>1. p \in Nat
      BY <1>A
    <3> QED
      BY <1>A, <1>B, <1>6, <2>1, <3>1, EnsuredType DEF Find, world
  <2>2. CASE Ensured(0, "open_pull_request", "declared_manual")
    BY <1>A, <1>B, <1>6, <2>2, EnsuredType DEF Find, world
  <2>3. CASE /\ pc' = "creating"
             /\ UNCHANGED << policy, target, closed, waiting, carried, past, tick, local, cli >>
    BY <1>6, <2>3 DEF Find, TypeOK, Places, local, past, world
  <2> QED
    BY <1>6, <2>1, <2>2, <2>3 DEF Find
<1>7. CASE FindFails
  BY <1>A, <1>B, <1>7, EnsuredType DEF FindFails, world
<1>8. CASE Create
  <2>1. opened' \in Nat /\ open' \subseteq 1..opened'
    BY <1>A, <1>B, <1>8 DEF Create
  <2> QED
    BY <1>A, <1>B, <1>8, <2>1, EnsuredType DEF Create
<1>9. CASE CreateUnanswered
  <2>1. opened' \in Nat /\ open' \subseteq 1..opened'
    BY <1>A, <1>B, <1>9 DEF CreateUnanswered
  <2> QED
    BY <1>A, <1>B, <1>9, <2>1, EnsuredType DEF CreateUnanswered
<1>10. CASE CreateRefused
  BY <1>A, <1>B, <1>10, EnsuredType DEF CreateRefused, world
<1> QED
  BY <1>1, <1>2, <1>3, <1>4, <1>5, <1>6, <1>7, <1>8, <1>9, <1>10 DEF Ensure

(* A tick goes by a row that was read before, or by the row as it is.     *)
LEMMA RowsType ==
  ASSUME TypeOK, NEW row \in Rows
  PROVE  row \in Targets
  BY DEF TypeOK, Rows

LEMMA BeginType ==
  ASSUME TypeOK, Begin
  PROVE  TypeOK'
<1>1. PICK o \in Observed, a \in Decided, report \in Reports : BeginPublish(o, a, report)
  BY DEF Begin
<1>2. a \in Actions /\ report \in BOOLEAN
  BY ChoicesAssumption
<1>3. PICK row \in Rows :
        /\ waiting' \in { waiting, waiting \ { row } }
        /\ overtaken' = (overtaken \/ row # target)
        /\ pr' = row.pr
        /\ \E p \in { carried } \cup ({ row.pr } \ {0}) :
             /\ carried' = p
             /\ tick' = [ pr |-> row.pr, issue |-> row.issue,
                          digest |-> [ seen |-> o, pr |-> p ], action |-> a ]
  BY <1>1 DEF BeginPublish
<1>4. PICK p \in { carried } \cup ({ row.pr } \ {0}) :
        /\ carried' = p
        /\ tick' = [ pr |-> row.pr, issue |-> row.issue,
                     digest |-> [ seen |-> o, pr |-> p ], action |-> a ]
  BY <1>3
<1>5. p \in Nat /\ row.pr \in Nat /\ row.issue \in Nat
  BY RowsType DEF TypeOK, Targets, Numbers
<1>6. [ seen |-> o, pr |-> p ] \in Digests
  BY <1>5 DEF Digests, Numbers
<1>7. /\ tick' \in [ pr : Numbers, issue : Numbers, digest : Digests \cup {NoDigest},
                     action : Actions ]
      /\ tick'.digest \in Digests
  BY <1>2, <1>4, <1>5, <1>6 DEF Numbers
<1>8. waiting' \subseteq Targets /\ overtaken' \in BOOLEAN /\ wrote' \in BOOLEAN
  BY <1>1, <1>2, <1>3 DEF BeginPublish, TypeOK
<1>9. carried' \in Nat /\ pr' \in Nat
  BY <1>3, <1>4, <1>5
<1> QED
  BY <1>1, <1>7, <1>8, <1>9 DEF BeginPublish, TypeOK, world, Numbers, Places, Steps, Reasons

LEMMA EndType ==
  ASSUME TypeOK, Comment \/ Register \/ SaveDecision \/ SetStatus \/ Crash
  PROVE  TypeOK'
<1>1. CASE Comment
  BY <1>1 DEF Comment, TypeOK, world, past, Places
<1>2. CASE Register
  BY <1>2 DEF Register, TypeOK, world, local, past, Places, Targets, Numbers
<1>3. CASE SaveDecision
  <2>1. log' \in [ digest : Digests \cup {NoDigest}, action : Actions ]
    BY <1>3, SettledType DEF SaveDecision, TypeOK
  <2>2. told' \in BOOLEAN
    BY <1>3 DEF SaveDecision
  <2> QED
    BY <1>3, <2>1, <2>2 DEF SaveDecision, TypeOK, world, local, Places
<1>4. CASE SetStatus
  <2>1. closed' \in BOOLEAN
    BY <1>4 DEF SetStatus, IsTerminal
  <2> QED
    BY <1>4, <2>1, IdleType DEF SetStatus, TickOver, TypeOK, world, past, Places, Numbers, Steps,
                                Reasons
<1>5. CASE Crash
  BY <1>5, IdleType DEF Crash, TickOver, TypeOK, world, past, Places, Numbers, Steps, Reasons
<1> QED
  BY <1>1, <1>2, <1>3, <1>4, <1>5

LEMMA WaitType ==
  ASSUME TypeOK, ReadRow \/ GiveUp
  PROVE  TypeOK'
  BY DEF ReadRow, GiveUp, TypeOK, world, local, past

LEMMA EnvironmentType ==
  ASSUME TypeOK, Environment
  PROVE  TypeOK'
<1> USE DEF TypeOK, Rest, local, past, world
<1>1. CASE Commit
  BY <1>1 DEF Commit
<1>2. CASE HumanOpens
  BY <1>2 DEF HumanOpens
<1>3. CASE HumanCloses
  BY <1>3 DEF HumanCloses
<1>4. CASE TypeTarget
  BY <1>4, NumbersAssumption DEF TypeTarget, Targets, Numbers
<1>5. CASE WriteTarget
  BY <1>5 DEF WriteTarget
<1> QED
  BY <1>1, <1>2, <1>3, <1>4, <1>5 DEF Environment

LEMMA NextType ==
  ASSUME TypeOK, [Next]_vars
  PROVE  TypeOK'
<1>1. CASE UNCHANGED vars
  BY <1>1 DEF vars, world, local, past, TypeOK
<1> QED
  BY <1>1, WaitType, BeginType, EnsureType, EndType, EnvironmentType DEF Next

(* Every variable keeps its type: in particular a settled decision has a   *)
(* reason that domain/action.ts declares, and a pull request is one that   *)
(* GitHub has numbered.                                                    *)
THEOREM PublishTypeCorrect == Spec => []TypeOK
  BY InitType, NextType, PTL DEF Spec

-----------------------------------------------------------------------------
(* One pull request.  Mutual exclusion of creators by itself is not        *)
(* inductive: what matters is that none is open when one is about to be    *)
(* created, and that nobody else opens one in between.                     *)

Creating == pc = "creating" => open = {} /\ policy.open = "auto"
OneInv   == OnePullRequest /\ Creating

LEMMA EnsuredLeaves ==
  ASSUME NEW n, NEW s, NEW r, Ensured(n, s, r)
  PROVE  pc' # "creating"
  BY DEF Ensured

LEMMA OneStep ==
  ASSUME OneInv, [Next]_vars
  PROVE  OneInv'
<1> USE DEF OneInv, OnePullRequest, Creating
<1>1. CASE Begin
  BY <1>1 DEF Begin, BeginPublish, world
<1>2. CASE KeepBack \/ HoldPush \/ NothingToPush \/ FindFails \/ CreateRefused
  BY <1>2, EnsuredLeaves DEF KeepBack, HoldPush, NothingToPush, FindFails, CreateRefused, world
<1>3. CASE Push \/ PushFails
  BY <1>3, EnsuredLeaves DEF Push, PushFails
<1>4. CASE Find
  BY <1>4, EnsuredLeaves DEF Find, world
<1>5. CASE Create \/ CreateUnanswered
  BY <1>5, EnsuredLeaves DEF Create, CreateUnanswered
<1>6. CASE Comment \/ Register \/ SaveDecision \/ SetStatus \/ Crash
  BY <1>6 DEF Comment, Register, SaveDecision, SetStatus, Crash, TickOver, world
<1>7. CASE Environment
  BY <1>7 DEF Environment, Commit, HumanOpens, HumanCloses, TypeTarget, WriteTarget, Rest, world
<1>8. CASE ReadRow \/ GiveUp \/ UNCHANGED vars
  BY <1>8 DEF ReadRow, GiveUp, vars, world
<1> QED
  BY <1>1, <1>2, <1>3, <1>4, <1>5, <1>6, <1>7, <1>8 DEF Next, Ensure

(* There are never two open pull requests, whatever dies, fails or is lost *)
(* on the way, and whatever humans type.                                   *)
THEOREM OnePullRequestOnly == Spec => []OnePullRequest
<1>1. Init => OneInv
  BY DEF Init, OneInv, OnePullRequest, Creating
<1>2. OneInv => OnePullRequest
  BY DEF OneInv
<1> QED
  BY <1>1, <1>2, OneStep, PTL DEF Spec

-----------------------------------------------------------------------------
(* No completion without a pull request.                                   *)

(* What ensurePullRequest leaves behind: a number, a manual step, or a     *)
(* reason, and the reason "guard" only for a decision that blocks it.      *)
After == { "commenting", "registering", "recording", "settling" }

Secured ==
  pc \in After /\ held = "none" /\ pr = 0
    => skipped \in { "no_diff", "threw" } \/ (skipped = "guard" /\ BlocksPush(tick.action))

LEMMA EnsuredSecured ==
  ASSUME NEW n, NEW s, NEW r, Ensured(n, s, r),
         n # 0 \/ s # "none" \/ r \in { "no_diff", "threw" } \/ (r = "guard" /\ BlocksPush(tick.action))
  PROVE  Secured'
  BY DEF Ensured, Secured, BlocksPush

LEMMA SecuredStep ==
  ASSUME TypeOK, Secured, [Next]_vars
  PROVE  Secured'
<1>1. CASE Begin
  BY <1>1 DEF Begin, BeginPublish, Secured, After
<1>2. CASE KeepBack
  BY <1>2, EnsuredSecured DEF KeepBack
<1>3. CASE HoldPush \/ NothingToPush \/ PushFails \/ FindFails \/ CreateRefused \/ CreateUnanswered
  BY <1>3, EnsuredSecured
  DEF HoldPush, NothingToPush, PushFails, FindFails, CreateRefused, CreateUnanswered
<1>4. CASE Push
  <2>1. CASE tick.pr # 0 /\ Ensured(tick.pr, "none", "none")
    BY <2>1, EnsuredSecured
  <2>2. CASE pc' = "finding"
    BY <2>2 DEF Secured, After
  <2> QED
    BY <1>4, <2>1, <2>2 DEF Push
<1>5. CASE Find
  <2>1. ASSUME NEW p \in open, Ensured(p, "none", "none")
        PROVE  Secured'
    <3>1. p # 0
      BY DEF TypeOK
    <3> QED
      BY <2>1, <3>1, EnsuredSecured
  <2>2. CASE Ensured(0, "open_pull_request", "declared_manual")
    BY <2>2, EnsuredSecured
  <2>3. CASE pc' = "creating"
    BY <2>3 DEF Secured, After
  <2> QED
    BY <1>5, <2>1, <2>2, <2>3 DEF Find
<1>6. CASE Create
  <2>1. opened' # 0
    BY <1>6 DEF Create, TypeOK
  <2> QED
    BY <1>6, <2>1, EnsuredSecured DEF Create
<1>7. CASE Comment \/ Register \/ SaveDecision \/ SetStatus \/ Crash
  BY <1>7 DEF Comment, Register, SaveDecision, SetStatus, Crash, TickOver, local, Secured, After,
              BlocksPush
<1>8. CASE Environment
  BY <1>8 DEF Environment, Commit, HumanOpens, HumanCloses, TypeTarget, WriteTarget, Rest, local,
              Secured, After, BlocksPush
<1>9. CASE ReadRow \/ GiveUp \/ UNCHANGED vars
  BY <1>9 DEF ReadRow, GiveUp, vars, local, Secured, After, BlocksPush
<1> QED
  BY <1>1, <1>2, <1>3, <1>4, <1>5, <1>6, <1>7, <1>8, <1>9 DEF Next, Ensure

(* A tick that settles on COMPLETE has a pull request, or had nothing to   *)
(* publish, or its publishing threw.                                       *)
THEOREM CompletionHasPullRequest == Spec => []CompleteHasPullRequest
<1>1. Init => Secured
  BY DEF Init, Secured, After
<1>2. Secured => CompleteHasPullRequest
  <2>1. Complete.type = "COMPLETE" /\ \A why : Escalate(why).type = "ESCALATE"
    BY DEF Complete, Escalate
  <2>2. Settled = Complete => held = "none" /\ tick.action = Complete
    BY <2>1 DEF Settled
  <2>3. ~BlocksPush(Complete)
    BY <2>1 DEF BlocksPush
  <2> QED
    BY <2>2, <2>3 DEF Secured, After, CompleteHasPullRequest
<1> QED
  BY <1>1, <1>2, SecuredStep, PublishTypeCorrect, PTL DEF Spec

-----------------------------------------------------------------------------
(* The stop that stands has been told.                                     *)

(* Facts once carried come from the row: as long as nobody types over the  *)
(* row of a running tick, and no tick goes by a row that was written since *)
(* it was read, a pull request in the digest is one in the row.            *)
RowKnows ==
  /\ cli # << >> => pc = "idle"
  /\ ~overtaken =>
       /\ carried # 0 => target.pr # 0
       /\ cli # << >> /\ target.pr # 0 => cli.pr # 0
       /\ pc # "idle" /\ tick.digest.pr # 0 => tick.pr # 0
       /\ pc \in { "finding", "creating" } => tick.pr = 0
       /\ pc \in After /\ tick.pr # 0 => pr # 0

ThisStop == [ digest |-> tick.digest, action |-> tick.action ]

(* A stop that has passed the comment was written in this tick, or is the  *)
(* one that stands and was written before.                                 *)
ToldInTick ==
  StoppedByGuard(tick.action) /\ ~overtaken /\ tick.digest.pr # 0 =>
    (pc \in { "registering", "recording" } /\ held = "none" => wrote \/ (told /\ log = ThisStop))

StopInv == RowKnows /\ ToldInTick /\ StopTold

(* ensurePullRequest keeps a number it was given.                          *)
LEMMA EnsuredKnows ==
  ASSUME StopInv, pc # "idle", NEW n, NEW s, NEW r, Ensured(n, s, r), ~overtaken /\ tick.pr # 0 => n # 0
  PROVE  StopInv'
<1>1. RowKnows'
  BY DEF StopInv, RowKnows, Ensured, past, After
<1>2. ToldInTick'
  <2>1. ~overtaken /\ tick.digest.pr # 0 => n # 0
    BY DEF StopInv, RowKnows
  <2> QED
    BY <2>1 DEF StopInv, ToldInTick, Ensured, past, ThisStop, StoppedByGuard
<1>3. StopTold'
  BY DEF StopInv, StopTold, Ensured, past, StoppedByGuard
<1> QED
  BY <1>1, <1>2, <1>3 DEF StopInv

LEMMA EnsureKnows ==
  ASSUME TypeOK, StopInv, Ensure
  PROVE  StopInv'
<1>1. CASE KeepBack \/ HoldPush \/ NothingToPush \/ PushFails
  BY <1>1, EnsuredKnows DEF KeepBack, HoldPush, NothingToPush, MayPush, PushFails
<1>2. CASE Push
  <2>1. CASE tick.pr # 0 /\ Ensured(tick.pr, "none", "none")
    BY <1>2, <2>1, EnsuredKnows DEF Push, MayPush
  <2>2. CASE /\ tick.pr = 0 /\ pc' = "finding"
             /\ UNCHANGED << policy, target, closed, waiting, carried, past, tick, local, cli >>
    BY <1>2, <2>2 DEF Push, MayPush, StopInv, RowKnows, ToldInTick, StopTold, ThisStop,
                      StoppedByGuard, After, local, past
  <2> QED
    BY <1>2, <2>1, <2>2 DEF Push
<1>3. CASE Find
  <2>1. pc = "finding" /\ (~overtaken => tick.pr = 0)
    BY <1>3 DEF Find, StopInv, RowKnows
  <2>2. ASSUME NEW p \in open, Ensured(p, "none", "none")
        PROVE  StopInv'
    BY <2>1, <2>2, EnsuredKnows
  <2>3. CASE Ensured(0, "open_pull_request", "declared_manual")
    BY <2>1, <2>3, EnsuredKnows
  <2>4. CASE /\ pc' = "creating"
             /\ UNCHANGED << policy, target, closed, waiting, carried, past, tick, local, cli >>
    BY <2>1, <2>4 DEF StopInv, RowKnows, ToldInTick, StopTold, ThisStop, StoppedByGuard, After,
                      local, past
  <2> QED
    BY <1>3, <2>2, <2>3, <2>4 DEF Find
<1>4. CASE FindFails \/ CreateUnanswered \/ CreateRefused \/ Create
  <2>1. pc \in { "finding", "creating" } /\ (~overtaken => tick.pr = 0)
    BY <1>4 DEF FindFails, CreateUnanswered, CreateRefused, Create, StopInv, RowKnows
  <2> QED
    BY <1>4, <2>1, EnsuredKnows DEF FindFails, CreateUnanswered, CreateRefused, Create
<1> QED
  BY <1>1, <1>2, <1>3, <1>4 DEF Ensure

(* Nobody types over the row of a running tick.                            *)
LEMMA BeginKnows ==
  ASSUME TypeOK, StopInv, ~Overlapping, Begin
  PROVE  StopInv'
<1>1. PICK o \in Observed, a \in Decided, report \in Reports : BeginPublish(o, a, report)
  BY DEF Begin
<1>2. PICK row \in Rows :
        /\ overtaken' = (overtaken \/ row # target)
        /\ \E p \in { carried } \cup ({ row.pr } \ {0}) :
             /\ carried' = p
             /\ tick' = [ pr |-> row.pr, issue |-> row.issue,
                          digest |-> [ seen |-> o, pr |-> p ], action |-> a ]
  BY <1>1 DEF BeginPublish
<1>3. PICK p \in { carried } \cup ({ row.pr } \ {0}) :
        /\ carried' = p
        /\ tick' = [ pr |-> row.pr, issue |-> row.issue,
                     digest |-> [ seen |-> o, pr |-> p ], action |-> a ]
  BY <1>2
<1>4. cli = << >> /\ pc' = "ensuring" /\ UNCHANGED << target, cli, log, told >>
  BY <1>1 DEF BeginPublish
<1>5. tick'.pr = row.pr /\ tick'.digest.pr = p
  BY <1>3
<1>6. ~overtaken' => ~overtaken /\ row = target
  BY <1>2
<1>7. RowKnows'
  BY <1>3, <1>4, <1>5, <1>6 DEF StopInv, RowKnows, After
<1>8. ToldInTick' /\ StopTold'
  BY <1>4, <1>6 DEF ToldInTick, StopInv, StopTold
<1> QED
  BY <1>7, <1>8 DEF StopInv

(* A repeated stop is collapsed only when the previous tick recorded the   *)
(* same one on the same digest, and that one was told.                     *)
LEMMA CommentKnows ==
  ASSUME TypeOK, StopInv, Comment
  PROVE  StopInv'
<1>1. /\ pc = "commenting" /\ pc' = "registering" /\ wrote' = (wrote \/ ~NothingNew)
      /\ UNCHANGED << target, carried, cli, log, told, overtaken, tick, pr, held, skipped >>
  BY DEF Comment, past
<1>2. RowKnows'
  BY <1>1 DEF StopInv, RowKnows, After
<1>3. ASSUME StoppedByGuard(tick.action), ~overtaken, tick.digest.pr # 0, NothingNew
      PROVE  told /\ log = ThisStop
  <2>1. log.digest = tick.digest /\ log.action = tick.action
    BY <1>3 DEF NothingNew, RepeatsGuardStop
  <2>2. told
    BY <1>3, <2>1 DEF StopInv, StopTold
  <2> QED
    BY <2>1, <2>2 DEF TypeOK, ThisStop
<1>4. ToldInTick'
  <2>1. ThisStop' = ThisStop /\ StoppedByGuard(tick'.action) = StoppedByGuard(tick.action)
    BY <1>1 DEF ThisStop
  <2> QED
    BY <1>1, <1>3, <2>1 DEF ToldInTick
<1>5. StopTold'
  BY <1>1 DEF StopInv, StopTold, StoppedByGuard
<1> QED
  BY <1>2, <1>4, <1>5 DEF StopInv

LEMMA EndKnows ==
  ASSUME TypeOK, StopInv, Register \/ SaveDecision \/ SetStatus \/ Crash
  PROVE  StopInv'
<1>1. CASE Register
  <2>1. RowKnows'
    BY <1>1 DEF Register, StopInv, RowKnows, After, local, past
  <2> QED
    BY <1>1, <2>1 DEF Register, StopInv, ToldInTick, StopTold, ThisStop, StoppedByGuard, local, past
<1>2. CASE SaveDecision
  <2>1. /\ pc = "recording" /\ pc' = "settling"
        /\ log' = [ digest |-> tick.digest, action |-> Settled ]
        /\ told' = (StoppedByGuard(Settled) /\ (wrote \/ (told /\ log' = log)))
        /\ UNCHANGED << target, carried, overtaken, cli, tick, pr, held, wrote >>
    BY <1>2 DEF SaveDecision, local
  <2>2. RowKnows'
    BY <2>1 DEF StopInv, RowKnows, After
  <2>3. ToldInTick'
    BY <2>1 DEF ToldInTick
  <2>4. StopTold'
    <3>1. ASSUME StoppedByGuard(Settled)
          PROVE  held = "none" /\ Settled = tick.action
      <4>1. HeldReason \notin GuardStops
        BY DEF HeldReason, GuardStops
      <4>2. Escalate(HeldReason).of = HeldReason
        BY DEF Escalate
      <4> QED
        BY <3>1, <4>1, <4>2 DEF Settled, StoppedByGuard
    <3>2. log'.action = Settled /\ log'.digest = tick.digest
      BY <2>1
    <3>3. ASSUME StoppedByGuard(Settled), tick.digest.pr # 0, ~overtaken
          PROVE  told'
      <4>1. wrote \/ (told /\ log = ThisStop)
        BY <2>1, <3>1, <3>3 DEF StopInv, ToldInTick
      <4>2. log' = ThisStop
        BY <2>1, <3>1, <3>3 DEF ThisStop
      <4> QED
        BY <2>1, <3>3, <4>1, <4>2
    <3> QED
      BY <2>1, <3>2, <3>3 DEF StopTold
  <2> QED
    BY <2>2, <2>3, <2>4 DEF StopInv
<1>3. CASE SetStatus \/ Crash
  BY <1>3 DEF SetStatus, Crash, TickOver, StopInv, RowKnows, ToldInTick, StopTold, StoppedByGuard,
              After, past
<1> QED
  BY <1>1, <1>2, <1>3

LEMMA EnvironmentKnows ==
  ASSUME TypeOK, StopInv, ~Overlapping, Environment
  PROVE  StopInv'
<1>1. UNCHANGED Rest
  BY DEF Environment, Commit, HumanOpens, HumanCloses, TypeTarget, WriteTarget
<1>2. ToldInTick' /\ StopTold'
  BY <1>1 DEF StopInv, ToldInTick, StopTold, ThisStop, StoppedByGuard, Rest, local, past
<1>3. RowKnows'
  <2> USE <1>1 DEF StopInv, RowKnows, Rest, local, past, After
  <2>1. CASE Commit \/ HumanOpens \/ HumanCloses
    BY <2>1 DEF Commit, HumanOpens, HumanCloses
  <2>2. CASE TypeTarget
    <3>1. PICK p \in open \cup { target.pr }, i \in Issues \cup { target.issue } :
            cli' = [ pr |-> p, issue |-> i ]
      BY <2>2 DEF TypeTarget
    <3>2. target.pr # 0 => p # 0
      BY DEF TypeOK
    <3>3. cli'.pr = p
      BY <3>1
    <3> QED
      BY <2>2, <3>2, <3>3 DEF TypeTarget
  <2>3. CASE WriteTarget
    BY <2>3 DEF WriteTarget
  <2> QED
    BY <2>1, <2>2, <2>3 DEF Environment
<1> QED
  BY <1>2, <1>3 DEF StopInv

(* A stop of the guards that stands on an observed pull request has been   *)
(* told, as long as no --pr or --issue is typed over a running tick, and no*)
(* tick goes by a row that was written since it was read.                  *)
THEOREM StandingStopIsTold ==
  ASSUME ~Overlapping
  PROVE  Spec => []StopTold
<1>1. Init => StopInv
  <2>1. ~StoppedByGuard(Verify)
    BY DEF Verify, StoppedByGuard
  <2> QED
    BY <2>1 DEF Init, StopInv, RowKnows, ToldInTick, StopTold, Nothing, Idle, After
<1>2. ASSUME TypeOK, StopInv, [Next]_vars
      PROVE  StopInv'
  <2>1. CASE ReadRow \/ GiveUp \/ UNCHANGED vars
    BY <1>2, <2>1 DEF ReadRow, GiveUp, vars, local, past, StopInv, RowKnows, ToldInTick, StopTold,
                      ThisStop, StoppedByGuard, After
  <2> QED
    BY <1>2, <2>1, BeginKnows, EnsureKnows, CommentKnows, EndKnows, EnvironmentKnows DEF Next
<1>3. StopInv => StopTold
  BY DEF StopInv
<1> QED
  BY <1>1, <1>2, <1>3, PublishTypeCorrect, PTL DEF Spec

-----------------------------------------------------------------------------
(* The refinement.  What has come of a round can be read off the place in  *)
(* the tick and off what ensurePullRequest left behind, because the latter *)
(* is cleared with every tick (Unset) and stands for one cause each        *)
(* (HeldFits).  Rows name pull requests that exist (Existing), those read  *)
(* before as well, and the status that is about to be written is that of   *)
(* the decision that was saved (Saved).  Nothing is said of completion: a  *)
(* tick that found the Goal open may well run beside a completed one, which*)
(* is why the abstract specification lets those finish that were admitted. *)
Unset == pc \notin After => skipped = "none" /\ held = "none"

HeldFits ==
  pc \in After =>
    /\ held # "none" <=> skipped = "declared_manual"
    /\ held = "push_branch" => policy.push = "manual"
    /\ held = "open_pull_request" => policy.open = "manual"
    /\ skipped = "guard" => BlocksPush(tick.action)

Existing ==
  /\ target.pr \in 0..opened /\ tick.pr \in 0..opened /\ pr \in 0..opened
  /\ cli # << >> => cli.pr \in 0..opened
  /\ \A row \in waiting : row.pr \in 0..opened

Working == pc # "idle" => tick.action \in Decided

Saved == pc = "settling" => log.action = Settled

BranchInv == Unset /\ HeldFits /\ Existing /\ Working /\ Saved

LEMMA EnsuredFits ==
  ASSUME NEW n \in 0..opened', NEW s, NEW r, Ensured(n, s, r), BranchInv, TypeOK, pc # "idle",
         opened' >= opened, opened' \in Nat,
         s # "none" <=> r = "declared_manual",
         s = "push_branch" => policy.push = "manual",
         s = "open_pull_request" => policy.open = "manual",
         r = "guard" => BlocksPush(tick.action)
  PROVE  BranchInv'
<1>1. /\ pr' = n /\ held' = s /\ skipped' = r /\ pc' \in { "registering", "commenting" }
      /\ UNCHANGED << policy, target, waiting, tick, cli >>
  BY DEF Ensured
<1>2. Unset' /\ HeldFits'
  BY <1>1 DEF Unset, HeldFits, After, BlocksPush
<1>3. Existing'
  BY <1>1 DEF BranchInv, Existing, TypeOK, Targets, Numbers
<1>4. Working' /\ Saved'
  BY <1>1 DEF BranchInv, Working, Saved
<1> QED BY <1>2, <1>3, <1>4 DEF BranchInv

(* What the places of ensurePullRequest have in common.                    *)
LEMMA EnsureFits ==
  ASSUME TypeOK, BranchInv, Ensure
  PROVE  BranchInv'
<1>A. opened \in Nat /\ tick.pr \in 0..opened /\ pc # "idle"
  BY DEF TypeOK, BranchInv, Existing, Ensure, KeepBack, HoldPush, NothingToPush, MayPush, Push,
         PushFails, Find, FindFails, Create, CreateUnanswered, CreateRefused
<1>0. 0 \in 0..opened /\ opened >= opened
  BY <1>A
<1>1. CASE KeepBack
  BY <1>A, <1>0, <1>1, EnsuredFits DEF KeepBack, world
<1>2. CASE HoldPush
  BY <1>A, <1>0, <1>2, EnsuredFits DEF HoldPush, world
<1>3. CASE NothingToPush
  BY <1>A, <1>0, <1>3, EnsuredFits DEF NothingToPush, world
<1>4. CASE PushFails
  BY <1>A, <1>0, <1>4, EnsuredFits DEF PushFails
<1>5. CASE FindFails \/ CreateRefused
  BY <1>A, <1>0, <1>5, EnsuredFits DEF FindFails, CreateRefused, world
<1>6. CASE Create
  <2>1. opened' = opened + 1 /\ Ensured(opened', "none", "none")
    BY <1>6 DEF Create
  <2>2. opened' \in 0..opened' /\ opened' \in Nat /\ opened' >= opened
    BY <1>A, <2>1
  <2> QED BY <1>A, <2>1, <2>2, EnsuredFits
<1>7. CASE CreateUnanswered
  <2>1. opened' = opened + 1 /\ Ensured(0, "none", "threw")
    BY <1>7 DEF CreateUnanswered
  <2>2. 0 \in 0..opened' /\ opened' \in Nat /\ opened' >= opened
    BY <1>A, <2>1
  <2> QED BY <1>A, <2>1, <2>2, EnsuredFits
<1>8. ASSUME pc' \in { "finding", "creating" }, pc \notin After, pc # "idle",
             UNCHANGED << policy, opened, target, waiting, tick, local, cli >>
      PROVE  BranchInv'
  BY <1>8 DEF BranchInv, Unset, HeldFits, Existing, Working, Saved, After, Settled, HeldReason, local
<1>9. CASE Push
  <2>1. CASE Ensured(tick.pr, "none", "none")
    BY <1>A, <1>0, <1>9, <2>1, EnsuredFits DEF Push
  <2>2. CASE pc' = "finding" /\ UNCHANGED << policy, target, waiting, tick, local, cli >>
    BY <1>9, <2>2, <1>8 DEF Push, MayPush, After
  <2> QED BY <1>9, <2>1, <2>2 DEF Push
<1>10. CASE Find
  <2>1. ASSUME NEW p \in open, Ensured(p, "none", "none")
        PROVE  BranchInv'
    <3>1. p \in 0..opened
      BY <1>A DEF TypeOK
    <3> QED BY <1>A, <1>0, <1>10, <2>1, <3>1, EnsuredFits DEF Find, world
  <2>2. CASE policy.open = "manual" /\ Ensured(0, "open_pull_request", "declared_manual")
    BY <1>A, <1>0, <1>10, <2>2, EnsuredFits DEF Find, world
  <2>3. CASE pc' = "creating" /\ UNCHANGED << policy, target, waiting, tick, local, cli >>
    BY <1>10, <2>3, <1>8 DEF Find, world, After
  <2> QED BY <1>10, <2>1, <2>2, <2>3 DEF Find
<1> QED
  BY <1>1, <1>2, <1>3, <1>4, <1>5, <1>6, <1>7, <1>9, <1>10 DEF Ensure

LEMMA BranchInvStep ==
  ASSUME TypeOK, BranchInv, [Next]_vars
  PROVE  BranchInv'
<1> USE DEF BranchInv, Unset, HeldFits, Existing, Working, Saved
<1>A. opened \in Nat /\ target.pr \in Nat
  BY DEF TypeOK, Targets, Numbers
<1>B. UNCHANGED << log, tick, held >> => UNCHANGED << log, Settled >>
  BY DEF Settled, HeldReason
<1>1. CASE Begin
  <2>1. PICK o \in Observed, a \in Decided, report \in Reports : BeginPublish(o, a, report)
    BY <1>1 DEF Begin
  <2>2. PICK row \in Rows :
          /\ waiting' \in { waiting, waiting \ { row } }
          /\ pr' = row.pr
          /\ \E p \in { carried } \cup ({ row.pr } \ {0}) :
               tick' = [ pr |-> row.pr, issue |-> row.issue,
                         digest |-> [ seen |-> o, pr |-> p ], action |-> a ]
    BY <2>1 DEF BeginPublish
  <2>3. /\ pc' = "ensuring" /\ held' = "none" /\ skipped' = "none"
        /\ UNCHANGED << policy, opened, target, cli >>
    BY <2>1 DEF BeginPublish, world
  <2>4. tick'.pr = row.pr /\ tick'.action = a
    BY <2>2
  <2>5. row.pr \in 0..opened
    BY DEF Rows
  <2>6. \A r \in waiting' : r \in waiting
    BY <2>2
  <2> QED BY <2>2, <2>3, <2>4, <2>5, <2>6 DEF After
<1>2. CASE Ensure
  <2> HIDE DEF BranchInv
  <2> QED BY <1>2, EnsureFits
<1>3. CASE Comment
  BY <1>3 DEF Comment, world, After, BlocksPush
<1>4. CASE Register
  <2>1. target'.pr \in 0..opened
    BY <1>4 DEF Register
  <2> QED
    BY <1>4, <2>1 DEF Register, world, local, After, BlocksPush
<1>5. CASE SaveDecision
  <2>1. Saved'
    BY <1>5, <1>B DEF SaveDecision, local, Settled, HeldReason
  <2> QED
    BY <1>5, <2>1 DEF SaveDecision, world, local, After, BlocksPush
<1>6. CASE SetStatus \/ Crash
  BY <1>A, <1>6 DEF SetStatus, Crash, TickOver, world, past, Idle, After
<1>7. CASE ReadRow \/ GiveUp \/ UNCHANGED vars
  <2>1. /\ UNCHANGED << policy, opened, log, pc, tick, pr, held, skipped, target, cli >>
        /\ \A r \in waiting' : r \in waiting \cup { target }
    BY <1>7 DEF ReadRow, GiveUp, vars, local, world, past
  <2>2. Saved'
    BY <1>B, <2>1
  <2> QED BY <2>1, <2>2 DEF After, BlocksPush
<1>8. CASE Commit \/ HumanOpens \/ HumanCloses
  <2>1. /\ opened' \in Nat /\ opened' >= opened
        /\ UNCHANGED << policy, log, pc, tick, pr, held, skipped, target, waiting, cli >>
    BY <1>A, <1>8 DEF Commit, HumanOpens, HumanCloses, Rest, local, past
  <2>2. Existing'
    BY <1>A, <2>1 DEF TypeOK, Numbers, Targets
  <2>3. Saved'
    BY <1>B, <2>1
  <2> QED BY <2>1, <2>2, <2>3 DEF After, BlocksPush
<1>9. CASE TypeTarget
  <2>1. UNCHANGED << policy, opened, log, pc, tick, pr, held, skipped, target, waiting >>
    BY <1>9 DEF TypeTarget, Rest, local, world, past
  <2>2. cli'.pr \in 0..opened
    <3>1. PICK p \in open \cup { target.pr }, i \in Issues \cup { target.issue } :
            cli' = [ pr |-> p, issue |-> i ]
      BY <1>9 DEF TypeTarget
    <3>2. p \in 0..opened
      BY <1>A DEF TypeOK
    <3> QED BY <3>1, <3>2
  <2>3. Saved'
    BY <1>B, <2>1
  <2> QED BY <2>1, <2>2, <2>3 DEF After, BlocksPush
<1>10. CASE WriteTarget
  <2>1. UNCHANGED << policy, opened, log, pc, tick, pr, held, skipped, waiting >>
    BY <1>10 DEF WriteTarget, Rest, local, world, past
  <2>2. Saved'
    BY <1>B, <2>1
  <2> QED BY <1>10, <2>1, <2>2 DEF WriteTarget, After, BlocksPush
<1> QED
  BY <1>1, <1>2, <1>3, <1>4, <1>5, <1>6, <1>7, <1>8, <1>9, <1>10 DEF Next, Environment

(* The cases of Way and of Verdict, in this state and in the next.         *)
WayCases ==
  /\ pc # "settling" /\ skipped = "threw" => Way = "failed"
  /\ pc # "settling" /\ skipped = "no_diff" => Way = "no_diff"
  /\ pc \in { "finding", "creating" } /\ skipped = "none" => Way = "sent"
  /\ pc \in After \ { "settling" }
     /\ (skipped = "none" \/ (skipped = "declared_manual" /\ held = "open_pull_request"))
       => Way = "sent"
  /\ pc \in After \ { "settling" } /\ skipped \in { "guard", "declared_manual" }
     /\ held # "open_pull_request"
       => Way = "begun"
  /\ pc \in { "idle", "ensuring" } /\ skipped = "none" => Way = "begun"
  /\ pc = "settling" => Way = "said"
  /\ pc # "settling" => Way # "said"

LEMMA WayIs == WayCases /\ WayCases'
<1>1. WayCases
  <2>1. ASSUME pc # "settling", skipped = "threw" PROVE Way = "failed"
    BY <2>1 DEF Way, Sent
  <2>2. ASSUME pc # "settling", skipped = "no_diff" PROVE Way = "no_diff"
    BY <2>2 DEF Way, Sent
  <2>3. ASSUME pc \in { "finding", "creating" }, skipped = "none"
        PROVE  Way = "sent"
    BY <2>3 DEF Way, Sent
  <2>4. ASSUME pc \in After \ { "settling" },
               skipped = "none" \/ (skipped = "declared_manual" /\ held = "open_pull_request")
        PROVE  Way = "sent"
    BY <2>4 DEF Way, Sent, After
  <2>5. ASSUME pc \in After \ { "settling" }, skipped \in { "guard", "declared_manual" },
               held # "open_pull_request"
        PROVE  Way = "begun"
    BY <2>5 DEF Way, Sent, After
  <2>6. ASSUME pc \in { "idle", "ensuring" }, skipped = "none"
        PROVE  Way = "begun"
    BY <2>6 DEF Way, Sent
  <2>7. ASSUME pc = "settling" PROVE Way = "said"
    BY <2>7 DEF Way, Sent
  <2>8. ASSUME pc # "settling" PROVE Way # "said"
    BY <2>8 DEF Way, Sent
  <2> QED BY <2>1, <2>2, <2>3, <2>4, <2>5, <2>6, <2>7, <2>8 DEF WayCases
<1> QED BY <1>1, PTL

VerdictCases ==
  /\ Verdict = "complete" <=> log.action = Complete
  /\ log.action = Escalate("push_branch_declared_manual") => Verdict = "push_branch"
  /\ log.action = Escalate("open_pull_request_declared_manual") => Verdict = "open_pull_request"
  /\ log.action \notin { Complete, Escalate("push_branch_declared_manual"),
                         Escalate("open_pull_request_declared_manual") } => Verdict = "going on"

LEMMA VerdictIs == VerdictCases /\ VerdictCases'
<1>1. /\ Complete # Escalate("push_branch_declared_manual")
      /\ Complete # Escalate("open_pull_request_declared_manual")
      /\ Escalate("push_branch_declared_manual") # Escalate("open_pull_request_declared_manual")
  <2>1. /\ Complete.type = "COMPLETE" /\ \A why : Escalate(why).type = "ESCALATE"
        /\ \A why : Escalate(why).of = why
    BY DEF Complete, Escalate
  <2> QED BY <2>1
<1>2. VerdictCases
  BY <1>1 DEF Verdict, VerdictCases
<1> QED BY <1>2, PTL

(* The calls of ensurePullRequest are steps of the round.                  *)
LEMMA EnsureStep ==
  ASSUME TypeOK, BranchInv, Creating, Ensure
  PROVE  Branch!Next \/ UNCHANGED Branch!vars
<1> USE DEF Branch!vars, Branch!world, Branch!goal
<1>0. ASSUME NEW n, NEW s, NEW r, Ensured(n, s, r)
      PROVE  /\ skipped' = r /\ held' = s /\ pc' \in After \ { "settling" }
             /\ pc' # "finding" /\ pc' # "creating" /\ pc' # "idle" /\ pc' # "ensuring"
             /\ UNCHANGED << policy, target, closed, Verdict >>
  BY <1>0 DEF Ensured, After, Verdict, past
<1>A. pc # "idle" /\ pc \notin After
  BY DEF Ensure, KeepBack, HoldPush, NothingToPush, MayPush, Push, PushFails, Find, FindFails,
         Create, CreateUnanswered, CreateRefused, After
<1>B. /\ skipped = "none" /\ held = "none"
      /\ Admitted /\ Admitted' = Admitted /\ closed' = closed
  <2>1. pc' # "idle" /\ closed' = closed
    BY DEF Ensure, KeepBack, HoldPush, NothingToPush, Push, PushFails, Find, FindFails, Create,
           CreateUnanswered, CreateRefused, Ensured
  <2> QED BY <1>A, <2>1 DEF BranchInv, Unset, Admitted
<1>C. /\ pc = "ensuring" => Way = "begun"
      /\ pc \in { "finding", "creating" } => Way = "sent"
  BY <1>B, WayIs DEF WayCases
<1>D. pc' \in { "finding", "creating" } /\ UNCHANGED << local, past >>
        => Way' = "sent" /\ Verdict' = Verdict
  BY <1>B, WayIs DEF WayCases, local, past, Verdict
<1>1. CASE KeepBack
  <2>1. Ensured(tick.pr, "none", "guard") /\ pc = "ensuring" /\ UNCHANGED << head, remote, open, opened >>
    BY <1>1 DEF KeepBack, world
  <2>2. Way' = "begun"
    BY <1>0, <2>1, WayIs DEF WayCases
  <2> QED BY <1>0, <1>B, <1>C, <2>1, <2>2
<1>2. CASE HoldPush
  <2>1. /\ Ensured(tick.pr, "push_branch", "declared_manual") /\ pc = "ensuring"
        /\ UNCHANGED << head, remote, open, opened >>
    BY <1>2 DEF HoldPush, world
  <2>2. Way' = "begun"
    BY <1>0, <2>1, WayIs DEF WayCases
  <2> QED BY <1>0, <1>B, <1>C, <2>1, <2>2
<1>3. CASE NothingToPush
  <2>1. /\ Ensured(tick.pr, "none", "no_diff") /\ pc = "ensuring" /\ head = 0
        /\ UNCHANGED << head, remote, open, opened >>
    BY <1>3 DEF NothingToPush, MayPush, world
  <2>2. Way' = "no_diff"
    BY <1>0, <2>1, WayIs DEF WayCases
  <2>3. Branch!NoDiff
    BY <1>0, <1>B, <1>C, <2>1, <2>2 DEF Branch!NoDiff
  <2> QED BY <2>3 DEF Branch!Next
<1>4. CASE Push
  <2>1. /\ pc = "ensuring" /\ policy.push = "auto" /\ head > 0 /\ remote' = head
        /\ UNCHANGED << head, open, opened >>
    BY <1>4 DEF Push, MayPush
  <2>2. Way' = "sent" /\ UNCHANGED << policy, target, Verdict >>
    <3>1. CASE Ensured(tick.pr, "none", "none")
      BY <1>0, <3>1, WayIs DEF WayCases
    <3>2. CASE pc' = "finding" /\ UNCHANGED << policy, target, past, local >>
      BY <1>D, <3>2
    <3> QED BY <1>4, <3>1, <3>2 DEF Push
  <2>3. Branch!Push
    BY <1>B, <1>C, <2>1, <2>2 DEF Branch!Push
  <2> QED BY <2>3 DEF Branch!Next
<1>5. ASSUME NEW n, Ensured(n, "none", "threw"),
             UNCHANGED << head, open, opened >>, pc \in { "ensuring", "finding", "creating" },
             remote' = remote \/ (pc = "ensuring" /\ policy.push = "auto" /\ remote' = head)
      PROVE  Branch!Next
  <2>1. Way' = "failed"
    BY <1>0, <1>5, WayIs DEF WayCases
  <2>2. Branch!Fail
    BY <1>0, <1>5, <1>B, <1>C, <2>1 DEF Branch!Fail
  <2> QED BY <2>2 DEF Branch!Next
<1>6. CASE PushFails
  BY <1>5, <1>6 DEF PushFails, MayPush
<1>7. CASE FindFails \/ CreateRefused
  BY <1>5, <1>7 DEF FindFails, CreateRefused, world
<1>8. CASE Find
  <2>1. /\ Way = "sent" /\ UNCHANGED << head, remote, open, opened >>
    BY <1>8, <1>C DEF Find, world
  <2>2. Way' = "sent" /\ UNCHANGED << policy, target, Verdict >>
    <3>1. ASSUME NEW p \in open, Ensured(p, "none", "none")
          PROVE  Way' = "sent" /\ UNCHANGED << policy, target, Verdict >>
      BY <1>0, <3>1, WayIs DEF WayCases
    <3>2. CASE Ensured(0, "open_pull_request", "declared_manual")
      BY <1>0, <3>2, WayIs DEF WayCases
    <3>3. CASE pc' = "creating" /\ UNCHANGED << policy, target, past, local >>
      BY <1>D, <3>3
    <3> QED BY <1>8, <3>1, <3>2, <3>3 DEF Find
  <2> QED BY <1>B, <2>1, <2>2
<1>9. CASE Create \/ CreateUnanswered
  <2>1. /\ pc = "creating" /\ opened' = opened + 1 /\ open' = open \cup { opened' }
        /\ UNCHANGED << head, remote >>
        /\ Ensured(opened', "none", "none") \/ Ensured(0, "none", "threw")
    BY <1>9 DEF Create, CreateUnanswered
  <2>2. Way' \in { "sent", "failed" } /\ UNCHANGED << policy, target, Verdict >>
    BY <1>0, <2>1, WayIs DEF WayCases
  <2>3. open = {} /\ policy.open = "auto" /\ open' = { opened' }
    BY <2>1 DEF Creating
  <2>4. Branch!Open
    BY <1>B, <1>C, <2>1, <2>2, <2>3 DEF Branch!Open, Branch!OpenOne
  <2> QED BY <2>4 DEF Branch!Next
<1> QED
  BY <1>1, <1>2, <1>3, <1>4, <1>6, <1>7, <1>8, <1>9 DEF Ensure

(* The decision that is saved is the verdict on the round.                 *)
LEMMA SaveStep ==
  ASSUME TypeOK, BranchInv, Secured, SaveDecision,
         Escalate("push_branch_declared_manual") \notin Decided,
         Escalate("open_pull_request_declared_manual") \notin Decided
  PROVE  Branch!Next
<1> USE DEF Branch!vars, Branch!world, Branch!goal
<1>1. /\ pc = "recording" /\ log'.action = Settled /\ pc' = "settling"
      /\ UNCHANGED << policy, target, closed, waiting, head, remote, open, opened >>
  BY DEF SaveDecision, world
<1>2. pc \in After \ { "settling" } /\ pc # "idle" /\ pc # "finding" /\ pc # "creating"
  BY <1>1 DEF After
<1>3. Way # "said" /\ Way' = "said" /\ Admitted /\ Admitted'
  BY <1>1, WayIs DEF WayCases, Admitted
<1>4. Branch!Say(Verdict')
  BY <1>1, <1>3 DEF Branch!Say
<1>5. CASE held = "none"
  <2>1. log'.action = tick.action /\ tick.action \in Decided
    BY <1>1, <1>2, <1>5 DEF Settled, BranchInv, Working
  <2>2. CASE tick.action # Complete
    <3>1. Verdict' = "going on"
      BY <2>1, <2>2, VerdictIs DEF VerdictCases
    <3> QED BY <1>3, <1>4, <3>1 DEF Branch!Next, Branch!GoOn
  <2>3. CASE tick.action = Complete
    <3>1. Verdict' = "complete"
      BY <2>1, <2>3, VerdictIs DEF VerdictCases
    <3>2. ~BlocksPush(tick.action)
      <4>1. Complete.type = "COMPLETE"
        BY DEF Complete
      <4> QED BY <2>3, <4>1 DEF BlocksPush
    <3>3. skipped \in { "none", "no_diff", "threw" }
      BY <1>2, <1>5, <3>2 DEF BranchInv, HeldFits, TypeOK, Reasons
    <3>4. skipped = "none" => pr # 0
      BY <1>2, <1>5 DEF Secured
    <3>5. skipped = "none" => opened > 0
      BY <3>4 DEF BranchInv, Existing, TypeOK
    <3>6. Way \in { "no_diff", "failed" } \/ (Way = "sent" /\ opened > 0)
      BY <1>2, <3>3, <3>5, WayIs DEF WayCases
    <3> QED BY <1>4, <3>1, <3>6 DEF Branch!Next, Branch!Finish
  <2> QED BY <2>2, <2>3
<1>6. CASE held = "push_branch"
  <2>1. Verdict' = "push_branch"
    BY <1>1, <1>6, VerdictIs DEF VerdictCases, Settled, HeldReason
  <2>2. policy.push = "manual" /\ Way = "begun"
    BY <1>2, <1>6, WayIs DEF WayCases, BranchInv, HeldFits
  <2> QED BY <1>4, <2>1, <2>2 DEF Branch!Next, Branch!AskToPush
<1>7. CASE held = "open_pull_request"
  <2>1. Verdict' = "open_pull_request"
    BY <1>1, <1>7, VerdictIs DEF VerdictCases, Settled, HeldReason
  <2>2. policy.open = "manual" /\ Way = "sent"
    BY <1>2, <1>7, WayIs DEF WayCases, BranchInv, HeldFits
  <2> QED BY <1>4, <2>1, <2>2 DEF Branch!Next, Branch!AskToOpen
<1> QED BY <1>5, <1>6, <1>7 DEF TypeOK, Steps

(* Only a decision to complete gives the row a terminal status.            *)
LEMMA ClosesOnComplete ==
  ASSUME NEW a \in Actions
  PROVE  IsTerminal(NextStatus("ACTIVE", a)) <=> a = Complete
<1>1. a.type = "COMPLETE" <=> a = Complete
  <2>1. Complete.type = "COMPLETE" /\ Verify.type = "VERIFY" /\ Replan.type = "REPLAN"
        /\ WaitUntil.type = "WAIT"
    BY DEF Complete, Verify, Replan, WaitUntil
  <2>2. /\ \A r : Act(r).type = "ACT"
        /\ \A r : Wait(r).type = "WAIT"
        /\ \A r : Escalate(r).type = "ESCALATE"
    BY DEF Act, Wait, Escalate
  <2> QED BY <2>1, <2>2 DEF Actions
<1>2. NextStatus("ACTIVE", a) = "COMPLETED" <=> a.type = "COMPLETE"
  BY DEF NextStatus, IsTerminal, WaitsForHuman
<1>3. NextStatus("ACTIVE", a) \in { "COMPLETED", "WAITING_HUMAN", "WAITING_EXTERNAL", "BLOCKED",
                                    "ACTIVE" }
  BY DEF NextStatus, IsTerminal, WaitsForHuman
<1> QED BY <1>1, <1>2, <1>3 DEF IsTerminal

(* A tick ends: with what it said written to the row, or with nothing.     *)
LEMMA OverStep ==
  ASSUME TypeOK, BranchInv, SetStatus \/ Crash
  PROVE  Branch!Next
<1> USE DEF Branch!vars, Branch!world, Branch!goal
<1>1. /\ pc # "idle" /\ pc' = "idle" /\ skipped' = "none"
      /\ UNCHANGED << policy, head, remote, open, opened, target, log, waiting >>
  BY DEF SetStatus, Crash, TickOver, world, past
<1>2. Verdict' = Verdict
  BY <1>1 DEF Verdict
<1>3. Branch!Over
  <2>1. Way' = "begun" /\ Admitted /\ Admitted' \in BOOLEAN
    BY <1>1, WayIs DEF WayCases, Admitted
  <2> QED BY <1>1, <1>2, <2>1 DEF Branch!Over
<1>4. CASE SetStatus
  <2>1. pc = "settling" /\ closed' = IsTerminal(NextStatus("ACTIVE", Settled))
    BY <1>4 DEF SetStatus
  <2>2. Settled = log.action /\ log.action \in Actions
    BY <2>1 DEF BranchInv, Saved, TypeOK
  <2>3. closed' = (Verdict = "complete")
    <3>1. (Verdict = "complete") <=> log.action = Complete
      BY VerdictIs DEF VerdictCases
    <3>2. IsTerminal(NextStatus("ACTIVE", Settled)) <=> log.action = Complete
      BY <2>2, ClosesOnComplete
    <3>3. IsTerminal(NextStatus("ACTIVE", Settled)) \in BOOLEAN
      BY DEF IsTerminal
    <3> QED BY <2>1, <3>1, <3>2, <3>3
  <2>4. Way = "said"
    BY <2>1, WayIs DEF WayCases
  <2>5. Branch!Settle
    BY <1>3, <2>3, <2>4 DEF Branch!Settle
  <2> QED BY <2>5 DEF Branch!Next
<1>5. CASE Crash
  <2>1. Branch!Leave
    BY <1>3, <1>5 DEF Crash, Branch!Leave
  <2> QED BY <2>1 DEF Branch!Next
<1> QED BY <1>4, <1>5

(* Somebody comes, or goes away without having got the lease.              *)
LEMMA ComeAndGoStep ==
  ASSUME TypeOK, BranchInv, Begin \/ ReadRow \/ GiveUp
  PROVE  [Branch!Next]_(Branch!vars)
<1> USE DEF Branch!vars, Branch!world, Branch!goal
<1>1. CASE Begin
  <2>1. PICK o \in Observed, a \in Decided, report \in Reports : BeginPublish(o, a, report)
    BY <1>1 DEF Begin
  <2>2. /\ pc = "idle" /\ pc' = "ensuring" /\ skipped' = "none"
        /\ UNCHANGED << policy, head, remote, open, opened, target, log, closed >>
    BY <2>1 DEF BeginPublish, world
  <2>3. Way = "begun" /\ Way' = "begun"
    BY <2>2, WayIs DEF WayCases, BranchInv, Unset, After
  <2>4. Verdict' = Verdict /\ Admitted' = TRUE
    BY <2>2 DEF Verdict, Admitted
  <2>5. CASE waiting = {}
    <3>1. ~closed
      BY <2>1, <2>5 DEF BeginPublish, Rows
    <3>2. Branch!Enter
      BY <2>2, <2>3, <2>4, <3>1 DEF Branch!Enter
    <3> QED BY <3>2 DEF Branch!Next
  <2>6. CASE waiting # {}
    BY <2>2, <2>3, <2>4, <2>6 DEF Admitted
  <2> QED BY <2>5, <2>6
<1>2. CASE ReadRow
  <2>1. /\ pc # "idle" /\ UNCHANGED << pc, skipped, held, log, closed >>
        /\ UNCHANGED << policy, head, remote, open, opened, target >>
    BY <1>2 DEF ReadRow, world, local, past
  <2> QED BY <2>1 DEF Way, Sent, Verdict, Admitted
<1>3. CASE GiveUp
  <2>1. /\ waiting # {} /\ UNCHANGED << pc, skipped, held, log, closed >>
        /\ UNCHANGED << policy, head, remote, open, opened, target >>
    BY <1>3 DEF GiveUp, world, local, past
  <2>2. Way' = Way /\ Verdict' = Verdict
    BY <2>1 DEF Way, Sent, Verdict
  <2>3. CASE pc # "idle"
    BY <2>1, <2>2, <2>3 DEF Admitted
  <2>4. CASE pc = "idle"
    <3>1. Way = "begun"
      BY <2>4, WayIs DEF WayCases, BranchInv, Unset, After
    <3>2. Admitted /\ Admitted' \in BOOLEAN
      BY <2>1 DEF Admitted
    <3>3. Branch!Leave
      BY <2>1, <2>2, <3>1, <3>2 DEF Branch!Leave, Branch!Over
    <3> QED BY <3>3 DEF Branch!Next
  <2> QED BY <2>3, <2>4
<1> QED BY <1>1, <1>2, <1>3

LEMMA BranchStep ==
  ASSUME TypeOK, BranchInv, Creating, Secured, [Next]_vars,
         Escalate("push_branch_declared_manual") \notin Decided,
         Escalate("open_pull_request_declared_manual") \notin Decided
  PROVE  [Branch!Next]_(Branch!vars)
<1> USE DEF Branch!vars, Branch!world, Branch!goal
<1>0. UNCHANGED << pc, skipped, held, log, waiting >>
        => Way' = Way /\ Verdict' = Verdict /\ Admitted' = Admitted
  BY DEF Way, Sent, Verdict, Admitted
<1>1. CASE Begin \/ ReadRow \/ GiveUp
  BY <1>1, ComeAndGoStep
<1>2. CASE Ensure
  BY <1>2, EnsureStep
<1>3. ASSUME pc \in { "commenting", "registering" }, pc' \in { "registering", "recording" },
             UNCHANGED << held, skipped, log, waiting >>
      PROVE  Way' = Way /\ Verdict' = Verdict /\ Admitted' = Admitted
  BY <1>3 DEF Way, Sent, Verdict, Admitted
<1>4. CASE Comment
  BY <1>3, <1>4 DEF Comment, world, past
<1>5. CASE Register
  <2>1. target'.pr \in 0..opened
    BY <1>5 DEF Register, BranchInv, Existing
  <2>2. Branch!Name
    BY <1>3, <1>5, <2>1 DEF Register, world, local, past, Branch!Name
  <2> QED BY <2>2 DEF Branch!Next
<1>6. CASE SaveDecision
  BY <1>6, SaveStep
<1>7. CASE SetStatus \/ Crash
  BY <1>7, OverStep
<1>8. CASE Commit
  <2>1. Branch!Commit
    BY <1>0, <1>8 DEF Commit, Rest, local, past, Branch!Commit
  <2> QED BY <2>1 DEF Branch!Next
<1>9. CASE HumanOpens
  <2>1. Branch!HumanOpens
    BY <1>0, <1>9 DEF HumanOpens, Rest, local, past, Branch!HumanOpens, Branch!OpenOne
  <2> QED BY <2>1 DEF Branch!Next
<1>10. CASE HumanCloses
  <2>1. Branch!HumanCloses
    BY <1>0, <1>10 DEF HumanCloses, Rest, local, past, Branch!HumanCloses
  <2> QED BY <2>1 DEF Branch!Next
<1>11. CASE TypeTarget
  BY <1>0, <1>11 DEF TypeTarget, Rest, local, past, world
<1>12. CASE WriteTarget
  <2>1. target'.pr \in 0..opened
    BY <1>12 DEF WriteTarget, BranchInv, Existing
  <2>2. Branch!Name
    BY <1>0, <1>12, <2>1 DEF WriteTarget, Rest, local, past, world, Branch!Name
  <2> QED BY <2>2 DEF Branch!Next
<1>13. CASE UNCHANGED vars
  BY <1>0, <1>13 DEF vars, local, past, world
<1> QED
  BY <1>1, <1>2, <1>4, <1>5, <1>6, <1>7, <1>8, <1>9, <1>10, <1>11, <1>12, <1>13
  DEF Next, Environment

(* Whatever fails, is not answered or dies between the calls of publish(), *)
(* what can be seen on the remote, on GitHub and in the row is what        *)
(* PublishedBranch promises.  Only publishing itself may say that a step   *)
(* was declared manual.                                                    *)
THEOREM PublishKeepsItsPromise ==
  ASSUME Escalate("push_branch_declared_manual") \notin Decided,
         Escalate("open_pull_request_declared_manual") \notin Decided
  PROVE  Spec => BranchSpec
<1>1. Init => BranchInv /\ OneInv /\ Secured /\ Branch!Init
  <2> SUFFICES ASSUME Init PROVE BranchInv /\ OneInv /\ Secured /\ Branch!Init
    OBVIOUS
  <2>1. /\ policy \in Policies /\ head = 0 /\ remote = 0 /\ open = {} /\ opened = 0
        /\ target = [ pr |-> 0, issue |-> 0 ] /\ log = Nothing /\ pc = "idle" /\ tick = Idle
        /\ pr = 0 /\ held = "none" /\ skipped = "none" /\ cli = << >>
        /\ closed = FALSE /\ waiting = {}
    BY DEF Init
  <2>2. Way = "begun"
    BY <2>1, WayIs DEF WayCases
  <2>3. Verdict = "going on"
    BY <2>1, VerdictIs DEF VerdictCases, Nothing, Verify, Complete, Escalate
  <2>4. Branch!Init
    BY <2>1, <2>2, <2>3, ChoicesAssumption DEF Branch!Init, Admitted
  <2>5. BranchInv /\ OneInv /\ Secured
    BY <2>1 DEF BranchInv, Unset, HeldFits, Existing, Working, Saved, OneInv, OnePullRequest, Creating,
                Secured, After, Idle
  <2> QED BY <2>4, <2>5
<1>2. TypeOK /\ BranchInv /\ OneInv /\ Secured /\ [Next]_vars
        => (BranchInv /\ OneInv /\ Secured)' /\ [Branch!Next]_(Branch!vars)
  BY BranchInvStep, OneStep, SecuredStep, BranchStep DEF OneInv
<1> QED
  BY <1>1, <1>2, PublishTypeCorrect, PTL DEF Spec, BranchSpec, Branch!Spec
=============================================================================
