--------------------------- MODULE Session_proofs ---------------------------
(* The theorems about Session, for any limit on retries, any times at      *)
(* which limits are lifted and any default wait.  The sessions of the two  *)
(* providers end in many ways; SessionEnds says once what all of them have *)
(* in common, and only that is used afterwards.  The invariant is in three *)
(* parts: types; what a place in the tick says of the decision and of the  *)
(* Run (TickInv); and how long the Goal is asleep (SleepInv).              *)
EXTENDS Session, TLAPS

(* The agent itself reported its success.                                  *)
Said == IF by = "claude-code" THEN heard.result = "ok"
                              ELSE heard.final /\ heard.failure = "none"

Endings == [ok : BOOLEAN, error : { "none", "usage_limit", "unavailable", "other" }, reset : Times]

(* What an ending e of a session has to do with the world it ended in.     *)
EndingStep(e) ==
  /\ e \in Endings /\ Ends(e) /\ UNCHANGED now
  /\ e.ok => e.error = "none" /\ Said
  /\ IF e.error = "usage_limit"
     THEN /\ refused' = TRUE /\ lifts' \in Times /\ lost' \in BOOLEAN
          /\ \/ UNCHANGED << lifts, lost >>
             \/ ~aborted /\ (lifts' = e.reset \/ lifts' <= now)
     ELSE UNCHANGED announced

(* Every way in which a session can end is such a step: a limit is met     *)
(* only when the provider refused, and told a time that is the reset of    *)
(* the ending or has passed.                                               *)
LEMMA SessionEnds ==
  ASSUME TypeOK, Claude \/ Codex
  PROVE  ClaudeSays \/ CodexSays \/ \E e \in Endings : EndingStep(e)
<1> USE DEF TypeOK, Times, NoTime
<1>1. CASE ClaudeThrottles
  <2>1. Throttled \in Endings /\ Throttled.error = "unavailable" /\ ~Throttled.ok
    BY DEF Throttled, Ending, Endings, Voices
  <2>2. EndingStep(Throttled)
    BY <1>1, <2>1 DEF ClaudeThrottles, EndingStep
  <2> QED BY <2>1, <2>2
<1>2. CASE ClaudeThrows
  <2> DEFINE e == Ending(FALSE, "other", NoTime)
  <2>1. e \in Endings /\ e.error = "other" /\ ~e.ok
    BY DEF Ending, Endings
  <2>2. EndingStep(e)
    BY <1>2, <2>1 DEF ClaudeThrows, EndingStep
  <2> QED BY <2>1, <2>2
<1>3. CASE ClaudeEnds
  <2>1. LastResult \in Endings /\ LastResult.error = "none" /\ (LastResult.ok => heard.result = "ok")
    BY DEF LastResult, Ending, Endings, Voices
  <2>2. by = "claude-code" /\ Ends(LastResult) /\ UNCHANGED << now, announced >>
    BY <1>3 DEF ClaudeEnds, Running
  <2>3. EndingStep(LastResult)
    BY <2>1, <2>2 DEF EndingStep, Said
  <2> QED BY <2>1, <2>3
<1>4. ASSUME NEW r \in Resets \cup { NoTime }, ClaudeRefuses(r)
      PROVE  \E e \in Endings : EndingStep(e)
  <2> DEFINE e == Ending(FALSE, "usage_limit", r)
  <2>1. r \in Times
    BY ResetsAssumption
  <2>2. e \in Endings /\ e.error = "usage_limit" /\ ~e.ok /\ e.reset = r
    BY <2>1 DEF Ending, Endings
  <2>3. EndingStep(e)
    BY <1>4, <2>1, <2>2 DEF ClaudeRefuses, Refuses, EndingStep
  <2> QED BY <2>2, <2>3
<1>5. CASE CodexThrows
  <2> DEFINE e == Ending(FALSE, "unavailable", NoTime)
  <2>1. e \in Endings /\ e.error = "unavailable" /\ ~e.ok
    BY DEF Ending, Endings
  <2>2. EndingStep(e)
    BY <1>5, <2>1 DEF CodexThrows, EndingStep
  <2> QED BY <2>1, <2>2
<1>6. ASSUME NEW c \in { 0, 1 }, NEW f \in { "plain", "limit" }, NEW r \in Resets \cup { NoTime },
             CodexEnds(c, f, r)
      PROVE  \E e \in Endings : EndingStep(e)
  <2> DEFINE failure == IF heard.failure = "none" /\ c # 0 THEN f ELSE heard.failure
             good    == c = 0 /\ heard.final /\ failure = "none"
  <2>1. r \in Times
    BY ResetsAssumption
  <2>2. CASE failure = "limit"
    <3> DEFINE e == Ending(FALSE, "usage_limit", ResetTimeIn(r))
    <3>1. ResetTimeIn(r) \in Times /\ (r = ResetTimeIn(r) \/ r <= now)
      BY <2>1 DEF ResetTimeIn
    <3>2. e \in Endings /\ e.error = "usage_limit" /\ ~e.ok /\ e.reset = ResetTimeIn(r)
      BY <3>1 DEF Ending, Endings
    <3>3. Refuses(r) /\ Ends(e) /\ UNCHANGED now
      BY <1>6, <2>2 DEF CodexEnds
    <3>4. EndingStep(e)
      BY <2>1, <3>1, <3>2, <3>3 DEF Refuses, EndingStep
    <3> QED BY <3>2, <3>4
  <2>3. CASE failure # "limit" /\ good
    <3> DEFINE e == Ending(TRUE, "none", NoTime)
    <3>1. e \in Endings /\ e.error = "none"
      BY DEF Ending, Endings
    <3>2. by = "codex" /\ heard.final /\ heard.failure = "none" /\ Ends(e)
          /\ UNCHANGED << now, announced >>
      BY <1>6, <2>3 DEF CodexEnds, Running
    <3>3. EndingStep(e)
      BY <3>1, <3>2 DEF EndingStep, Said
    <3> QED BY <3>1, <3>3
  <2>4. CASE failure # "limit" /\ ~good
    <3> DEFINE e == Ending(FALSE, "unavailable", NoTime)
    <3>1. e \in Endings /\ e.error = "unavailable" /\ ~e.ok
      BY DEF Ending, Endings
    <3>2. Ends(e) /\ UNCHANGED << now, announced >>
      BY <1>6, <2>4 DEF CodexEnds
    <3>3. EndingStep(e)
      BY <3>1, <3>2 DEF EndingStep
    <3> QED BY <3>1, <3>3
  <2> QED BY <2>2, <2>3, <2>4
<1> QED BY <1>1, <1>2, <1>3, <1>4, <1>5, <1>6 DEF Claude, Codex

(* A step of Next, with the sessions summed up.                            *)
LEMMA Steps ==
  ASSUME TypeOK, [Next]_vars
  PROVE  \/ ReadRow \/ \E r \in Readings : BeginTick(r) \/ StopAtGuard(r)
         \/ AskLlm \/ GiveUp \/ Illegible
         \/ \E a \in Actions, ag \in Agents : Adopt(a, ag) \/ Reject(a, ag)
         \/ Launch \/ DoNotLaunch \/ StartActor \/ NoWorktree \/ Abort
         \/ ClaudeSays \/ CodexSays \/ \E e \in Endings : EndingStep(e)
         \/ Judge \/ EndTick \/ Die \/ Pass \/ UNCHANGED vars
  BY SessionEnds DEF Next, Answer

-----------------------------------------------------------------------------
(* What the vocabulary of actions says of their fields.                    *)
LEMMA ActionFacts ==
  /\ \A a \in Actions : a.type = "WAIT" => a.of \in WaitReasons
  /\ \A r \in WaitReasons : Wait(r) \in Actions /\ Wait(r) # WaitUntil
  /\ \A w \in EscalateReasons : Escalate(w) \in Actions /\ Escalate(w) # WaitUntil
  /\ \A a \in Actions : a.type = "VERIFY" => a = Verify
  /\ \A a \in Actions : a.type = "ACT" => \E r \in Roles : a = Act(r)
  /\ \A r \in Roles : Act(r) \in Actions /\ Act(r) # WaitUntil
  /\ \A r \in WaitReasons : Wait(r).type = "WAIT"
  /\ \A r \in Roles : Act(r).type = "ACT"
  /\ WaitUntil \in Actions /\ WaitUntil.type = "WAIT"
  /\ Verify # WaitUntil /\ Verify \in Actions
  /\ ~LeavesWorkUncommitted(WaitUntil)
<1> USE DEF Act, Wait, Escalate, WaitUntil, Verify, Complete, Replan
<1>1. ASSUME NEW a \in Actions
      PROVE  /\ a.type = "WAIT" => a.of \in WaitReasons
             /\ a.type = "VERIFY" => a = Verify
             /\ a.type = "ACT" => \E r \in Roles : a = Act(r)
  <2>1. /\ Complete.type = "COMPLETE" /\ Replan.type = "REPLAN" /\ Verify.type = "VERIFY"
        /\ WaitUntil.type = "WAIT" /\ WaitUntil.of \in WaitReasons
    BY DEF WaitReasons
  <2>2. \A r : /\ Act(r).type = "ACT" /\ Escalate(r).type = "ESCALATE"
               /\ Wait(r).type = "WAIT" /\ Wait(r).of = r
    OBVIOUS
  <2> HIDE DEF Act, Wait, Escalate, WaitUntil, Verify, Complete, Replan
  <2> QED BY <2>1, <2>2 DEF Actions
<1>2. \A r \in WaitReasons : Wait(r) \in Actions
  BY DEF Actions
<1>3. \A r \in EscalateReasons : Escalate(r) \in Actions
  BY DEF Actions
<1>4. \A r \in Roles : Act(r) \in Actions
  BY DEF Actions
<1>5. \A r : Wait(r) # WaitUntil /\ Escalate(r) # WaitUntil /\ Act(r) # WaitUntil
  <2>1. \A r : ~Wait(r).until /\ ~Escalate(r).until /\ ~Act(r).until
    OBVIOUS
  <2>2. WaitUntil.until
    OBVIOUS
  <2> QED BY <2>1, <2>2 DEF Actions
<1>6. WaitUntil \in Actions /\ Verify \in Actions
  BY DEF Actions
<1>7. Verify # WaitUntil
  <2>1. Verify.type = "VERIFY" /\ WaitUntil.type = "WAIT"
    OBVIOUS
  <2> QED BY <2>1
<1>8. ~LeavesWorkUncommitted(WaitUntil)
  BY DEF LeavesWorkUncommitted, ClaimsNothingLeft
<1> QED BY <1>1, <1>2, <1>3, <1>4, <1>5, <1>6, <1>7, <1>8

(* What the gates behind ACT may make of a decision.                       *)
LEMMA JudgeFacts ==
  ASSUME Judge, decision \in Actions
  PROVE  /\ decision' \in Actions
         /\ decision' = WaitUntil => decision = WaitUntil \/ until # NoTime
         /\ \/ decision' = ActorUsageLimitDecision(decision, until # NoTime)
               /\ lost' = (lost \/ (refused /\ FALSE))
            \/ decision' \in { Escalate("protected_path_touched"), Escalate("guard_unavailable") }
               /\ lost' = (lost \/ refused)
            \/ decision' = Escalate("uncommitted_changes")
               /\ (lost' = (lost \/ refused)
                      \/ LeavesWorkUncommitted(ActorUsageLimitDecision(decision, until # NoTime)))
<1> DEFINE limited == until # NoTime
<1>1. PICK g \in Guarded(decision) :
        /\ decision' \in Uncommitted(ActorUsageLimitDecision(g, limited))
        /\ lost' = (lost \/ (refused /\ g # decision))
  BY DEF Judge
<1>2. g = decision \/ g \in { Escalate("protected_path_touched"), Escalate("guard_unavailable") }
  BY <1>1 DEF Guarded
<1>3. \/ decision' = ActorUsageLimitDecision(g, limited)
      \/ /\ decision' = Escalate("uncommitted_changes")
         /\ LeavesWorkUncommitted(ActorUsageLimitDecision(g, limited))
  BY <1>1 DEF Uncommitted
<1>4. \A w \in EscalateReasons : ActorUsageLimitDecision(Escalate(w), limited) = Escalate(w)
  BY DEF ActorUsageLimitDecision, Escalate
<1>5. { "protected_path_touched", "guard_unavailable", "uncommitted_changes" } \subseteq EscalateReasons
  BY DEF EscalateReasons
<1>6. CASE g = decision
  <2>1. lost' = (lost \/ (refused /\ FALSE))
    BY <1>1, <1>6
  <2> QED BY <1>3, <1>5, <1>6, <2>1, ActionFacts DEF ActorUsageLimitDecision
<1>7. CASE g # decision
  <2>1. lost' = (lost \/ refused) /\ ActorUsageLimitDecision(g, limited) = g
    BY <1>1, <1>2, <1>4, <1>5, <1>7
  <2>2. g \in { Escalate("protected_path_touched"), Escalate("guard_unavailable") }
    BY <1>2, <1>7
  <2> QED BY <1>3, <1>5, <2>1, <2>2, ActionFacts
<1> QED BY <1>6, <1>7

(* Types, that a session is opened only while attempts are left, and that  *)
(* decide() has settled on an action when it came back.                    *)
TypeInv ==
  /\ TypeOK
  /\ pc \in { "hearing", "answered" } => attempt <= MaxLlmRetries
  /\ pc \in { "launching", "preparing", "acting", "settled", "publishing" } => decision \in Actions

(* An ending keeps the types, in DECIDE and in ACT.                        *)
LEMMA EndingType ==
  ASSUME TypeInv, NEW e \in Endings, EndingStep(e)
  PROVE  TypeInv'
<1> USE DEF TypeInv, TypeOK
<1>1. UsageLimitResumeAfter(e.reset, decidedAt) \in Times /\ UsageLimitResumeAfter(e.reset, now) \in Times
  BY RetriesAssumption DEF UsageLimitResumeAfter, Endings, Times, NoTime
<1>2. now' \in Nat /\ lifts' \in Times /\ refused' \in BOOLEAN /\ lost' \in BOOLEAN /\ e.ok \in BOOLEAN
  BY DEF EndingStep, Endings, announced
<1>7. UNCHANGED << resume, readers >>
  BY DEF EndingStep, Ends, row
<1>3. Silence \in Voices
  BY DEF Silence, Voices
<1>4. WaitUntil \in Actions /\ Escalate("invalid_decision") \in Actions
  BY ActionFacts DEF EscalateReasons
<1>5. CASE LlmReturns(e)
  <2>1. pc = "hearing" /\ attempt <= MaxLlmRetries
    BY <1>5 DEF LlmReturns
  <2>2. pc' \in Places /\ ctx' \in Contexts /\ run' \in RunStatuses /\ aborted' \in BOOLEAN
        /\ by' \in Providers /\ heard' \in Voices /\ decidedAt' \in Nat
    BY <1>5, <1>3 DEF LlmReturns, AskAgain, asking, Places
  <2>3. attempt' \in 0..(MaxLlmRetries + 1) /\ rejections' \in 0..attempt'
        /\ (pc' \in { "hearing", "answered" } => attempt' <= MaxLlmRetries)
    BY <1>5, <2>1, RetriesAssumption DEF LlmReturns, AskAgain, asking
  <2>4. /\ until' \in Times /\ decision' \in Actions \cup { NoDecision }
        /\ pc' \in { "settled", "asking", "answered" } /\ (pc' = "settled" => decision' \in Actions)
    BY <1>5, <1>1, <1>4 DEF LlmReturns, AskAgain
  <2> QED BY <1>2, <1>7, <2>2, <2>3, <2>4
<1>6. CASE ActorReturns(e)
  <2>1. pc' = "settled" /\ UNCHANGED << asking, decision, session, aborted >>
    BY <1>6 DEF ActorReturns, Goto
  <2>2. run' \in RunStatuses
    BY <1>6, <1>2 DEF ActorReturns, StatusOf, RunStatuses
  <2>3. until' \in Times
    BY <1>6, <1>1 DEF ActorReturns, Times
  <2>4. decision' \in Actions
    BY <1>6 DEF ActorReturns, Goto
  <2> QED BY <1>2, <1>7, <2>1, <2>2, <2>3, <2>4 DEF asking, session, Places
<1> QED BY <1>5, <1>6 DEF EndingStep, Ends

(* Every step keeps the types.                                             *)
LEMMA TypeStep ==
  ASSUME TypeInv, [Next]_vars
  PROVE  TypeInv'
<1> USE DEF TypeInv, TypeOK, Goto, clock, row, announced, inTick, asking, session
<1>1. Silence \in Voices /\ NoTime \in Times
  BY DEF Silence, Voices, Times
<1>15. CASE ReadRow
  BY <1>15 DEF ReadRow, Readings
<1>2. ASSUME NEW r \in Readings, BeginTick(r)
      PROVE  TypeInv'
  <2>1. refused' \in BOOLEAN /\ lost' \in BOOLEAN
    BY <1>2 DEF BeginTick
  <2> QED BY <1>2, <2>1 DEF BeginTick, Places
<1>16. ASSUME NEW r \in Readings, StopAtGuard(r)
       PROVE  TypeInv'
  <2>1. lost' \in BOOLEAN /\ readers' \subseteq Readings
    BY <1>16 DEF StopAtGuard, Readings
  <2> QED BY <1>1, <1>16, <2>1 DEF StopAtGuard
<1>17. CASE Judge
  <2>1. decision' \in Actions
    BY <1>17, JudgeFacts DEF Judge
  <2>2. lost' \in BOOLEAN
    BY <1>17 DEF Judge
  <2> QED BY <1>17, <2>1, <2>2 DEF Judge, Places
<1>3. CASE AskLlm
  BY <1>1, <1>3 DEF AskLlm, Places
<1>4. CASE GiveUp
  BY <1>4, ActionFacts DEF GiveUp, Places, EscalateReasons
<1>5. CASE Illegible
  BY <1>1, <1>5, RetriesAssumption DEF Illegible, AskAgain, Places
<1>6. ASSUME NEW a \in Actions, NEW ag \in Agents, Adopt(a, ag)
      PROVE  TypeInv'
  <2>1. WithoutResume(a) \in Actions
    BY ActionFacts DEF WithoutResume
  <2> QED BY <1>1, <1>6, <2>1 DEF Adopt, Places
<1>7. ASSUME NEW a \in Actions, NEW ag \in Agents, Reject(a, ag)
      PROVE  TypeInv'
  BY <1>1, <1>7, RetriesAssumption DEF Reject, AskAgain, Places
<1>8. CASE Launch \/ DoNotLaunch \/ NoWorktree
  BY <1>8 DEF Launch, DoNotLaunch, NoWorktree, StatusOf, Places, RunStatuses
<1>9. CASE StartActor
  BY <1>1, <1>9 DEF StartActor, Places
<1>10. CASE Abort
  <2>1. aborted' \in BOOLEAN
    BY <1>10 DEF Abort
  <2> QED BY <1>10, <2>1 DEF Abort
<1>14. CASE Pass
  BY <1>14 DEF Pass
<1>11. CASE ClaudeSays \/ CodexSays
  BY <1>11 DEF ClaudeSays, CodexSays, Voices
<1>12. ASSUME Over, resume' \in Times, lost' \in BOOLEAN, readers' \subseteq Readings
       PROVE  TypeInv'
  <2>1. aborted' \in BOOLEAN /\ refused' \in BOOLEAN
    BY <1>12 DEF Over
  <2>2. attempt' \in 0..(MaxLlmRetries + 1) /\ rejections' \in 0..attempt' /\ decidedAt' \in Nat
    BY <1>12, RetriesAssumption DEF Over
  <2>3. until' \in Times /\ now' \in Nat /\ lifts' \in Times /\ by' \in Providers /\ ctx' \in Contexts
    BY <1>1, <1>12 DEF Over
  <2>4. pc' = "idle" /\ decision' = NoDecision /\ heard' = Silence /\ run' = "none"
    BY <1>12 DEF Over
  <2> QED BY <1>1, <1>12, <2>1, <2>2, <2>3, <2>4 DEF Places, RunStatuses
<1>18. CASE EndTick
  <2>1. resume' \in Times /\ lost' \in BOOLEAN /\ readers' \subseteq Readings
    BY <1>1, <1>18 DEF EndTick, Readings
  <2> QED BY <1>12, <1>18, <2>1 DEF EndTick
<1>19. CASE Die
  <2>1. lost' \in BOOLEAN
    BY <1>19 DEF Die
  <2> QED BY <1>12, <1>19, <2>1 DEF Die
<1>13. CASE UNCHANGED vars
  BY <1>13 DEF vars
<1> QED
  BY <1>2, <1>3, <1>4, <1>5, <1>6, <1>7, <1>8, <1>9, <1>10, <1>11, <1>13, <1>14, <1>15, <1>16,
     <1>17, <1>18, <1>19, EndingType, Steps

(* The types of Init.                                                      *)
LEMMA InitType ==
  ASSUME Init
  PROVE  TypeInv
<1>1. Silence \in Voices /\ NoTime \in Times
  BY DEF Silence, Voices, Times
<1>2. refused \in BOOLEAN /\ lost \in BOOLEAN /\ aborted \in BOOLEAN
  BY DEF Init
<1>3. attempt \in 0..(MaxLlmRetries + 1) /\ rejections \in 0..attempt
  BY RetriesAssumption DEF Init
<1> QED BY <1>1, <1>2, <1>3 DEF Init, TypeInv, TypeOK, Places, RunStatuses

(* The variables of a tick and of the sessions keep their types, and no    *)
(* tick asks the LLM more than MaxLlmRetries + 1 times.                    *)
THEOREM TypeCorrect == Spec => []TypeOK
<1>1. TypeInv => TypeOK
  BY DEF TypeInv
<1> QED BY <1>1, InitType, TypeStep, PTL DEF Spec

-----------------------------------------------------------------------------
(* What the place in the tick says of the decision and of the Run.         *)
TickInv ==
  /\ pc \in { "idle", "asking", "hearing", "answered" } => decision = NoDecision /\ run = "none"
  /\ pc \in { "launching", "preparing", "acting" } => decision.type = "ACT" /\ run # "completed"
  /\ pc \notin { "settled", "publishing" } => until = NoTime
  /\ run = "completed" => Said
  /\ decision = WaitUntil \/ until # NoTime => refused
  /\ rejections > 0 => ctx.asksForReview /\ ctx.reviewedHead

(* No decision is not the wait for a limit, and no ACT is.                 *)
LEMMA NotWaiting ==
  /\ NoDecision # WaitUntil
  /\ \A a \in Actions : a.type = "ACT" => a # WaitUntil
  BY ActionFacts, NoDecisionAssumption

LEMMA EndingTick ==
  ASSUME TypeInv, TickInv, NEW e \in Endings, EndingStep(e)
  PROVE  TickInv'
<1> USE DEF TypeInv, TypeOK, TickInv
<1>1. CASE LlmReturns(e)
  <2>1. pc = "hearing" /\ decision = NoDecision /\ until = NoTime /\ run = "none" /\ run' = "none"
        /\ UNCHANGED << ctx, rejections >>
    BY <1>1 DEF LlmReturns, AskAgain, asking
  <2>2. CASE e.error = "usage_limit" /\ decision' = WaitUntil /\ pc' = "settled"
    <3>1. refused'
      BY <2>2 DEF EndingStep
    <3> QED BY <2>1, <2>2, <3>1, ActionFacts
  <2>3. CASE decision' = Escalate("invalid_decision") /\ pc' = "settled" /\ until' = until
    <3>1. decision' # WaitUntil
      BY <2>3, ActionFacts DEF EscalateReasons
    <3> QED BY <2>1, <2>3, <3>1
  <2>4. CASE decision' = decision /\ pc' \in { "asking", "answered" } /\ until' = until
    BY <2>1, <2>4, NotWaiting
  <2>5. ~AskAgain(0) \/ (decision' = decision /\ rejections' = rejections + 0 /\ pc' = "asking" /\ ctx' = ctx)
    BY DEF AskAgain
  <2>6. AskAgain(0) /\ until' = until => TickInv'
    BY <2>1, <2>5, <2>4
  <2> QED BY <1>1, <2>1, <2>2, <2>3, <2>4, <2>6 DEF LlmReturns
<1>2. CASE ActorReturns(e)
  <2>1. /\ pc = "acting" /\ pc' = "settled" /\ UNCHANGED << ctx, rejections, by, heard >>
        /\ decision \in Actions /\ decision.type = "ACT" /\ decision # WaitUntil
    BY <1>2, NotWaiting DEF ActorReturns, Goto, asking, session
  <2>2. run' = "completed" => Said'
    <3>1. run' = "completed" => e.ok
      BY <1>2 DEF ActorReturns, StatusOf
    <3> QED BY <2>1, <3>1 DEF EndingStep, Said
  <2>3. decision' = decision
    BY <1>2 DEF ActorReturns
  <2>4. until' # NoTime => refused'
    <3>1. until' # NoTime => e.error = "usage_limit"
      BY <1>2 DEF ActorReturns
    <3> QED BY <3>1 DEF EndingStep
  <2> QED BY <2>1, <2>2, <2>3, <2>4
<1> QED BY <1>1, <1>2 DEF EndingStep, Ends

LEMMA TickStep ==
  ASSUME TypeInv, TickInv, [Next]_vars
  PROVE  TickInv'
<1> USE DEF TypeInv, TypeOK, TickInv, Goto, clock, row, announced, inTick, asking, session
<1>1. ASSUME NEW r \in Readings, BeginTick(r) \/ StopAtGuard(r)
      PROVE  TickInv'
  BY <1>1, NotWaiting DEF BeginTick, StopAtGuard, Said
<1>16. CASE Judge
  <2>1. /\ pc = "settled" /\ pc' = "publishing" /\ UNCHANGED << until, refused, asking, session, run >>
        /\ decision' = WaitUntil => decision = WaitUntil \/ until # NoTime
    BY <1>16, JudgeFacts DEF Judge
  <2> QED BY <2>1 DEF Said
<1>17. CASE EndTick \/ Die
  BY <1>17, NotWaiting DEF EndTick, Die, Over
<1>2. CASE AskLlm
  BY <1>2 DEF AskLlm
<1>3. CASE GiveUp
  <2>1. decision' \in Actions /\ decision' # WaitUntil
    BY <1>3, ActionFacts DEF GiveUp, EscalateReasons
  <2> QED BY <1>3, <2>1 DEF GiveUp
<1>4. CASE Illegible
  <2>1. /\ pc = "answered" /\ pc' = "asking" /\ decision' = decision /\ run' = run /\ ctx' = ctx
        /\ rejections' = rejections + 0 /\ UNCHANGED << until, refused >>
    BY <1>4 DEF Illegible, AskAgain
  <2>2. rejections' = rejections
    BY <2>1
  <2> QED BY <2>1, <2>2, NotWaiting
<1>5. ASSUME NEW a \in Actions, NEW ag \in Agents, Adopt(a, ag)
      PROVE  TickInv'
  <2>1. decision' \in Actions /\ decision' # WaitUntil /\ (a.type = "ACT" => decision'.type = "ACT")
    <3>1. CASE a.type = "WAIT"
      BY <1>5, <3>1, ActionFacts DEF Adopt, WithoutResume
    <3>2. CASE a.type # "WAIT"
      BY <1>5, <3>2, ActionFacts DEF Adopt, WithoutResume
    <3> QED BY <3>1, <3>2
  <2>2. /\ pc = "answered" /\ run' = "none" /\ UNCHANGED << ctx, rejections, until, refused >>
        /\ pc' = IF a.type = "ACT" THEN "launching" ELSE "settled"
    BY <1>5 DEF Adopt
  <2> QED BY <2>1, <2>2
<1>6. ASSUME NEW a \in Actions, NEW ag \in Agents, Reject(a, ag)
      PROVE  TickInv'
  <2>1. /\ pc = "answered" /\ pc' = "asking" /\ decision' = decision /\ run' = run /\ ctx' = ctx
        /\ rejections' = rejections + (IF ReadAlready(a) THEN 1 ELSE 0)
        /\ UNCHANGED << until, refused >>
    BY <1>6 DEF Reject, AskAgain
  <2>2. rejections' > 0 => rejections > 0 \/ ReadAlready(a)
    BY <2>1
  <2> QED BY <2>1, <2>2, NotWaiting DEF ReadAlready
<1>7. CASE Launch
  BY <1>7, NotWaiting DEF Launch
<1>8. CASE DoNotLaunch
  BY <1>8 DEF DoNotLaunch
<1>9. CASE StartActor
  BY <1>9 DEF StartActor
<1>10. CASE NoWorktree
  BY <1>10 DEF NoWorktree, StatusOf
<1>11. CASE Abort
  BY <1>11 DEF Abort, Said
<1>12. CASE ClaudeSays \/ CodexSays
  BY <1>12 DEF ClaudeSays, CodexSays, Running
<1>13. ASSUME NEW e \in Endings, EndingStep(e)
       PROVE  TickInv'
  BY <1>13, EndingTick
<1>15. CASE ReadRow \/ Pass \/ UNCHANGED vars
  BY <1>15 DEF ReadRow, Pass, vars, Said
<1> QED
  BY <1>1, <1>2, <1>3, <1>4, <1>5, <1>6, <1>7, <1>8, <1>9, <1>10, <1>11, <1>12, <1>13, <1>15,
     <1>16, <1>17, Steps

(* Types and the places hold together.                                     *)
LEMMA TickInvariant == Spec => [](TypeInv /\ TickInv)
<1>1. Init => TickInv
  BY NotWaiting, NoDecisionAssumption DEF Init, TickInv
<1> QED BY <1>1, InitType, TypeStep, TickStep, PTL DEF Spec

(* However a session ends - broken off, killed, refused, aborted - a Run   *)
(* is completed only if its agent reported success and took nothing back.  *)
THEOREM CompletedReported == Spec => []CompletedWasReported
<1>1. TickInv => CompletedWasReported
  BY DEF TickInv, CompletedWasReported, Said
<1> QED BY <1>1, TickInvariant, PTL

(* No tick puts the Goal to sleep but one in which a provider announced a  *)
(* limit.                                                                  *)
THEOREM SleepsForLimit == Spec => []SleepsOnlyForLimit
<1>1. TickInv => SleepsOnlyForLimit
  BY DEF TickInv, SleepsOnlyForLimit
<1> QED BY <1>1, TickInvariant, PTL

-----------------------------------------------------------------------------
(* A limit that is not lifted yet, and whose sleep nothing has undone, is  *)
(* on its way in the Run or in the decision of the tick that was refused;  *)
(* once that tick has ended it is in the row, and nobody who may still get *)
(* the lease has read the row since and found the Goal awake.              *)
OnItsWay == refused /\ until # NoTime /\ lifts <= until

SleepInv ==
  \/ lost \/ lifts <= now
  \/ pc = "settled" /\ OnItsWay /\ (decision = WaitUntil \/ decision.type = "ACT")
  \/ pc = "publishing" /\ OnItsWay /\ decision = WaitUntil
  \/ pc = "idle" /\ lifts <= resume /\ "since" \notin readers

(* The gates keep a wait for a limit that is on its way, or undo it.       *)
LEMMA SleepJudged ==
  ASSUME TypeInv, SleepInv, Judge
  PROVE  SleepInv'
<1> USE DEF TypeInv, TypeOK, SleepInv, OnItsWay, Goto, Times, NoTime
<1>1. pc = "settled" /\ pc' = "publishing" /\ decision \in Actions
      /\ UNCHANGED << now, until, lifts, refused >> /\ (lost => lost')
  BY DEF Judge
<1>2. CASE lost \/ lifts <= now
  BY <1>1, <1>2
<1>3. CASE OnItsWay /\ (decision = WaitUntil \/ decision.type = "ACT")
  <2>1. ActorUsageLimitDecision(decision, until # NoTime) = WaitUntil
    BY <1>3, ActionFacts DEF ActorUsageLimitDecision
  <2>2. decision' = WaitUntil \/ lost'
    BY <1>1, <1>3, <2>1, JudgeFacts, ActionFacts
  <2> QED BY <1>1, <1>3, <2>2
<1> QED BY <1>1, <1>2, <1>3

LEMMA SleepStep ==
  ASSUME TypeInv, TickInv, SleepInv, [Next]_vars
  PROVE  SleepInv'
<1> USE DEF TypeInv, TypeOK, SleepInv, OnItsWay, Goto, clock, row, announced, inTick, asking, session,
            Times, NoTime
<1>1. ASSUME NEW r \in Readings, BeginTick(r) \/ StopAtGuard(r)
      PROVE  SleepInv'
  <2>1. pc = "idle" /\ r \in readers /\ lost' = (lost \/ r = "before") /\ UNCHANGED << now, lifts >>
    BY <1>1 DEF BeginTick, StopAtGuard
  <2>2. lost \/ lifts <= now \/ r = "before"
    BY <2>1 DEF Readings
  <2> QED BY <2>1, <2>2
<1>2. CASE \/ AskLlm \/ GiveUp \/ Illegible \/ Launch \/ DoNotLaunch \/ StartActor \/ NoWorktree
           \/ Abort \/ ClaudeSays \/ CodexSays
           \/ \E a \in Actions, ag \in Agents : Adopt(a, ag) \/ Reject(a, ag)
  <2>1. UNCHANGED << now, lifts, lost >> /\ pc \notin { "idle", "settled", "publishing" }
    BY <1>2 DEF AskLlm, GiveUp, Illegible, AskAgain, Launch, DoNotLaunch, StartActor, NoWorktree,
                Abort, ClaudeSays, CodexSays, Running, Adopt, Reject
  <2> QED BY <2>1
<1>3. ASSUME NEW e \in Endings, EndingStep(e)
      PROVE  SleepInv'
  <2>1. pc \in { "hearing", "acting" } /\ (lost \/ lifts <= now) /\ now' = now /\ e.reset \in Times
    BY <1>3 DEF EndingStep, Ends, LlmReturns, ActorReturns, Endings
  <2>2. CASE UNCHANGED << lifts, lost >> \/ lifts' <= now
    BY <2>1, <2>2
  <2>3. CASE ~aborted /\ lifts' = e.reset /\ e.reset # NoTime /\ e.error = "usage_limit"
    <3>1. refused' /\ UsageLimitResumeAfter(e.reset, now) = e.reset
          /\ UsageLimitResumeAfter(e.reset, decidedAt) = e.reset
      BY <1>3, <2>3 DEF EndingStep, UsageLimitResumeAfter
    <3>2. pc' = "settled" /\ until' = e.reset /\ (decision' = WaitUntil \/ decision'.type = "ACT")
      <4>1. CASE LlmReturns(e)
        BY <1>3, <2>3, <3>1, <4>1 DEF LlmReturns, EndingStep, Endings
      <4>2. CASE ActorReturns(e)
        BY <2>3, <3>1, <4>2 DEF ActorReturns, TickInv
      <4> QED BY <1>3, <4>1, <4>2 DEF EndingStep, Ends
    <3> QED BY <2>1, <2>3, <3>1, <3>2
  <2>4. CASE lifts' = NoTime
    BY <2>1, <2>4
  <2> QED BY <1>3, <2>1, <2>2, <2>3, <2>4 DEF EndingStep
<1>4. CASE EndTick
  <2>1. PICK settled \in PublishHeld(decision) :
          /\ resume' = IF settled = WaitUntil THEN until ELSE NoTime
          /\ lost' = (lost \/ (refused /\ settled # decision))
    BY <1>4 DEF EndTick
  <2>2. pc = "publishing" /\ pc' = "idle" /\ "since" \notin readers' /\ UNCHANGED << now, lifts >>
    BY <1>4 DEF EndTick, Over
  <2>3. CASE lost \/ lifts <= now
    BY <2>1, <2>2, <2>3
  <2>4. CASE OnItsWay /\ decision = WaitUntil
    BY <2>1, <2>2, <2>4
  <2> QED BY <2>2, <2>3, <2>4
<1>5. CASE Die
  BY <1>5 DEF Die, Over
<1>6. CASE ReadRow
  BY <1>6 DEF ReadRow, Asleep
<1>7. CASE Pass
  BY <1>7 DEF Pass
<1>8. CASE UNCHANGED vars
  BY <1>8 DEF vars
<1> QED BY <1>1, <1>2, <1>3, <1>4, <1>5, <1>6, <1>7, <1>8, SleepJudged, Steps

(* No session is opened before the limit that stopped the last one is      *)
(* lifted, unless the sleep was undone on one of the ways that the module  *)
(* names.  The clock that counts is the one read when the tick begins.     *)
THEOREM LimitsSleptThrough == Spec => LimitSleptThrough
<1>1. Init => SleepInv
  BY DEF Init, SleepInv, NoTime
<1>2. ASSUME TypeInv, TickInv, SleepInv, [Next]_vars
      PROVE  [pc = "idle" /\ pc' # "idle" => now >= lifts \/ lost']_vars
  <2> SUFFICES ASSUME pc = "idle", pc' # "idle"
               PROVE  now >= lifts \/ lost'
    OBVIOUS
  <2>1. PICK r \in Readings : BeginTick(r)
    <3>1. /\ ~AskLlm /\ ~GiveUp /\ ~Illegible /\ ~Launch /\ ~DoNotLaunch /\ ~StartActor
          /\ ~NoWorktree /\ ~Abort /\ ~ClaudeSays /\ ~CodexSays /\ ~Judge /\ ~EndTick
          /\ ~Die /\ ~ReadRow /\ ~Pass /\ ~UNCHANGED vars
          /\ \A r \in Readings : ~StopAtGuard(r)
          /\ \A a \in Actions, ag \in Agents : ~Adopt(a, ag) /\ ~Reject(a, ag)
      BY DEF AskLlm, GiveUp, Illegible, Launch, DoNotLaunch, StartActor, NoWorktree,
             Abort, ClaudeSays, CodexSays, Running, Judge, EndTick, Die, Over, ReadRow, Pass,
             vars, StopAtGuard, Adopt, Reject, Goto
    <3>2. \A e \in Endings : ~EndingStep(e)
      BY DEF EndingStep, Ends, LlmReturns, ActorReturns, Goto
    <3> QED BY <1>2, <3>1, <3>2, Steps DEF TypeInv
  <2>2. lost' \/ (r = "since" /\ ~lost /\ r \in readers)
    BY <2>1 DEF BeginTick, Readings
  <2> QED
    BY <1>2, <2>2 DEF SleepInv, TypeInv, TypeOK, Times, NoTime
<1> QED
  BY <1>1, <1>2, TickInvariant, SleepStep, PTL DEF Spec, LimitSleptThrough

-----------------------------------------------------------------------------
(* What is adopted, or settled on without an answer, LlmChoices allows.    *)
LEMMA ChoicesAllowed ==
  /\ \A c : WaitUntil \in LlmChoices(c) /\ Escalate("invalid_decision") \in LlmChoices(c)
  /\ \A c : c.asksForReview /\ c.reviewedHead => Escalate("review_not_converging") \in LlmChoices(c)
  BY DEF LlmChoices

LEMMA AdoptedAllowed ==
  ASSUME NEW a \in Actions, NEW ag, Adoptable(a, ag)
  PROVE  WithoutResume(a) \in LlmChoices(ctx)
<1>1. CASE a.type = "WAIT"
  <2>1. a.of \in WaitReasons /\ ~ctx.changesRequested /\ WithoutResume(a) = Wait(a.of)
    BY <1>1, ActionFacts DEF Adoptable, WaitsForNobody, WithoutResume
  <2> QED BY <2>1 DEF LlmChoices
<1>2. CASE a.type = "VERIFY"
  BY <1>2, ActionFacts DEF WithoutResume, LlmChoices
<1>3. CASE a.type = "ACT"
  <2>1. PICK r \in Roles : a = Act(r)
    BY <1>3, ActionFacts
  <2>2. WithoutResume(a) = Act(r)
    BY <1>3, <2>1 DEF WithoutResume
  <2>3. CASE r = "review"
    BY <2>1, <2>2, <2>3 DEF Adoptable, NotAskedFor, ReadAlready, LlmChoices
  <2>4. CASE r # "review"
    BY <2>2, <2>4 DEF LlmChoices, Roles
  <2> QED BY <2>3, <2>4
<1> QED BY <1>1, <1>2, <1>3 DEF Adoptable, MayChoose

(* LlmChoice has its own copy of the operators of Decide.                  *)
LEMMA SameChoices ==
  /\ \A c : Chosen!LlmChoices(c) = LlmChoices(c)
  /\ \A a : Chosen!ActorUsageLimitDecision(a, TRUE) = ActorUsageLimitDecision(a, TRUE)
  /\ { Escalate("protected_path_touched"), Escalate("guard_unavailable"),
       Escalate("uncommitted_changes") } \subseteq Chosen!Gates
<1>1. /\ Chosen!Verify = Verify /\ Chosen!WaitUntil = WaitUntil
      /\ Chosen!WaitReasons = WaitReasons
      /\ \A r : Chosen!Act(r) = Act(r) /\ Chosen!Wait(r) = Wait(r) /\ Chosen!Escalate(r) = Escalate(r)
  BY DEF Chosen!Verify, Verify, Chosen!WaitUntil, WaitUntil, Chosen!Act, Act, Chosen!Wait, Wait,
         Chosen!Escalate, Escalate, Chosen!WaitReasons, WaitReasons
<1>2. \A a : Chosen!ActorUsageLimitDecision(a, TRUE) = ActorUsageLimitDecision(a, TRUE)
  BY <1>1 DEF Chosen!ActorUsageLimitDecision, ActorUsageLimitDecision
<1>3. \A c : Chosen!LlmChoices(c) = LlmChoices(c)
  BY <1>1 DEF Chosen!LlmChoices, LlmChoices
<1>4. { Escalate("protected_path_touched"), Escalate("guard_unavailable"),
        Escalate("uncommitted_changes") } \subseteq Chosen!Gates
  BY <1>1 DEF Chosen!Gates
<1> QED BY <1>2, <1>3, <1>4

(* Each step is a step of LlmChoice, or changes nothing that it sees.      *)
LEMMA ChoiceStep ==
  ASSUME TypeInv, TickInv, [Next]_vars
  PROVE  [Chosen!Next]_<< ctx, decision >>
<1> USE DEF TypeInv, TypeOK, TickInv, Goto, clock, row, announced, inTick, asking, session
<1>1. CASE \/ \E r \in Readings : BeginTick(r) \/ StopAtGuard(r)
           \/ ReadRow \/ AskLlm \/ Illegible \/ Launch \/ DoNotLaunch \/ StartActor \/ NoWorktree
           \/ Abort \/ ClaudeSays \/ CodexSays \/ Pass \/ UNCHANGED vars
           \/ \E a \in Actions, ag \in Agents : Reject(a, ag)
  BY <1>1 DEF BeginTick, StopAtGuard, ReadRow, AskLlm, Illegible, AskAgain, Launch, DoNotLaunch, StartActor, NoWorktree,
              Abort, ClaudeSays, CodexSays, Pass, vars, Reject
<1>2. CASE GiveUp
  <2>1. pc = "asking" /\ decision = NoDecision /\ UNCHANGED ctx
        /\ rejections \in Nat /\ (rejections > 0 => ctx.asksForReview /\ ctx.reviewedHead)
    BY <1>2 DEF GiveUp
  <2>2. CASE rejections = MaxLlmRetries + 1
    <3>1. decision' = Escalate("review_not_converging") /\ rejections > 0
      BY <1>2, <2>2, RetriesAssumption DEF GiveUp
    <3> QED BY <2>1, <3>1, ChoicesAllowed, SameChoices DEF Chosen!Next, Chosen!Choose
  <2>3. CASE rejections # MaxLlmRetries + 1
    BY <1>2, <2>1, <2>3, ChoicesAllowed, SameChoices DEF GiveUp, Chosen!Next, Chosen!Choose
  <2> QED BY <2>2, <2>3
<1>3. ASSUME NEW a \in Actions, NEW ag \in Agents, Adopt(a, ag)
      PROVE  [Chosen!Next]_<< ctx, decision >>
  <2>1. decision = NoDecision /\ decision' = WithoutResume(a) /\ UNCHANGED ctx /\ Adoptable(a, ag)
    BY <1>3 DEF Adopt
  <2> QED BY <2>1, AdoptedAllowed, SameChoices DEF Chosen!Next, Chosen!Choose
<1>4. ASSUME NEW e \in Endings, EndingStep(e)
      PROVE  [Chosen!Next]_<< ctx, decision >>
  <2>1. CASE LlmReturns(e)
    <3>1. decision = NoDecision /\ UNCHANGED ctx
      BY <2>1 DEF LlmReturns, AskAgain
    <3>2. decision' \in { WaitUntil, Escalate("invalid_decision"), decision }
      BY <2>1 DEF LlmReturns, AskAgain
    <3> QED BY <3>1, <3>2, ChoicesAllowed, SameChoices DEF Chosen!Next, Chosen!Choose
  <2>2. CASE ActorReturns(e)
    BY <2>2 DEF ActorReturns
  <2> QED BY <1>4, <2>1, <2>2 DEF EndingStep, Ends
<1>5. CASE EndTick \/ Die
  <2>1. decision' = NoDecision /\ ctx' \in Contexts
    BY <1>5 DEF EndTick, Die, Over
  <2> QED BY <2>1 DEF Chosen!Next, Chosen!NextTick
<1>6. CASE Judge
  <2>1. decision \in Actions /\ decision # NoDecision /\ UNCHANGED ctx
    BY <1>6, NoDecisionAssumption DEF Judge
  <2>2. \/ decision' = ActorUsageLimitDecision(decision, TRUE)
        \/ decision' = decision
        \/ decision' \in Chosen!Gates
    BY <1>6, <2>1, JudgeFacts, SameChoices DEF ActorUsageLimitDecision
  <2> QED BY <2>1, <2>2, SameChoices DEF Chosen!Next, Chosen!RunIntoLimit, Chosen!Replace
<1> QED BY <1>1, <1>2, <1>3, <1>4, <1>5, <1>6, Steps

(* The retry loop over the sessions of either provider implements the      *)
(* choice that LeasedTick, Attempts and Evidence take the LLM for.         *)
THEOREM SessionImplementsChoice == Spec => ChoiceSpec
<1>1. Init => Chosen!Init
  BY DEF Init, Chosen!Init
<1> QED
  BY <1>1, ChoiceStep, TickInvariant, PTL DEF Spec, ChoiceSpec, Chosen!Spec

(* What the prompt offers the LLM in a context, the loop takes for an      *)
(* answer: no attempt is lost to an offer.                                 *)
THEOREM OfferIsAdopted ==
  ASSUME NEW a \in Offered, NEW ag \in { "none", "usable" }
  PROVE  Adoptable(a, ag)
<1> USE DEF Adoptable, MayChoose, NotAskedFor, ReadAlready, Unusable, WaitsForNobody
<1>1. /\ \A r : Act(r).type = "ACT" /\ Act(r).of = r
      /\ \A r : Wait(r).type = "WAIT"
      /\ Verify.type = "VERIFY"
  BY DEF Act, Wait, Verify
<1>2. CASE a = Act("implement")
  BY <1>1, <1>2
<1>3. CASE a = Verify
  BY <1>1, <1>3
<1>4. CASE a \in ReviewOffered
  BY <1>1, <1>4 DEF ReviewOffered
<1>5. CASE a \in WaitOffered
  BY <1>1, <1>5 DEF WaitOffered
<1> QED BY <1>2, <1>3, <1>4, <1>5 DEF Offered
=============================================================================
