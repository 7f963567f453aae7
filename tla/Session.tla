------------------------------ MODULE Session ------------------------------
(***************************************************************************)
(* The two places where a tick talks to an agent.  DECIDE asks the LLM for *)
(* an action, up to MaxLlmRetries + 1 times (askLlm of                     *)
(* packages/core/src/decide/index.ts), and ACT launches an Actor (runActor *)
(* of packages/ent/src/act/index.ts).  Each is a session with Claude Code, *)
(* whose messages are read one by one as they arrive                       *)
(* (packages/ent/src/adapters/claude.ts), or with the Codex CLI, whose     *)
(* output is read once the process has ended (adapters/codex.ts).  A usage *)
(* limit met in either puts the Goal to sleep, if the tick comes to its    *)
(* end and none of the gates behind ACT replaces the decision: the time is *)
(* carried by the Run or by the Decision until setStatus writes it.        *)
(*                                                                         *)
(* Of the messages only those are kept that the outcome depends on; the    *)
(* prompts, the raw log, tokens and artifacts are left out.  Ticks read    *)
(* the row in many processes, but one at a time holds the lease: ticks     *)
(* that outlive it are those of the run overrun of LeasedTick.             *)
(***************************************************************************)
EXTENDS Decide

CONSTANTS
  Providers,     (* what routedActor and selectedLlm may be configured with *)
  Contexts,      (* ctx of Decide: what restricts the choice of the LLM     *)
  NoDecision,
  MaxLlmRetries, (* MAX_LLM_RETRIES                                         *)
  DefaultWait,   (* DEFAULT_USAGE_LIMIT_WAIT_SECONDS, in units of the clock *)
  Resets,        (* times at which a provider may say its limit is lifted   *)
  MaxTime        (* bound of the model: the clock stops there               *)

ASSUME ProvidersAssumption == Providers \subseteq { "claude-code", "codex" }
ASSUME RetriesAssumption   == MaxLlmRetries \in Nat /\ DefaultWait \in Nat
ASSUME ContextsAssumption  == Contexts \subseteq [ asksForReview : BOOLEAN, reviewedHead : BOOLEAN,
                                                   changesRequested : BOOLEAN ]
ASSUME ResetsAssumption    == Resets \subseteq Nat /\ MaxTime \in Nat
ASSUME NoDecisionAssumption == NoDecision \notin Actions

VARIABLES
  now,        (* the clock                                                  *)
  until,      (* resumeAfter on its way to the row, or NoTime               *)
  resume,     (* goals.resume_after, or NoTime                              *)
  readers,    (* ticks that found the Goal awake and may yet get the lease: *)
              (* since the row was last written, or before                  *)
  lifts,      (* the lifting a provider announced when it last refused us   *)
  refused,    (* whether a provider refused this tick for its usage limit   *)
  lost,       (* history: what undid the sleep that belongs to lifts        *)
  pc,         (* the place in the tick                                      *)
  ctx,        (* what askLlm reads from the criteria and the facts          *)
  attempt,    (* outputs of the LLM that could not be adopted               *)
  rejections, (* reviewRejections                                           *)
  decision,   (* what the tick settles on                                   *)
  decidedAt,  (* when decide() was entered                                  *)
  by,         (* the provider of the session that is under way              *)
  heard,      (* what the session has said so far                           *)
  run,        (* the status of the Run, "none" before it is written         *)
  aborted     (* the abort signal of the tick                               *)

row     == << resume, readers >>
announced == << lifts, refused, lost >>
clock   == << now, until, row, announced >>
asking  == << ctx, attempt, rejections, decidedAt >>
session == << by, heard >>
vars    == << clock, pc, asking, decision, session, run, aborted >>

NoTime == -1
Times  == Nat \cup { NoTime }

(* last: lastStatus, the rate limit Claude Code last told of.  result: the *)
(* result message, failure: the error event or stderr, final: an           *)
(* agent_message of Codex.                                                 *)
Silence == [last |-> "none", result |-> "none", failure |-> "none", final |-> FALSE]

Places   == { "idle", "asking", "hearing", "answered", "launching", "preparing", "acting", "settled",
              "publishing" }
Readings == { "since", "before" }
RunStatuses == { "none", "starting", "completed", "failed", "interrupted" }
Voices   == [ last : { "none", "allowed" }, result : { "none", "ok", "error" },
              failure : { "none", "plain", "limit" }, final : BOOLEAN ]

TypeOK ==
  /\ now \in Nat /\ until \in Times /\ resume \in Times /\ readers \subseteq Readings
  /\ lifts \in Times /\ refused \in BOOLEAN /\ lost \in BOOLEAN
  /\ pc \in Places /\ ctx \in Contexts
  /\ attempt \in 0..(MaxLlmRetries + 1) /\ rejections \in 0..attempt
  /\ decision \in Actions \cup { NoDecision } /\ decidedAt \in Nat
  /\ by \in Providers /\ heard \in Voices
  /\ run \in RunStatuses /\ aborted \in BOOLEAN

Init ==
  /\ now = 0 /\ until = NoTime /\ resume = NoTime /\ readers = {}
  /\ lifts = NoTime /\ refused = FALSE /\ lost = FALSE
  /\ pc = "idle" /\ ctx \in Contexts /\ attempt = 0 /\ rejections = 0
  /\ decision = NoDecision /\ decidedAt = 0
  /\ by \in Providers /\ heard = Silence /\ run = "none" /\ aborted = FALSE

Goto(from, to) == pc = from /\ pc' = to

(* sleepingUntil of guard-rules.ts.                                        *)
Asleep == resume # NoTime /\ resume > now

inTick == << asking, decision, session, run, aborted >>

(* A tick reads the row and finds the Goal awake.  Until the row is        *)
(* written anew it makes no difference when; it may never get the lease.   *)
ReadRow ==
  /\ pc \in { "idle", "publishing" } /\ ~Asleep
  /\ readers' = readers \cup { "since" }
  /\ UNCHANGED << now, until, resume, announced, pc, inTick >>

(* It got the lease, and decide() reached askLlm.  Others may have read    *)
(* the row when it did.                                                    *)
BeginTick(r) ==
  /\ Goto("idle", "asking") /\ r \in readers
  /\ decidedAt' = now /\ refused' = FALSE /\ lost' = (lost \/ r = "before")
  /\ UNCHANGED << now, until, row, lifts, ctx, attempt, rejections, decision, session, run, aborted >>

(* It got the lease, and one of the guards before askLlm stopped it: it    *)
(* writes its status, with resume_after NULL.                              *)
StopAtGuard(r) ==
  /\ pc = "idle" /\ r \in readers
  /\ resume' = NoTime /\ lost' = (lost \/ r = "before")
  /\ readers' = { "before" : x \in readers }
  /\ UNCHANGED << now, until, lifts, refused, pc, inTick >>

-----------------------------------------------------------------------------
(* askLlm: one session after the other.                                    *)

AskLlm ==
  /\ Goto("asking", "hearing") /\ attempt <= MaxLlmRetries
  /\ by' \in Providers /\ heard' = Silence
  /\ UNCHANGED << clock, asking, decision, run, aborted >>

GiveUp ==
  /\ Goto("asking", "settled") /\ attempt = MaxLlmRetries + 1
  /\ decision' = Escalate(IF rejections = MaxLlmRetries + 1 THEN "review_not_converging"
                                                            ELSE "invalid_decision")
  /\ UNCHANGED << clock, asking, session, run, aborted >>

(* What was returned is not adopted: the loop goes on.                     *)
AskAgain(more) ==
  /\ pc' = "asking" /\ attempt' = attempt + 1 /\ rejections' = rejections + more
  /\ heard' = Silence
  /\ UNCHANGED << ctx, decidedAt, by, decision, run, aborted >>

(* LLM_MAY_CHOOSE, and what is not offered in this context.  The agent an  *)
(* ACT names may be none, one that unusableAgentIn lets pass, or another.  *)
Agents == { "none", "usable", "unusable" }

MayChoose(a)      == a.type \in { "ACT", "VERIFY", "WAIT" }
NotAskedFor(a)    == a = Act("review") /\ ~ctx.asksForReview
ReadAlready(a)    == a = Act("review") /\ ctx.asksForReview /\ ctx.reviewedHead
Unusable(a, ag)   == a.type = "ACT" /\ ag = "unusable"
WaitsForNobody(a) == a.type = "WAIT" /\ ctx.changesRequested

Adoptable(a, ag) ==
  MayChoose(a) /\ ~NotAskedFor(a) /\ ~ReadAlready(a) /\ ~Unusable(a, ag) /\ ~WaitsForNobody(a)

(* What the prompt offers in this context.                                 *)
ReviewOffered == { a \in { Act("review") } : ctx.asksForReview /\ ~ctx.reviewedHead }
WaitOffered   ==
  { Wait(r) : r \in { x \in { "human_review_pending", "ci_running", "usage_limit",
                             "observation_failed" } : ~ctx.changesRequested } }
Offered       == { Act("implement"), Verify } \cup ReviewOffered \cup WaitOffered

(* withoutLlmResumeAfter.                                                  *)
WithoutResume(a) == IF a.type = "WAIT" THEN Wait(a.of) ELSE a

Adopt(a, ag) ==
  /\ pc = "answered" /\ Adoptable(a, ag)
  /\ decision' = WithoutResume(a)
  /\ pc' = IF a.type = "ACT" THEN "launching" ELSE "settled"
  /\ heard' = Silence
  /\ UNCHANGED << clock, asking, by, run, aborted >>

(* Mutant: a review that no criterion asks for counts as one more.         *)
RejectAndCount(a, ag) ==
  /\ pc = "answered" /\ ~Adoptable(a, ag)
  /\ AskAgain(IF a = Act("review") THEN 1 ELSE 0)
  /\ UNCHANGED clock

Reject(a, ag) ==
  /\ pc = "answered" /\ ~Adoptable(a, ag)
  /\ AskAgain(IF ReadAlready(a) THEN 1 ELSE 0)
  /\ UNCHANGED clock

(* parseJson found no JSON in the answer.                                  *)
Illegible == pc = "answered" /\ AskAgain(0) /\ UNCHANGED clock

Answer == Illegible \/ \E a \in Actions, ag \in Agents : Adopt(a, ag) \/ Reject(a, ag)

-----------------------------------------------------------------------------
(* act(): the Run is written before the worktree is prepared.              *)
Launch ==
  /\ Goto("launching", "preparing") /\ ~aborted
  /\ run' = "starting"
  /\ UNCHANGED << clock, asking, decision, session, aborted >>

(* Aborted before anything was written, or the Run could not be written.   *)
DoNotLaunch ==
  /\ Goto("launching", "settled")
  /\ UNCHANGED << clock, asking, decision, session, run, aborted >>

StartActor ==
  /\ Goto("preparing", "acting")
  /\ by' \in Providers /\ heard' = Silence
  /\ UNCHANGED << clock, asking, decision, run, aborted >>

StatusOf(ok) == IF ok THEN "completed" ELSE IF aborted THEN "interrupted" ELSE "failed"

NoWorktree ==
  /\ Goto("preparing", "settled")
  /\ run' = StatusOf(FALSE)
  /\ UNCHANGED << clock, asking, decision, session, aborted >>

(* SIGTERM, or the lease was lost.                                         *)
Abort ==
  /\ pc \in { "launching", "preparing", "acting" } /\ ~aborted
  /\ aborted' = TRUE
  /\ UNCHANGED << clock, pc, asking, decision, session, run >>

-----------------------------------------------------------------------------
(* The end of a session: an ActorResult, an LLM's answer, or a PortError.  *)
(* error is the kind of the PortError, "other" for any other Error.        *)
Ending(ok, error, reset) == [ok |-> ok, error |-> error, reset |-> reset]

(* Mutant: whenever the limit is lifted, the default is waited for.        *)
UsageLimitDefault(reset, since) == since + DefaultWait

UsageLimitResumeAfter(reset, since) == IF reset # NoTime THEN reset ELSE since + DefaultWait

(* chooseAction came back.  A result that is no success is unavailable.    *)
LlmReturns(e) ==
  /\ pc = "hearing"
  /\ \/ /\ e.error = "usage_limit"
        /\ decision' = WaitUntil /\ until' = UsageLimitResumeAfter(e.reset, decidedAt)
        /\ pc' = "settled" /\ heard' = Silence
        /\ UNCHANGED << asking, by, run, aborted >>
     \/ /\ e.error = "unavailable" \/ (e.error = "none" /\ ~e.ok)
        /\ decision' = Escalate("invalid_decision")
        /\ pc' = "settled" /\ heard' = Silence
        /\ UNCHANGED << until, asking, by, run, aborted >>
     \/ e.error = "other" /\ AskAgain(0) /\ UNCHANGED until
     \/ /\ e.ok
        /\ pc' = "answered" /\ heard' = Silence
        /\ UNCHANGED << until, asking, by, decision, run, aborted >>

(* runActor and the finishing of the Run, which keeps the kind of the      *)
(* error and the time.  An aborted Claude session that threw is a partial  *)
(* result: it has no error kind.                                           *)
ActorReturns(e) ==
  LET limited == e.error = "usage_limit" /\ ~(aborted /\ by = "claude-code")
  IN  /\ Goto("acting", "settled")
      /\ run' = StatusOf(e.ok)
      /\ until' = IF limited THEN UsageLimitResumeAfter(e.reset, now) ELSE NoTime
      /\ UNCHANGED << asking, decision, session, aborted >>

Ends(e) == (LlmReturns(e) \/ ActorReturns(e)) /\ UNCHANGED row

(* The world's side of it: the provider refused, and said until when.  Who *)
(* aborts a session does not wait for anybody.                             *)
Refuses(r) ==
  /\ refused' = TRUE
  /\ IF aborted THEN UNCHANGED << lifts, lost >> ELSE lifts' = r /\ lost' = FALSE

-----------------------------------------------------------------------------
(* Claude Code: consume() reads message by message.                        *)
Running(provider) == pc \in { "hearing", "acting" } /\ by = provider

(* A rate_limit_event that does not reject, or a result.  The last counts. *)
ClaudeSays ==
  /\ Running("claude-code")
  /\ \/ heard' = [heard EXCEPT !.last = "allowed"]
     \/ \E r \in { "ok", "error" } : heard' = [heard EXCEPT !.result = r]
  /\ UNCHANGED << clock, pc, asking, decision, by, run, aborted >>

(* A rate_limit_event with status rejected ends it there and then.         *)
ClaudeRefuses(r) ==
  /\ Running("claude-code")
  /\ Refuses(r) /\ UNCHANGED now
  /\ Ends(Ending(FALSE, "usage_limit", r))

(* Mutant: every 429 is taken for the usage limit.                         *)
Throttled429 == Ending(FALSE, "usage_limit", NoTime)

(* An assistant message with the error rate_limit.                         *)
Throttled == Ending(FALSE, IF heard.last = "rejected" THEN "usage_limit" ELSE "unavailable", NoTime)

ClaudeThrottles ==
  /\ Running("claude-code") /\ Ends(Throttled) /\ UNCHANGED << now, announced >>

(* query() threw, or the log could not be written.                         *)
ClaudeThrows ==
  /\ Running("claude-code") /\ Ends(Ending(FALSE, "other", NoTime))
  /\ UNCHANGED << now, announced >>

(* Mutant: a stream that breaks off is a success.                          *)
NoErrorResult == Ending(heard.result # "error", "none", NoTime)

LastResult == Ending(heard.result = "ok", "none", NoTime)

ClaudeEnds ==
  /\ Running("claude-code") /\ Ends(LastResult) /\ UNCHANGED << now, announced >>

Claude == ClaudeSays \/ ClaudeThrottles \/ ClaudeThrows \/ ClaudeEnds
            \/ \E r \in Resets \cup { NoTime } : ClaudeRefuses(r)

-----------------------------------------------------------------------------
(* The Codex CLI: outcomeOf() reads what was said, the last failure counts.*)
CodexSays ==
  /\ Running("codex")
  /\ \/ heard' = [heard EXCEPT !.final = TRUE]
     \/ \E f \in { "plain", "limit" } : heard' = [heard EXCEPT !.failure = f]
  /\ UNCHANGED << clock, pc, asking, decision, by, run, aborted >>

(* resetTimeIn: a time that has passed counts as unreadable.               *)
ResetTimeIn(r) == IF r # NoTime /\ r > now THEN r ELSE NoTime

(* stderr is the failure of a process that exits with another code than 0  *)
(* and sent no failure event.                                              *)
CodexEnds(exitCode, stderr, r) ==
  LET failure == IF heard.failure = "none" /\ exitCode # 0 THEN stderr ELSE heard.failure
  IN  /\ Running("codex") /\ UNCHANGED now
      /\ IF failure = "limit"
         THEN Refuses(r) /\ Ends(Ending(FALSE, "usage_limit", ResetTimeIn(r)))
         ELSE /\ UNCHANGED announced
              /\ IF exitCode = 0 /\ heard.final /\ failure = "none"
                 THEN Ends(Ending(TRUE, "none", NoTime))
                 ELSE Ends(Ending(FALSE, "unavailable", NoTime))

(* The CLI could not be launched, or the log not be written.               *)
CodexThrows ==
  /\ Running("codex") /\ Ends(Ending(FALSE, "unavailable", NoTime))
  /\ UNCHANGED << now, announced >>

Codex == CodexSays \/ CodexThrows
           \/ \E c \in { 0, 1 }, f \in { "plain", "limit" }, r \in Resets \cup { NoTime } :
                CodexEnds(c, f, r)

-----------------------------------------------------------------------------
(* What follows the Actor, or the LLM where no Actor was launched.         *)

(* guardedDecision: the gate lets the decision pass or replaces it.        *)
Guarded(a) == { a, Escalate("protected_path_touched"), Escalate("guard_unavailable") }

(* uncommittedDecision, where nothing was committed in this tick.          *)
Uncommitted(a) == { b \in { a, Escalate("uncommitted_changes") } : b # a => LeavesWorkUncommitted(a) }

(* publishHeldDecision.                                                    *)
BlocksPush(a) == a.type = "ESCALATE" /\ a.of \in { "protected_path_touched", "guard_unavailable" }
PublishHeld(a) ==
  { b \in { a, Escalate("push_branch_declared_manual"), Escalate("open_pull_request_declared_manual") } :
      b # a => ~BlocksPush(a) }

(* A Run that has a time met the limit: actorUsageLimitDecision asks for   *)
(* it behind the gate.                                                     *)
Judge ==
  /\ Goto("settled", "publishing")
  /\ \E g \in Guarded(decision) :
       /\ decision' \in Uncommitted(ActorUsageLimitDecision(g, until # NoTime))
       /\ lost' = (lost \/ (refused /\ g # decision))
  /\ UNCHANGED << now, until, row, lifts, refused, asking, session, run, aborted >>

(* The tick is over, and what it had in memory is gone.                    *)
Over ==
  /\ pc' = "idle" /\ ctx' \in Contexts /\ attempt' = 0 /\ rejections' = 0 /\ decidedAt' = 0
  /\ decision' = NoDecision /\ until' = NoTime /\ heard' = Silence
  /\ run' = "none" /\ aborted' = FALSE /\ refused' = FALSE
  /\ UNCHANGED << now, lifts, by >>

(* setStatus: resume_after is that of the action that was settled on.      *)
EndTick ==
  /\ pc = "publishing"
  /\ \E settled \in PublishHeld(decision) :
       /\ resume' = IF settled = WaitUntil THEN until ELSE NoTime
       /\ lost' = (lost \/ (refused /\ settled # decision))
  /\ readers' = { "before" : x \in readers }
  /\ Over

(* The process dies, a statement throws, or holdsLease finds the lease     *)
(* lost: nothing more is written.                                          *)
Die ==
  /\ pc # "idle" /\ lost' = (lost \/ refused)
  /\ Over /\ UNCHANGED row

Pass ==
  /\ pc \in { "idle", "hearing", "acting" } /\ now < MaxTime
  /\ now' = now + 1
  /\ UNCHANGED << until, row, announced, pc, inTick >>

Next ==
  \/ ReadRow \/ \E r \in Readings : BeginTick(r) \/ StopAtGuard(r)
  \/ AskLlm \/ GiveUp \/ Answer
  \/ Launch \/ DoNotLaunch \/ StartActor \/ NoWorktree \/ Abort
  \/ Claude \/ Codex
  \/ Judge \/ EndTick \/ Die \/ Pass

Spec == Init /\ [][Next]_vars

-----------------------------------------------------------------------------
(* Properties.                                                             *)

(* A Run is completed only if the agent itself reported its success and    *)
(* took nothing back: not if its stream broke off, not if the process was  *)
(* killed after its last message, whatever the exit code says.             *)
CompletedWasReported ==
  run = "completed" =>
    IF by = "claude-code" THEN heard.result = "ok" ELSE heard.final /\ heard.failure = "none"

(* The Goal is put to sleep only for a limit that a provider announced in  *)
(* this tick: neither a temporary 429 nor an error, nor an LLM that would  *)
(* like to wait, sends it to sleep.                                        *)
SleepsOnlyForLimit == decision = WaitUntil => refused

(* No session is opened before the time at which the provider that refused *)
(* the last one said it would lift its limit, though the time goes through *)
(* a PortError, a Run, a Decision and the Goal's row until then - unless   *)
(* the tick that was refused died before it wrote, a gate or a step that   *)
(* is declared manual replaced its decision, or a tick runs that had read  *)
(* the row before.                                                         *)
LimitSleptThrough == [][pc = "idle" /\ pc' # "idle" => now >= lifts \/ lost']_vars

(* The loop, with its sessions, retries and refusals, offers the rest of   *)
(* the tick no more than LlmChoices says.                                  *)
Chosen == INSTANCE LlmChoice WITH ctx <- ctx, decision <- decision
ChoiceSpec == Chosen!Spec
=============================================================================
