---------------------------- MODULE Dependencies ----------------------------
(***************************************************************************)
(* Goals that wait for Goals.  `ent plan` (usecase/plan.ts) has an LLM     *)
(* split an objective into declarations, judges the whole set - also by    *)
(* running its commands in the checkout - and writes one file after the    *)
(* other into .goals/.  People write declarations there too, before and    *)
(* while a plan is under way, and change the checkout.  `ent start`        *)
(* (usecase/start.ts) turns away a Goal that has nothing to do, and the    *)
(* tick of a started Goal returns at the entrance until dependencyGate     *)
(* (core/src/domain/guard-rules.ts) finds every dependency completed.      *)
(*                                                                         *)
(* A command reads the row of its Goal, looks at those of the others, and  *)
(* writes the status later, whatever became of the row since: a tick that  *)
(* is late writes over what another one, ent start or ent abandon wrote,   *)
(* also over COMPLETED.  The lease only makes that rare, since the row is  *)
(* read before it is taken and it can expire (module LeasedTick); it is    *)
(* left out, so that any number of ticks of a Goal may be past the gate.   *)
(***************************************************************************)
EXTENDS GoalStatus, FiniteSets

CONSTANTS
  Ids,            (* the slugs of Goals, among them the reserved one        *)
  ConfigSlug,     (* CONFIG_SLUG: .goals/config.yaml is there, and no Goal  *)
  Commands,       (* commands of criteria with type: command                *)
  Declarations,   (* what people declare: [deps, commands]                  *)
  Proposals,      (* what the planner may answer                            *)
  Procs,          (* processes of ent start, ent run and ent abandon        *)
  MaxGoals,       (* request.max                                            *)
  MaxLlmRetries,  (* MAX_LLM_RETRIES                                        *)
  MaxEdits        (* bound: changes people make to .goals/ or the checkout  *)

Outcomes == { "passed", "failed", "unknown" }

ASSUME PlanAssumption ==
  /\ IsFiniteSet(Ids) /\ ConfigSlug \in Ids
  /\ Declarations \subseteq [deps : SUBSET Ids, commands : SUBSET Commands]
  /\ \A p \in Proposals : \A g \in DOMAIN p.goals :
       g \in Ids /\ p.goals[g].deps \subseteq Ids /\ p.goals[g].commands \subseteq Commands
  /\ MaxGoals \in Nat /\ MaxLlmRetries \in Nat /\ MaxEdits \in Nat

VARIABLES
  declared,   (* .goals/<id>.yaml: a function from the ids declared; one    *)
              (* that cannot be read is listed without dependencies         *)
  status,     (* goals.status of each row, UNREGISTERED where there is none *)
  at,         (* where each process is: place, Goal, and the dependencies a *)
              (* tick at the gate has looked at                             *)
  done,       (* history: the Goals whose row has ever been COMPLETED       *)
  outcome,    (* what a command does in the checkout of the people          *)
  edits,      (* changes people made                                        *)
  (* the process of ent plan *)
  pc,
  existing,   (* the dependencies it read of .goals/ at its start           *)
  failures,   (* how many answers it has turned down                        *)
  probed,     (* the outcomes it remembers                                  *)
  proposal,   (* the goals of the answer it is at                           *)
  left,       (* those of them it has yet to write                          *)
  exit,       (* how the last ent plan ended                                *)
  untouched   (* history: nobody changed anything since it began            *)

goals   == << declared, status, at, done >>
planner == << existing, failures, probed, proposal, left, exit >>
vars    == << goals, outcome, edits, pc, planner, untouched >>

Nothing == [g \in {} |-> {}]

-----------------------------------------------------------------------------
(* Graphs of dependencies: functions from ids to sets of ids.              *)

(* The ids a Goal waits for, directly or through others: the least set     *)
(* that holds its dependencies and theirs.                                 *)
Closed(edges, S) == \A x \in S \cap DOMAIN edges : edges[x] \subseteq S
Behind(edges, g) ==
  { d \in Ids : \A S \in SUBSET Ids : edges[g] \subseteq S /\ Closed(edges, S) => d \in S }

(* findCycles walks depth first and reports every closed path it meets: it *)
(* reports one just when there is one.                                     *)
Cyclic(edges) == \E g \in DOMAIN edges : g \in Behind(edges, g)

Declared == DOMAIN declared
DependsOn == [g \in Declared |-> declared[g].deps]

-----------------------------------------------------------------------------
(* ent plan                                                                *)

Goto(from, to) == pc = from /\ pc' = to

(* The command ends without having written the set: what it had in memory  *)
(* is gone.                                                                *)
Leave(how) ==
  /\ pc' = "idle" /\ exit' = how
  /\ existing' = Nothing /\ failures' = 0 /\ probed' = Nothing
  /\ proposal' = Nothing /\ left' = {}

End == Leave("ended") /\ untouched' = FALSE

ReadGoals ==
  /\ Goto("idle", "asking")
  /\ existing' = DependsOn
  /\ failures' = 0 /\ probed' = Nothing /\ proposal' = Nothing /\ left' = {}
  /\ exit' = "none" /\ untouched' = TRUE
  /\ UNCHANGED << goals, outcome, edits >>

(* Declarations may name an id before it exists, so that an answer can     *)
(* close a cycle they have opened.                                         *)
(* Mutant: only the edges of the answer itself are looked at.              *)
EdgesOfNew(new) ==
  LET known == DOMAIN existing \cup DOMAIN new
  IN  [g \in known |-> IF g \in DOMAIN new THEN new[g].deps ELSE {}]

Edges(new) ==
  LET known == DOMAIN existing \cup DOMAIN new
  IN  [g \in known |-> IF g \in DOMAIN new THEN new[g].deps ELSE existing[g] \cap known]

(* Mutant: the reserved id is not looked for.                              *)
FreeIdOrConfig(new) == DOMAIN new \cap DOMAIN existing = {}

FreeIds(new) == ConfigSlug \notin DOMAIN new /\ DOMAIN new \cap DOMAIN existing = {}

(* The checks that only read the answer, in the order of the code: shape,  *)
(* number, ids given twice, the reserved id, ids already declared,         *)
(* dependencies nobody declares, cycles, and a Goal no human looks at.     *)
Adoptable(p) ==
  LET new == p.goals IN
  /\ p.wellFormed                    (* proposalSchema, goalSchema, parseGoal *)
  /\ Cardinality(DOMAIN new) <= MaxGoals
  /\ ~p.repeatsId
  /\ FreeIds(new)
  /\ \A g \in DOMAIN new : new[g].deps \subseteq DOMAIN existing \cup DOMAIN new
  /\ ~Cyclic(Edges(new))
  /\ \A g \in DOMAIN new : new[g].human /\ g \notin new[g].deps

(* One more answer is turned down: the reasons go into the next prompt.    *)
TurnDown ==
  IF failures < MaxLlmRetries
  THEN /\ pc' = "asking" /\ failures' = failures + 1 /\ proposal' = Nothing
       /\ UNCHANGED << existing, probed, left, exit, untouched >>
  ELSE End

Adopt(p) ==
  /\ Goto("asking", "probing")
  /\ Adoptable(p)
  /\ proposal' = p.goals
  /\ UNCHANGED << goals, outcome, edits, existing, failures, probed, left, exit, untouched >>

Reject ==
  /\ pc = "asking"
  /\ \E p \in Proposals : ~Adoptable(p)
  /\ TurnDown
  /\ UNCHANGED << goals, outcome, edits >>

PlannerThrows ==
  /\ pc = "asking"
  /\ End
  /\ UNCHANGED << goals, outcome, edits >>

(* alreadyDone: the commands are run one by one, a Goal is given up with   *)
(* its first command that does not pass, and no command is run twice, also *)
(* not for a later answer.  A command that cannot be run has not passed.   *)
Passed(c) == c \in DOMAIN probed /\ probed[c] = "passed"
Open(g)   == \A c \in proposal[g].commands : c \in DOMAIN probed => Passed(c)
ToRun     == UNION { { c \in proposal[g].commands : c \notin DOMAIN probed } :
                     g \in { h \in DOMAIN proposal : Open(h) } }

AlreadyDone(g) == proposal[g].commands # {} /\ \A c \in proposal[g].commands : Passed(c)

Probe(c) ==
  /\ pc = "probing"
  /\ c \in ToRun
  /\ probed' = [x \in DOMAIN probed \cup { c } |-> IF x = c THEN outcome[c] ELSE probed[x]]
  /\ UNCHANGED << goals, outcome, edits, pc, existing, failures, proposal, left, exit, untouched >>

AcceptPlan(dryRun) ==
  /\ pc = "probing"
  /\ ToRun = {}
  /\ IF \E g \in DOMAIN proposal : AlreadyDone(g) THEN TurnDown
     ELSE IF dryRun THEN End
     ELSE /\ pc' = "writing" /\ left' = DOMAIN proposal
          /\ existing' = Nothing /\ failures' = 0 /\ probed' = Nothing
          /\ UNCHANGED << proposal, exit, untouched >>
  /\ UNCHANGED << goals, outcome, edits >>

(* writeGoalFile: a file that is there already is never written over; the  *)
(* exception ends the command, and what it wrote before stays.             *)
WriteGoalFile(g) ==
  /\ pc = "writing"
  /\ g \in left
  /\ g \notin Declared \cup { ConfigSlug }
  /\ declared' = [x \in Declared \cup { g } |->
                    IF x = g THEN [deps |-> proposal[g].deps, commands |-> proposal[g].commands]
                             ELSE declared[x]]
  /\ left' = left \ { g }
  /\ IF left' = {} THEN pc' = "idle" /\ exit' = "written" ELSE UNCHANGED << pc, exit >>
  /\ UNCHANGED << status, at, done, outcome, edits, existing, failures, probed,
                  proposal, untouched >>

WriteRefused(g) ==
  /\ pc = "writing"
  /\ g \in left
  /\ g \in Declared \cup { ConfigSlug }
  /\ Leave("thrown")
  /\ UNCHANGED << goals, outcome, edits, untouched >>

(* The process is killed, or the disk is full.                             *)
PlanDies ==
  /\ pc # "idle"
  /\ End
  /\ UNCHANGED << goals, outcome, edits >>

-----------------------------------------------------------------------------
(* ent start, ent run and ent abandon                                      *)

(* nothingToDo: every type: command criterion passes, and there is one.    *)
NothingToDo(g) ==
  /\ declared[g].commands # {}
  /\ \A c \in declared[g].commands : outcome[c] = "passed"

Idle == << "idle", ConfigSlug, {} >>

Moves(p, from, to) == at[p] = from /\ at' = [at EXCEPT ![p] = to]

Elsewhere == << declared, outcome, edits, pc, planner, untouched >>

(* Only a Goal without a row is asked what there is to do.                 *)
StartCheck(p, g) ==
  /\ g \in Declared /\ ~IsTerminal(status[g])
  /\ status[g] = "UNREGISTERED" => ~NothingToDo(g)
  /\ Moves(p, Idle, << "starting", g, {} >>)
  /\ UNCHANGED << status, done, Elsewhere >>

StartWrite(p, g) ==
  /\ Moves(p, << "starting", g, {} >>, Idle)
  /\ status' = [status EXCEPT ![g] = "ACTIVE"]
  /\ UNCHANGED << done, Elsewhere >>

(* dependencyGate: a dependency without a row is pending, like one that is *)
(* under way; one that ended otherwise is unreachable.  Neither lets pass. *)
Pending(d)     == ~IsTerminal(status[d])
Unreachable(d) == IsTerminal(status[d]) /\ status[d] # "COMPLETED"

(* Mutant: a dependency nobody has started is not waited for.              *)
ClearIfNotStarted(d) == ~Unreachable(d) /\ (Pending(d) => status[d] = "UNREGISTERED")

(* Mutant: a completed dependency counts as unreachable like any other     *)
(* that is in a terminal state.                                            *)
ClearIfNotEnded(d) == ~Pending(d) /\ ~IsTerminal(status[d])

Clear(d) == ~Pending(d) /\ ~Unreachable(d)

Ready(g) == \A d \in declared[g].deps : Clear(d)

(* tick: the row, the rows of the dependencies one after the other, and at *)
(* the end the status that follows from the row it read.                   *)
ReadRow(p, g) ==
  /\ g \in Declared /\ status[g] = "ACTIVE"
  /\ Moves(p, Idle, << "gate", g, {} >>)
  /\ UNCHANGED << status, done, Elsewhere >>

LookAt(p, g, S, d) ==
  /\ Moves(p, << "gate", g, S >>, << "gate", g, S \cup { d } >>)
  /\ d \in declared[g].deps \ S
  /\ Clear(d)
  /\ UNCHANGED << status, done, Elsewhere >>

PassGate(p, g, S) ==
  /\ Moves(p, << "gate", g, S >>, << "passed", g, {} >>)
  /\ declared[g].deps \subseteq S
  /\ UNCHANGED << status, done, Elsewhere >>

EndTick(p, g) ==
  /\ Moves(p, << "passed", g, {} >>, Idle)
  /\ \E s \in { "ACTIVE", "COMPLETED" } :
       /\ status' = [status EXCEPT ![g] = s]
       /\ done' = IF s = "COMPLETED" THEN done \cup { g } ELSE done
  /\ UNCHANGED Elsewhere

AbandonCheck(p, g) ==
  /\ status[g] = "ACTIVE"
  /\ Moves(p, Idle, << "abandoning", g, {} >>)
  /\ UNCHANGED << status, done, Elsewhere >>

AbandonWrite(p, g) ==
  /\ Moves(p, << "abandoning", g, {} >>, Idle)
  /\ status' = [status EXCEPT ![g] = "ABANDONED"]
  /\ UNCHANGED << done, Elsewhere >>

(* The command ends without writing the status: at the gate, for want of   *)
(* the lease, by an exception, or because it is killed.                    *)
Stop(p) ==
  /\ at[p] # Idle
  /\ at' = [at EXCEPT ![p] = Idle]
  /\ UNCHANGED << status, done, Elsewhere >>

-----------------------------------------------------------------------------
(* People.  A declaration is rewritten only before its Goal is started.    *)

Edit == edits < MaxEdits /\ edits' = edits + 1 /\ untouched' = FALSE

Declare(g, d) ==
  /\ Edit
  /\ g # ConfigSlug /\ g \notin d.deps
  /\ status[g] = "UNREGISTERED"
  /\ declared' = [x \in Declared \cup { g } |-> IF x = g THEN d ELSE declared[x]]
  /\ UNCHANGED << status, at, done, outcome, pc, planner >>

ChangeCheckout(c, o) ==
  /\ Edit
  /\ outcome[c] # o
  /\ outcome' = [outcome EXCEPT ![c] = o]
  /\ UNCHANGED << goals, pc, planner >>

-----------------------------------------------------------------------------
Init ==
  /\ declared = Nothing
  /\ status = [g \in Ids |-> "UNREGISTERED"]
  /\ at = [p \in Procs |-> Idle]
  /\ done = {}
  /\ outcome \in [Commands -> Outcomes]
  /\ edits = 0
  /\ pc = "idle" /\ existing = Nothing /\ failures = 0 /\ probed = Nothing
  /\ proposal = Nothing /\ left = {} /\ exit = "none" /\ untouched = FALSE

Plan ==
  \/ ReadGoals
  \/ \E p \in Proposals : Adopt(p)
  \/ Reject
  \/ PlannerThrows
  \/ \E c \in Commands : Probe(c)
  \/ \E dryRun \in BOOLEAN : AcceptPlan(dryRun)
  \/ \E g \in left : WriteGoalFile(g) \/ WriteRefused(g)
  \/ PlanDies

Run == \E p \in Procs :
  \/ \E g \in Ids :
       \/ StartCheck(p, g) \/ StartWrite(p, g)
       \/ ReadRow(p, g) \/ EndTick(p, g)
       \/ LET S == at[p][3] IN (\E d \in Ids : LookAt(p, g, S, d)) \/ PassGate(p, g, S)
       \/ AbandonCheck(p, g) \/ AbandonWrite(p, g)
  \/ Stop(p)

People ==
  \/ \E g \in Ids, d \in Declarations : Declare(g, d)
  \/ \E c \in Commands, o \in Outcomes : ChangeCheckout(c, o)

Next == Plan \/ Run \/ People

Spec == Init /\ [][Next]_vars

-----------------------------------------------------------------------------
(* "Not one file is written unless the whole set was found good": files of *)
(* a plan are missing only when somebody declared one of its ids, or       *)
(* changed something else, while it was made, or when it was killed.       *)
WrittenWholeOrNothing == exit = "thrown" => ~untouched

(* A plan that was written can be carried out as it stands: nobody waits   *)
(* in a circle or for a Goal that nobody declares, and ent start takes     *)
(* every Goal of it, as long as nobody changes .goals/ or the checkout.    *)
PlanCanBeCarriedOut ==
  exit = "written" /\ untouched =>
    \A g \in DOMAIN proposal :
      /\ g \notin Behind(DependsOn, g)
      /\ declared[g].deps \subseteq Declared
      /\ ~NothingToDo(g)

(* No Goal is ever completed before everything it depends on, directly or  *)
(* through others, has been: also what was declared after the Goal that    *)
(* names it, and though the rows of both may have been written over since. *)
CompletedInOrder == \A g \in done : Behind(DependsOn, g) \subseteq done

(* Whoever waits at the gate waits for somebody: unless it is held up by a *)
(* cycle, by a Goal that was abandoned or by one that was never started,   *)
(* it may run itself or one of the Goals it waits for may.                 *)
HeldUp(g) ==
  \E d \in Behind(DependsOn, g) \cup { g } :
    \/ status[d] \in { "UNREGISTERED", "ABANDONED" }
    \/ d \in Behind(DependsOn, d)

WaitsForSomebody ==
  \A g \in Declared : status[g] = "ACTIVE" /\ ~HeldUp(g) =>
    \E d \in Behind(DependsOn, g) \cup { g } : status[d] = "ACTIVE" /\ Ready(d)
=============================================================================
