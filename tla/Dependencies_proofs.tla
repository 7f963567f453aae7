------------------------ MODULE Dependencies_proofs -------------------------
(* The theorems about Dependencies, for any number of Goals, any answers   *)
(* of the planner and any number of changes people make meanwhile.  A      *)
(* cycle, and what is behind a Goal, is never followed step by step: to be *)
(* behind g is to be in every closed set around its dependencies, so that  *)
(* one closed set is enough to say what is not.                            *)
EXTENDS Dependencies, FiniteSetTheorems, WellFoundedInduction, TLAPS

Reached == { "UNREGISTERED", "ACTIVE", "COMPLETED", "ABANDONED" }
Places  == { "idle", "starting", "gate", "passed", "abandoning" }

(* Every Goal known to people or to a plan has a slug, and so has what it  *)
(* depends on.                                                             *)
TypeInv ==
  /\ status \in [Ids -> Reached]
  /\ at \in [Procs -> Places \X Ids \X SUBSET Ids]
  /\ done \subseteq Ids
  /\ \A g \in Declared : g \in Ids /\ declared[g].deps \subseteq Ids
  /\ \A g \in DOMAIN proposal : g \in Ids /\ proposal[g].deps \subseteq Ids
  /\ left \subseteq DOMAIN proposal
  /\ pc # "writing" => left = {}

(* What a step does to the Goals, whoever takes it: nothing; a declaration *)
(* is put into .goals/; or one Goal gets on.                               *)
Written(g, d) ==
  /\ g \in Ids /\ d.deps \subseteq Ids
  /\ declared' = [x \in Declared \cup { g } |-> IF x = g THEN d ELSE declared[x]]
  /\ UNCHANGED << status, at, done >>

Declaring ==
  \E g \in Ids : /\ \E d : Written(g, d)
                 /\ g \notin Declared \/ status[g] = "UNREGISTERED"

GetsOn == \E p \in Procs :
  \/ \E g \in Ids :
       \/ StartCheck(p, g) \/ StartWrite(p, g)
       \/ ReadRow(p, g) \/ EndTick(p, g)
       \/ \E S : (\E d \in Ids : LookAt(p, g, S, d)) \/ PassGate(p, g, S)
       \/ AbandonCheck(p, g) \/ AbandonWrite(p, g)
  \/ Stop(p)

LEMMA Kinds ==
  ASSUME TypeInv, [Next]_vars
  PROVE  UNCHANGED goals \/ Declaring \/ GetsOn
<1>1. ASSUME NEW g \in left, WriteGoalFile(g) PROVE Declaring
  <2> DEFINE d == [deps |-> proposal[g].deps, commands |-> proposal[g].commands]
  <2>1. g \in Ids /\ d.deps \subseteq Ids /\ g \notin Declared
    BY <1>1 DEF TypeInv, WriteGoalFile
  <2>2. declared' = [x \in Declared \cup { g } |-> IF x = g THEN d ELSE declared[x]]
        /\ UNCHANGED << status, at, done >>
    BY <1>1 DEF WriteGoalFile
  <2>3. Written(g, d)
    BY <2>1, <2>2 DEF Written
  <2> QED BY <2>1, <2>3 DEF Declaring
<1>2. ASSUME NEW g \in Ids, NEW d \in Declarations, Declare(g, d) PROVE Declaring
  <2>1. d.deps \subseteq Ids
    BY PlanAssumption
  <2>2. Written(g, d) /\ status[g] = "UNREGISTERED"
    BY <1>2, <2>1 DEF Declare, Written
  <2> QED BY <2>2 DEF Declaring
<1>3. CASE Run
  BY <1>3, Zenon DEF Run, GetsOn
<1>4. ASSUME NEW c \in Commands, NEW o \in Outcomes, ChangeCheckout(c, o) PROVE UNCHANGED goals
  BY <1>4 DEF ChangeCheckout
<1>5. CASE Plan
  <2>1. ASSUME NEW p \in Proposals, Adopt(p) PROVE UNCHANGED goals
    BY <2>1 DEF Adopt
  <2>2. ASSUME NEW c \in Commands, Probe(c) PROVE UNCHANGED goals
    BY <2>2 DEF Probe
  <2>3. ASSUME NEW dryRun \in BOOLEAN, AcceptPlan(dryRun) PROVE UNCHANGED goals
    BY <2>3 DEF AcceptPlan
  <2>4. ASSUME NEW g \in left, WriteRefused(g) PROVE UNCHANGED goals
    BY <2>4 DEF WriteRefused
  <2>5. ReadGoals \/ Reject \/ PlannerThrows \/ PlanDies => UNCHANGED goals
    BY DEF ReadGoals, Reject, PlannerThrows, PlanDies
  <2> QED BY <1>1, <1>5, <2>1, <2>2, <2>3, <2>4, <2>5 DEF Plan
<1>6. CASE UNCHANGED vars
  BY <1>6 DEF vars
<1> QED BY <1>2, <1>3, <1>4, <1>5, <1>6 DEF Next, People

(* A command changes nothing that people or a plan write, and moves one    *)
(* process; it never takes a row away.                                     *)
LEMMA Getting ==
  ASSUME TypeInv, GetsOn
  PROVE  /\ UNCHANGED Elsewhere
         /\ \E p \in Procs, new \in Places \X Ids \X SUBSET Ids : at' = [at EXCEPT ![p] = new]
         /\ \/ status' = status
            \/ \E g \in Ids, s \in Reached \ { "UNREGISTERED" } : status' = [status EXCEPT ![g] = s]
         /\ done' = done \/ \E g \in Ids : done' = done \cup { g }
<1> DEFINE Moved(p) == \E new \in Places \X Ids \X SUBSET Ids : at' = [at EXCEPT ![p] = new]
           Wrote    == \E g \in Ids, s \in Reached \ { "UNREGISTERED" } : status' = [status EXCEPT ![g] = s]
<1>1. PICK p \in Procs :
        \/ \E g \in Ids :
             \/ StartCheck(p, g) \/ StartWrite(p, g)
             \/ ReadRow(p, g) \/ EndTick(p, g)
             \/ \E S : (\E d \in Ids : LookAt(p, g, S, d)) \/ PassGate(p, g, S)
             \/ AbandonCheck(p, g) \/ AbandonWrite(p, g)
        \/ Stop(p)
  BY DEF GetsOn
<1>2. Idle \in Places \X Ids \X SUBSET Ids
  BY PlanAssumption DEF Idle, Places
<1>3. ASSUME NEW g \in Ids, NEW place \in Places
      PROVE  << place, g, {} >> \in Places \X Ids \X SUBSET Ids
  OBVIOUS
<1>4. ASSUME NEW g \in Ids, StartCheck(p, g) \/ ReadRow(p, g) \/ AbandonCheck(p, g)
      PROVE  UNCHANGED << status, done, Elsewhere >> /\ Moved(p)
  BY <1>3, <1>4 DEF StartCheck, ReadRow, AbandonCheck, Moves, Places
<1>5. ASSUME NEW g \in Ids, StartWrite(p, g) \/ AbandonWrite(p, g)
      PROVE  UNCHANGED << done, Elsewhere >> /\ Moved(p) /\ Wrote
  BY <1>2, <1>5 DEF StartWrite, AbandonWrite, Moves, Reached
<1>6. ASSUME NEW g \in Ids, EndTick(p, g)
      PROVE  UNCHANGED Elsewhere /\ Moved(p) /\ Wrote /\ (done' = done \/ done' = done \cup { g })
  BY <1>2, <1>6 DEF EndTick, Moves, Reached
<1>7. ASSUME NEW g \in Ids, NEW S, NEW d \in Ids, LookAt(p, g, S, d)
      PROVE  UNCHANGED << status, done, Elsewhere >> /\ Moved(p)
  <2>1. at[p] = << "gate", g, S >> /\ at' = [at EXCEPT ![p] = << "gate", g, S \cup { d } >>]
    BY <1>7 DEF LookAt, Moves
  <2>2. S \subseteq Ids
    BY <2>1 DEF TypeInv
  <2>3. << "gate", g, S \cup { d } >> \in Places \X Ids \X SUBSET Ids
    BY <2>2 DEF Places
  <2> QED BY <1>7, <2>1, <2>3 DEF LookAt
<1>8. ASSUME NEW g \in Ids, NEW S, PassGate(p, g, S)
      PROVE  UNCHANGED << status, done, Elsewhere >> /\ Moved(p)
  BY <1>3, <1>8 DEF PassGate, Moves, Places
<1>9. ASSUME Stop(p) PROVE UNCHANGED << status, done, Elsewhere >> /\ Moved(p)
  BY <1>2, <1>9 DEF Stop
<1> HIDE DEF Moved, Wrote
<1>10. /\ UNCHANGED Elsewhere /\ Moved(p)
       /\ status' = status \/ Wrote
       /\ done' = done \/ \E g \in Ids : done' = done \cup { g }
  BY <1>1, <1>4, <1>5, <1>6, <1>7, <1>8, <1>9
<1> QED BY <1>10 DEF Moved, Wrote

(* What a step of ent plan does to the answer it is at, and to the rest of *)
(* its set that is yet to be written.                                      *)
LEMMA Answers ==
  ASSUME TypeInv, [Next]_vars
  PROVE  /\ \/ UNCHANGED proposal
            \/ DOMAIN proposal' = {}
            \/ \E p \in Proposals : proposal' = p.goals
         /\ left' \subseteq DOMAIN proposal'
         /\ pc' # "writing" => left' = {}
<1>1. DOMAIN Nothing = {}
  BY DEF Nothing
<1>2. ASSUME Leave("ended") \/ Leave("thrown")
      PROVE  DOMAIN proposal' = {} /\ left' = {}
  BY <1>1, <1>2 DEF Leave
<1>3. ASSUME TurnDown, pc # "writing"
      PROVE  DOMAIN proposal' = {} /\ left' = {}
  BY <1>1, <1>2, <1>3 DEF TurnDown, End, TypeInv
<1>4. ASSUME UNCHANGED << proposal, left, pc >>
      PROVE  left' \subseteq DOMAIN proposal' /\ (pc' # "writing" => left' = {})
  BY <1>4 DEF TypeInv
<1>5. CASE Plan
  <2>1. ASSUME NEW p \in Proposals, Adopt(p)
        PROVE  proposal' = p.goals /\ left' = {}
    BY <2>1 DEF Adopt, Goto, TypeInv
  <2>2. ASSUME NEW c \in Commands, Probe(c) PROVE UNCHANGED << proposal, left, pc >>
    BY <2>2 DEF Probe
  <2>3. ASSUME NEW dryRun \in BOOLEAN, AcceptPlan(dryRun)
        PROVE  \/ DOMAIN proposal' = {} /\ left' = {}
               \/ proposal' = proposal /\ left' = DOMAIN proposal' /\ pc' = "writing"
    BY <1>2, <1>3, <2>3 DEF AcceptPlan, End
  <2>4. ASSUME NEW g \in left, WriteGoalFile(g)
        PROVE  proposal' = proposal /\ left' = left \ { g } /\ (pc' # "writing" => left' = {})
    BY <2>4 DEF WriteGoalFile
  <2>5. ASSUME NEW g \in left, WriteRefused(g) PROVE DOMAIN proposal' = {} /\ left' = {}
    BY <1>2, <2>5 DEF WriteRefused
  <2>6. ReadGoals => DOMAIN proposal' = {} /\ left' = {}
    BY <1>1 DEF ReadGoals
  <2>7. Reject \/ PlannerThrows \/ PlanDies => DOMAIN proposal' = {} /\ left' = {}
    BY <1>2, <1>3 DEF Reject, PlannerThrows, PlanDies, End
  <2> QED BY <1>4, <1>5, <2>1, <2>2, <2>3, <2>4, <2>5, <2>6, <2>7 DEF Plan, TypeInv
<1>6. CASE Run
  <2>1. GetsOn
    BY <1>6, Zenon DEF Run, GetsOn
  <2> QED BY <1>4, <2>1, Getting DEF Elsewhere, planner
<1>8. CASE People
  BY <1>4, <1>8 DEF People, Declare, ChangeCheckout, planner
<1>7. CASE UNCHANGED vars
  BY <1>4, <1>7 DEF vars, planner
<1> QED BY <1>5, <1>6, <1>7, <1>8 DEF Next

LEMMA TypeStep ==
  ASSUME TypeInv, [Next]_vars
  PROVE  TypeInv'
<1>1. \A g \in DOMAIN proposal' : g \in Ids /\ proposal'[g].deps \subseteq Ids
  BY Answers, PlanAssumption DEF TypeInv
<1>2. /\ status' \in [Ids -> Reached]
      /\ at' \in [Procs -> Places \X Ids \X SUBSET Ids]
      /\ done' \subseteq Ids
      /\ \A g \in Declared' : g \in Ids /\ declared'[g].deps \subseteq Ids
  <2>1. CASE UNCHANGED goals
    BY <2>1 DEF goals, TypeInv, Declared
  <2>2. CASE Declaring
    <3>0. PICK g \in Ids : \E d : Written(g, d)
      BY <2>2 DEF Declaring
    <3>1. PICK d : Written(g, d)
      BY <3>0
    <3>2. Declared' = Declared \cup { g }
          /\ \A x \in Declared' : declared'[x] = IF x = g THEN d ELSE declared[x]
      BY <3>1 DEF Written, Declared
    <3> QED BY <3>1, <3>2 DEF Written, TypeInv
  <2>3. CASE GetsOn
    <3>1. declared' = declared /\ Declared' = Declared
      BY <2>3, Getting DEF Elsewhere, Declared
    <3>2. status' \in [Ids -> Reached]
      BY <2>3, Getting DEF TypeInv
    <3>3. at' \in [Procs -> Places \X Ids \X SUBSET Ids]
      BY <2>3, Getting DEF TypeInv
    <3>4. done' \subseteq Ids
      BY <2>3, Getting DEF TypeInv
    <3> QED BY <3>1, <3>2, <3>3, <3>4 DEF TypeInv
  <2> QED BY <2>1, <2>2, <2>3, Kinds
<1> QED BY <1>1, <1>2, Answers DEF TypeInv

LEMMA TypeCorrect == Spec => []TypeInv
<1>1. Init => TypeInv
  BY PlanAssumption DEF Init, TypeInv, Nothing, Declared, Reached, Idle, Places
<1> QED BY <1>1, TypeStep, PTL DEF Spec

-----------------------------------------------------------------------------
(* The order in which Goals are completed.                                 *)

(* Goals that have ever been completed, like ticks that are past the gate, *)
(* have only such Goals in front of them, and a tick at the gate has seen  *)
(* only such; what a Goal depends on is settled once it is started, and no *)
(* row goes away.  What rows hold now is of no use: they are written over. *)
Started(g) == status[g] # "UNREGISTERED"

Fits(p) ==
  LET g == at[p][2] IN
    /\ at[p][1] # "idle" => g \in Declared
    /\ at[p][1] \notin { "idle", "starting" } => Started(g)
    /\ at[p][1] = "gate" => at[p][3] \subseteq done
    /\ at[p][1] = "passed" => declared[g].deps \subseteq done

OrderInv ==
  /\ \A g \in Ids : Started(g) => g \in Declared
  /\ \A g \in Ids : status[g] = "COMPLETED" => g \in done
  /\ \A g \in done : Started(g) /\ declared[g].deps \subseteq done
  /\ \A p \in Procs : Fits(p)

(* The process that moves finds what its new place asks for.               *)
LEMMA NewPlace ==
  ASSUME TypeInv, OrderInv, NEW p \in Procs, NEW g \in Ids,
         \/ StartCheck(p, g) \/ StartWrite(p, g)
         \/ ReadRow(p, g) \/ EndTick(p, g)
         \/ \E S : (\E d \in Ids : LookAt(p, g, S, d)) \/ PassGate(p, g, S)
         \/ AbandonCheck(p, g) \/ AbandonWrite(p, g)
  PROVE  /\ Fits(p)'
         /\ \A q \in Procs \ { p } : at'[q] = at[q]
         /\ \/ UNCHANGED << status, done >>
            \/ /\ g \in Declared
               /\ \E s \in Reached \ { "UNREGISTERED" } :
                    /\ status' = [status EXCEPT ![g] = s]
                    /\ IF s = "COMPLETED"
                       THEN done' = done \cup { g } /\ declared[g].deps \subseteq done
                       ELSE done' = done
<1> DEFINE Others == \A q \in Procs \ { p } : at'[q] = at[q]
<1>1. Fits(p) /\ (\A x \in Ids : Started(x) => x \in Declared)
  BY DEF OrderInv
<1>2. ASSUME NEW new, at' = [at EXCEPT ![p] = new]
      PROVE  at'[p] = new /\ Others
  BY <1>2 DEF TypeInv
<1>3. ASSUME at'[p] = Idle PROVE Fits(p)'
  BY <1>3 DEF Fits, Idle
<1>4. CASE StartCheck(p, g)
  BY <1>2, <1>4 DEF StartCheck, Moves, Elsewhere, Fits, Declared
<1>5. CASE ReadRow(p, g) \/ AbandonCheck(p, g)
  BY <1>1, <1>2, <1>5 DEF ReadRow, AbandonCheck, Moves, Elsewhere, Fits, Declared, Started
<1>6. CASE StartWrite(p, g) \/ AbandonWrite(p, g)
  BY <1>1, <1>2, <1>3, <1>6 DEF StartWrite, AbandonWrite, Moves, Fits, Reached
<1>7. CASE EndTick(p, g)
  <2>1. at[p] = << "passed", g, {} >> /\ at' = [at EXCEPT ![p] = Idle]
    BY <1>7 DEF EndTick, Moves
  <2>2. g \in Declared /\ declared[g].deps \subseteq done
    BY <1>1, <2>1 DEF Fits
  <2>3. PICK s \in { "ACTIVE", "COMPLETED" } :
          /\ status' = [status EXCEPT ![g] = s]
          /\ done' = IF s = "COMPLETED" THEN done \cup { g } ELSE done
    BY <1>7 DEF EndTick
  <2>4. s \in Reached \ { "UNREGISTERED" }
    BY DEF Reached
  <2>5. Fits(p)' /\ Others
    BY <1>2, <1>3, <2>1
  <2> QED BY <2>2, <2>3, <2>4, <2>5
<1>8. ASSUME NEW S, NEW d \in Ids, LookAt(p, g, S, d)
      PROVE  Fits(p)' /\ Others /\ UNCHANGED << status, done >>
  <2>1. at[p] = << "gate", g, S >> /\ at' = [at EXCEPT ![p] = << "gate", g, S \cup { d } >>]
        /\ UNCHANGED << status, done, declared >>
    BY <1>8 DEF LookAt, Moves, Elsewhere
  <2>2. status[d] = "COMPLETED"
    BY <1>8 DEF LookAt, Clear, Pending, Unreachable
  <2>3. d \in done
    BY <2>2 DEF OrderInv
  <2> QED BY <1>1, <1>2, <2>1, <2>3 DEF Fits, Declared, Started
<1>9. ASSUME NEW S, PassGate(p, g, S)
      PROVE  Fits(p)' /\ Others /\ UNCHANGED << status, done >>
  <2>1. at[p] = << "gate", g, S >> /\ at' = [at EXCEPT ![p] = << "passed", g, {} >>]
        /\ UNCHANGED << status, done, declared >> /\ declared[g].deps \subseteq S
    BY <1>9 DEF PassGate, Moves, Elsewhere
  <2> QED BY <1>1, <1>2, <2>1 DEF Fits, Declared, Started
<1> QED BY <1>4, <1>5, <1>6, <1>7, <1>8, <1>9

LEMMA OrderStep ==
  ASSUME TypeInv, OrderInv, [Next]_vars
  PROVE  OrderInv'
<1>1. CASE UNCHANGED goals
  BY <1>1 DEF goals, OrderInv, Fits, Started, Declared
<1>2. CASE Declaring
  <2>1. PICK g \in Ids : (\E d : Written(g, d)) /\ (g \notin Declared \/ status[g] = "UNREGISTERED")
    BY <1>2 DEF Declaring
  <2>2. PICK d : Written(g, d)
    BY <2>1
  <2>3. Declared' = Declared \cup { g }
        /\ \A x \in Declared : x # g => declared'[x] = declared[x]
    BY <2>2 DEF Written, Declared
  <2>4. UNCHANGED << status, at, done >>
    BY <2>2 DEF Written
  <2>5. ~Started(g)
    BY <2>1 DEF OrderInv, Started
  <2>6. \A p \in Procs : Fits(p)'
    BY <2>3, <2>4, <2>5 DEF OrderInv, Fits, Started
  <2> QED BY <2>3, <2>4, <2>5, <2>6 DEF OrderInv, Started, TypeInv
<1>3. CASE GetsOn
  <2>1. declared' = declared /\ Declared' = Declared
    BY <1>3, Getting DEF Elsewhere, Declared
  <2>2. PICK p \in Procs :
          \/ \E g \in Ids :
               \/ StartCheck(p, g) \/ StartWrite(p, g)
               \/ ReadRow(p, g) \/ EndTick(p, g)
               \/ \E S : (\E d \in Ids : LookAt(p, g, S, d)) \/ PassGate(p, g, S)
               \/ AbandonCheck(p, g) \/ AbandonWrite(p, g)
          \/ Stop(p)
    BY <1>3 DEF GetsOn
  <2>3. CASE Stop(p)
    <3>1. UNCHANGED << status, done >> /\ at'[p] = Idle /\ \A q \in Procs \ { p } : at'[q] = at[q]
      BY <2>3 DEF Stop, TypeInv
    <3>2. \A q \in Procs : Fits(q)'
      BY <2>1, <3>1 DEF OrderInv, Fits, Started, Idle
    <3> QED BY <2>1, <3>1, <3>2 DEF OrderInv, Started
  <2>4. CASE ~Stop(p)
    <3>1. PICK g \in Ids :
            \/ StartCheck(p, g) \/ StartWrite(p, g)
            \/ ReadRow(p, g) \/ EndTick(p, g)
            \/ \E S : (\E d \in Ids : LookAt(p, g, S, d)) \/ PassGate(p, g, S)
            \/ AbandonCheck(p, g) \/ AbandonWrite(p, g)
      BY <2>2, <2>4
    <3>2. /\ Fits(p)'
          /\ \A q \in Procs \ { p } : at'[q] = at[q]
          /\ \/ UNCHANGED << status, done >>
             \/ /\ g \in Declared
                /\ \E s \in Reached \ { "UNREGISTERED" } :
                     /\ status' = [status EXCEPT ![g] = s]
                     /\ IF s = "COMPLETED"
                        THEN done' = done \cup { g } /\ declared[g].deps \subseteq done
                        ELSE done' = done
      BY <3>1, NewPlace
    <3>3. /\ done \subseteq done'
          /\ \A x \in Ids : Started(x) => Started(x)'
      BY <3>2 DEF Started, TypeInv
    <3>4. \A q \in Procs : Fits(q)'
      <4> SUFFICES ASSUME NEW q \in Procs \ { p } PROVE Fits(q)'
        BY <3>2
      <4>1. Fits(q) /\ at'[q] = at[q] /\ at[q][2] \in Ids
        BY <3>2 DEF OrderInv, TypeInv
      <4> QED BY <2>1, <3>3, <4>1 DEF Fits
    <3> QED BY <2>1, <3>2, <3>3, <3>4 DEF OrderInv, Started, TypeInv
  <2> QED BY <2>3, <2>4
<1> QED BY <1>1, <1>2, <1>3, Kinds

(* Goals are completed in the order of their dependencies, all the way     *)
(* down, though each tick asks only for the direct ones, looks at them one *)
(* after the other, writes on a row that may be old, and declarations go   *)
(* on being written.                                                       *)
THEOREM OrderKept == Spec => []CompletedInOrder
<1>1. Init => OrderInv
  BY DEF Init, OrderInv, Fits, Started, Idle
<1>2. TypeInv /\ OrderInv => CompletedInOrder
  <2> SUFFICES ASSUME TypeInv, OrderInv, NEW g \in done
               PROVE  Behind(DependsOn, g) \subseteq done
    BY DEF CompletedInOrder
  <2>1. \A x \in done : x \in Declared /\ DependsOn[x] \subseteq done
    BY DEF OrderInv, DependsOn, TypeInv
  <2>2. Closed(DependsOn, done) /\ done \in SUBSET Ids
    BY <2>1 DEF Closed, TypeInv
  <2> QED BY <2>1, <2>2 DEF Behind
<1> QED BY <1>1, <1>2, OrderStep, TypeCorrect, PTL DEF Spec

(* Among Goals none of which waits for itself there is one that waits for  *)
(* none of the others.                                                     *)
LEMMA OneWaitsForNoneOfThem ==
  ASSUME TypeInv, NEW G, G \subseteq Declared, G # {},
         \A x \in G : x \notin Behind(DependsOn, x)
  PROVE  \E x \in G : G \cap declared[x].deps = {}
<1> DEFINE back(x) == Behind(DependsOn, x)
           Sets == { back(x) : x \in G }
           Less == StrictSubsetOrdering(Ids)
<1>1. IsWellFoundedOn(Less, FiniteSubsetsOf(Ids))
  BY FS_StrictSubsetOrderingWellFounded
<1>2. \A x \in G : back(x) \in FiniteSubsetsOf(Ids)
  <2>1. \A x \in G : back(x) \in SUBSET Ids
    BY DEF Behind
  <2> QED BY <2>1, FS_Subset, PlanAssumption DEF FiniteSubsetsOf
<1>3. Sets \subseteq FiniteSubsetsOf(Ids) /\ Sets # {}
  BY <1>2
<1> HIDE DEF Less, Sets
<1>4. PICK least \in Sets : \A U \in Sets : ~(<< U, least >> \in Less)
  BY <1>1, <1>3, WFMin
<1> USE DEF Sets
<1>5. PICK x \in G : least = back(x)
  BY <1>4
<1>6. ASSUME NEW y \in G, y \in declared[x].deps PROVE FALSE
  <2>1. DependsOn[x] = declared[x].deps /\ y \in Ids
    BY <1>5, <1>6 DEF DependsOn, TypeInv
  <2>2. y \in back(x)
    BY <1>6, <2>1 DEF Behind
  <2>3. back(y) \subseteq back(x)
    BY <1>6, <2>1 DEF Behind, Closed, DependsOn
  <2>4. y \notin back(y)
    BY <1>6
  <2>5. << back(y), back(x) >> \in Less
    <3>1. back(x) \in SUBSET Ids /\ back(y) \in SUBSET Ids
      BY <1>5, <1>6 DEF Behind
    <3> QED BY <2>2, <2>3, <2>4, <3>1 DEF Less, StrictSubsetOrdering
  <2> QED BY <1>4, <1>5, <1>6, <2>5
<1> QED BY <1>5, <1>6

(* Whoever waits at the gate and is not held up by a cycle, by a Goal that *)
(* was abandoned or by one that nobody started, waits for a Goal whose tick*)
(* passes the gate: the gates never make Goals wait for each other.        *)
THEOREM GatesNeverDeadlock == Spec => []WaitsForSomebody
<1>1. Init => OrderInv
  BY DEF Init, OrderInv, Fits, Started, Idle
<1>2. TypeInv /\ OrderInv => WaitsForSomebody
  <2> SUFFICES ASSUME TypeInv, OrderInv, NEW g \in Declared, status[g] = "ACTIVE", ~HeldUp(g)
               PROVE  \E d \in Behind(DependsOn, g) \cup { g } : status[d] = "ACTIVE" /\ Ready(d)
    BY DEF WaitsForSomebody
  <2> DEFINE near == Behind(DependsOn, g) \cup { g }
             G    == { d \in near : status[d] = "ACTIVE" }
  <2>1. \A d \in near : /\ d \in Ids /\ status[d] \in { "ACTIVE", "COMPLETED" }
                        /\ d \in Declared /\ d \notin Behind(DependsOn, d)
    <3>1. \A d \in near : d \in Ids
      BY DEF Behind, TypeInv
    <3>2. \A d \in near : status[d] \in { "ACTIVE", "COMPLETED" } /\ d \notin Behind(DependsOn, d)
      BY <3>1 DEF HeldUp, TypeInv, Reached
    <3> QED BY <3>1, <3>2 DEF OrderInv, Started
  <2>2. G \subseteq Declared /\ G # {} /\ \A x \in G : x \notin Behind(DependsOn, x)
    BY <2>1
  <2> HIDE DEF G
  <2>3. PICK d \in G : G \cap declared[d].deps = {}
    BY <2>2, OneWaitsForNoneOfThem
  <2> USE DEF G
  <2>4. declared[d].deps \subseteq near
    BY <2>2, <2>3 DEF Behind, Closed, DependsOn, TypeInv
  <2>5. \A e \in declared[d].deps : status[e] = "COMPLETED"
    BY <2>1, <2>3, <2>4
  <2>6. Ready(d)
    BY <2>5 DEF Ready, Clear, Pending, Unreachable, IsTerminal
  <2> QED BY <2>3, <2>6
<1> QED BY <1>1, <1>2, OrderStep, TypeCorrect, PTL DEF Spec

-----------------------------------------------------------------------------
(* What ent plan writes.                                                   *)

(* What everybody will wait for once the whole answer is in .goals/.       *)
Final == [x \in Declared \cup DOMAIN proposal |->
            IF x \in DOMAIN proposal THEN proposal[x].deps ELSE declared[x].deps]

(* An answer that can be written: nobody has its ids, nobody waits in a    *)
(* circle or for a Goal nobody declares, and every Goal has work to do.    *)
ToDo(g) == proposal[g].commands = {} \/ \E c \in proposal[g].commands : outcome[c] # "passed"

Good ==
  /\ ConfigSlug \notin DOMAIN proposal
  /\ left \cap Declared = {}
  /\ \A g \in DOMAIN proposal \ left :
       /\ g \in Declared
       /\ declared[g].deps = proposal[g].deps /\ declared[g].commands = proposal[g].commands
  /\ \A g \in DOMAIN proposal :
       /\ g \notin Behind(Final, g)
       /\ proposal[g].deps \subseteq Declared \cup DOMAIN proposal
       /\ ToDo(g)

(* What was judged before the commands are run.                            *)
Judged ==
  /\ FreeIds(proposal)
  /\ \A g \in DOMAIN proposal : proposal[g].deps \subseteq DOMAIN existing \cup DOMAIN proposal
  /\ ~Cyclic(Edges(proposal))

(* While nobody changes anything what ent plan has read is so, and what it *)
(* has judged holds until the last file is written.                        *)
PlanInv ==
  /\ pc \in { "idle", "asking", "probing", "writing" }
  /\ untouched \in BOOLEAN
  /\ pc # "idle" => exit = "none"
  /\ exit = "thrown" => ~untouched
  /\ exit = "written" => left = {}
  /\ pc = "probing" => Judged
  /\ untouched /\ pc \in { "asking", "probing" } =>
       existing = DependsOn /\ \A c \in DOMAIN probed : probed[c] = outcome[c]
  /\ untouched /\ (pc = "writing" \/ exit = "written") => Good

(* Dropping the edges to ids nobody has, as the code does, loses no cycle. *)
LEMMA NoCycleIsLost ==
  ASSUME TypeInv, PlanInv, Judged, existing = DependsOn, NEW g \in DOMAIN proposal
  PROVE  g \notin Behind(Final, g)
<1> DEFINE known == DOMAIN existing \cup DOMAIN proposal
<1>1. DOMAIN existing = Declared /\ \A x \in Declared : existing[x] = declared[x].deps
  BY DEF DependsOn
<1>2. DOMAIN Edges(proposal) = known
      /\ \A x \in known : Edges(proposal)[x] = IF x \in DOMAIN proposal THEN proposal[x].deps
                                                                         ELSE existing[x] \cap known
  BY DEF Edges
<1>3. g \notin Behind(Edges(proposal), g)
  BY <1>2 DEF Judged, Cyclic
<1>4. PICK S \in SUBSET Ids : Edges(proposal)[g] \subseteq S /\ Closed(Edges(proposal), S) /\ g \notin S
  BY <1>3 DEF Behind, TypeInv
<1> DEFINE T == S \cup (Ids \ known)
<1>5. T \in SUBSET Ids /\ g \notin T
  BY <1>4
<1>6. Final[g] \subseteq T /\ DOMAIN Final = known
  BY <1>1, <1>2, <1>4 DEF Final
<1>7. ASSUME NEW x \in T \cap DOMAIN Final PROVE Final[x] \subseteq T
  <2>1. x \in S /\ x \in known
    BY <1>6, <1>7
  <2>2. Edges(proposal)[x] \subseteq S
    BY <1>2, <1>4, <2>1 DEF Closed
  <2>3. CASE x \in DOMAIN proposal
    BY <1>2, <2>1, <2>2, <2>3 DEF Final
  <2>4. CASE x \notin DOMAIN proposal
    <3>1. x \in Declared /\ Final[x] = declared[x].deps /\ existing[x] = declared[x].deps
      BY <1>1, <2>1, <2>4 DEF Final
    <3>2. declared[x].deps \cap known \subseteq S
      BY <1>2, <2>1, <2>2, <2>4, <3>1
    <3>3. declared[x].deps \subseteq Ids
      BY <3>1 DEF TypeInv
    <3> QED BY <3>1, <3>2, <3>3
  <2> QED BY <2>3, <2>4
<1>8. Closed(Final, T)
  BY <1>7 DEF Closed
<1> QED BY <1>5, <1>6, <1>8 DEF Behind

(* When no command is left to run, a Goal that is not done has one that    *)
(* was run and did not pass.                                               *)
LEMMA WorkIsLeft ==
  ASSUME ToRun = {}, NEW g \in DOMAIN proposal, ~AlreadyDone(g),
         \A c \in DOMAIN probed : probed[c] = outcome[c]
  PROVE  ToDo(g)
<1>1. CASE Open(g)
  <2>1. \A c \in proposal[g].commands : c \in DOMAIN probed
    BY <1>1 DEF ToRun
  <2> QED BY <2>1 DEF AlreadyDone, Passed, ToDo
<1>2. CASE ~Open(g)
  BY <1>2 DEF Open, Passed, ToDo
<1> QED BY <1>1, <1>2

LEMMA SameJudgement ==
  ASSUME UNCHANGED << existing, proposal >>
  PROVE  Judged' <=> Judged
BY DEF Judged, FreeIds, Cyclic, Edges, Behind, Closed

LEMMA StaysGood ==
  ASSUME UNCHANGED << declared, outcome, proposal, left >>
  PROVE  Good' <=> Good
BY DEF Good, Final, Declared, Behind, Closed, ToDo

LEMMA PlanStep ==
  ASSUME TypeInv, PlanInv, [Next]_vars
  PROVE  PlanInv'
<1>1. ASSUME Leave("ended"), untouched' = FALSE PROVE PlanInv'
  BY <1>1 DEF Leave, PlanInv
<1>2. ASSUME TurnDown, UNCHANGED << goals, outcome >>, pc \in { "asking", "probing" } PROVE PlanInv'
  <2>1. CASE End
    BY <1>1, <2>1 DEF End
  <2>2. CASE /\ pc' = "asking" /\ proposal' = Nothing
             /\ UNCHANGED << existing, probed, left, exit, untouched >>
    BY <1>2, <2>2 DEF PlanInv, goals, DependsOn, Declared
  <2> QED BY <1>2, <2>1, <2>2 DEF TurnDown
<1>3. CASE ReadGoals
  <2>1. pc' = "asking" /\ existing' = DependsOn /\ DOMAIN probed' = {} /\ exit' = "none"
        /\ untouched' = TRUE /\ UNCHANGED << declared, outcome >>
    BY <1>3 DEF ReadGoals, Goto, Nothing, goals
  <2>2. DependsOn' = DependsOn
    BY <2>1 DEF DependsOn, Declared
  <2>3. untouched' \in BOOLEAN
    BY <2>1
  <2> QED BY <2>1, <2>2, <2>3 DEF PlanInv
<1>4. ASSUME NEW p \in Proposals, Adopt(p) PROVE PlanInv'
  <2>1. pc = "asking" /\ pc' = "probing" /\ proposal' = p.goals /\ Adoptable(p)
        /\ UNCHANGED << declared, outcome, existing, probed, left, exit, untouched >>
    BY <1>4 DEF Adopt, Goto, goals
  <2>2. FreeIds(p.goals) /\ ~Cyclic(Edges(p.goals))
        /\ \A g \in DOMAIN p.goals : p.goals[g].deps \subseteq DOMAIN existing \cup DOMAIN p.goals
    BY <2>1 DEF Adoptable
  <2>3. FreeIds(proposal)'
    BY <2>1, <2>2 DEF FreeIds
  <2>4. Edges(proposal)' = Edges(p.goals)
    BY <2>1 DEF Edges
  <2>5. Judged'
    <3>1. ~Cyclic(Edges(proposal))'
      BY <2>2, <2>4 DEF Cyclic, Behind, Closed
    <3> QED BY <2>1, <2>2, <2>3, <3>1 DEF Judged
  <2>6. DependsOn' = DependsOn
    BY <2>1 DEF DependsOn, Declared
  <2> QED BY <2>1, <2>5, <2>6 DEF PlanInv
<1>5. CASE Reject
  BY <1>2, <1>5 DEF Reject
<1>6. CASE PlannerThrows \/ PlanDies
  BY <1>1, <1>6 DEF PlannerThrows, PlanDies, End
<1>7. ASSUME NEW c \in Commands, Probe(c) PROVE PlanInv'
  <2>1. pc = "probing" /\ pc' = pc
        /\ probed' = [x \in DOMAIN probed \cup { c } |-> IF x = c THEN outcome[c] ELSE probed[x]]
        /\ UNCHANGED << declared, outcome, existing, proposal, left, exit, untouched >>
    BY <1>7 DEF Probe, goals
  <2>2. Judged' <=> Judged
    BY <2>1, SameJudgement
  <2>3. DependsOn' = DependsOn
    BY <2>1 DEF DependsOn, Declared
  <2> QED BY <2>1, <2>2, <2>3 DEF PlanInv
<1>8. ASSUME NEW dryRun \in BOOLEAN, AcceptPlan(dryRun) PROVE PlanInv'
  <2>1. pc = "probing" /\ ToRun = {} /\ UNCHANGED << goals, outcome >>
    BY <1>8 DEF AcceptPlan
  <2>2. CASE ~\E g \in DOMAIN proposal : AlreadyDone(g)
    <3>1. CASE End
      BY <1>1, <3>1 DEF End
    <3>2. CASE pc' = "writing" /\ left' = DOMAIN proposal /\ UNCHANGED << proposal, exit, untouched >>
      <4>1. ASSUME untouched PROVE Good'
        <5>1. Judged /\ existing = DependsOn /\ \A c \in DOMAIN probed : probed[c] = outcome[c]
          BY <2>1, <4>1 DEF PlanInv
        <5>2. \A g \in DOMAIN proposal : ToDo(g) /\ g \notin Behind(Final, g)
          BY <2>1, <2>2, <5>1, WorkIsLeft, NoCycleIsLost
        <5>3. DOMAIN existing = Declared
          BY <5>1 DEF DependsOn
        <5>4. Final' = Final /\ Declared' = Declared
          BY <2>1, <3>2 DEF Final, goals, Declared
        <5> QED BY <2>1, <3>2, <5>1, <5>2, <5>3, <5>4 DEF Good, Judged, FreeIds, Behind, Closed, ToDo
      <4> QED BY <2>1, <3>2, <4>1 DEF PlanInv
    <3> QED BY <1>8, <2>2, <3>1, <3>2 DEF AcceptPlan
  <2>3. CASE \E g \in DOMAIN proposal : AlreadyDone(g)
    BY <1>2, <1>8, <2>1, <2>3 DEF AcceptPlan
  <2> QED BY <2>2, <2>3
<1>9. ASSUME NEW g \in left, WriteGoalFile(g) PROVE PlanInv'
  <2>1. pc = "writing" /\ g \notin Declared /\ left' = left \ { g }
        /\ UNCHANGED << proposal, outcome, untouched >>
    BY <1>9 DEF WriteGoalFile
  <2>2. Declared' = Declared \cup { g } /\ g \in DOMAIN proposal
        /\ declared'[g].deps = proposal[g].deps /\ declared'[g].commands = proposal[g].commands
        /\ \A x \in Declared : declared'[x] = declared[x]
    BY <1>9 DEF WriteGoalFile, Declared, TypeInv
  <2>3. Final' = Final
    BY <2>1, <2>2 DEF Final
  <2>4. Good => Good'
    BY <2>1, <2>2, <2>3 DEF Good, Behind, Closed, ToDo
  <2>5. \/ pc' = "idle" /\ exit' = "written" /\ left' = {}
        \/ UNCHANGED << pc, exit >>
    BY <1>9 DEF WriteGoalFile
  <2> QED BY <2>1, <2>4, <2>5 DEF PlanInv
<1>10. ASSUME NEW g \in left, WriteRefused(g) PROVE PlanInv'
  <2>1. pc = "writing" /\ g \in Declared \cup { ConfigSlug } /\ Leave("thrown") /\ untouched' = untouched
    BY <1>10 DEF WriteRefused
  <2>2. ~untouched
    BY <2>1 DEF PlanInv, Good, TypeInv
  <2> QED BY <2>1, <2>2 DEF PlanInv, Leave
<1>11. CASE Run
  <2>0. GetsOn
    BY <1>11, Zenon DEF Run, GetsOn
  <2>1. UNCHANGED << declared, outcome, pc, planner, untouched >>
    BY <2>0, Getting DEF Elsewhere
  <2>2. (Good' <=> Good) /\ (Judged' <=> Judged)
    BY <2>1, StaysGood, SameJudgement DEF planner
  <2>3. DependsOn' = DependsOn
    BY <2>1 DEF DependsOn, Declared
  <2> QED BY <2>1, <2>2, <2>3 DEF PlanInv, planner
<1>12. CASE People
  <2>1. untouched' = FALSE /\ UNCHANGED << pc, planner >>
    BY <1>12 DEF People, Declare, ChangeCheckout, Edit
  <2>2. untouched' \in BOOLEAN
    BY <2>1
  <2>3. Judged' <=> Judged
    BY <2>1, SameJudgement DEF planner
  <2> QED BY <2>1, <2>2, <2>3 DEF PlanInv, planner
<1>13. CASE UNCHANGED vars
  <2>1. UNCHANGED << declared, outcome, pc, planner, untouched >>
    BY <1>13 DEF vars, goals
  <2>2. (Good' <=> Good) /\ (Judged' <=> Judged)
    BY <2>1, StaysGood, SameJudgement DEF planner
  <2>3. DependsOn' = DependsOn
    BY <2>1 DEF DependsOn, Declared
  <2> QED BY <2>1, <2>2, <2>3 DEF PlanInv, planner
<1> QED BY <1>3, <1>4, <1>5, <1>6, <1>7, <1>8, <1>9, <1>10, <1>11, <1>12, <1>13 DEF Next, Plan

LEMMA PlanHolds == Spec => []PlanInv
<1>1. Init => PlanInv
  BY DEF Init, PlanInv
<1> QED BY <1>1, PlanStep, TypeCorrect, PTL DEF Spec

(* Files of a plan are missing only when somebody changed something while  *)
(* it was made, or when it was killed.                                     *)
THEOREM WholeOrNothing == Spec => []WrittenWholeOrNothing
<1>1. PlanInv => WrittenWholeOrNothing
  BY DEF PlanInv, WrittenWholeOrNothing
<1> QED BY <1>1, PlanHolds, PTL

(* A plan that was written while nobody changed anything is free of cycles,*)
(* also of those through the Goals that were there, and ent start takes    *)
(* every Goal of it.                                                       *)
THEOREM PlansAreSound == Spec => []PlanCanBeCarriedOut
<1>1. TypeInv /\ PlanInv => PlanCanBeCarriedOut
  <2> SUFFICES ASSUME TypeInv, PlanInv, exit = "written", untouched, NEW g \in DOMAIN proposal
               PROVE  /\ g \notin Behind(DependsOn, g)
                      /\ declared[g].deps \subseteq Declared
                      /\ ~NothingToDo(g)
    BY DEF PlanCanBeCarriedOut
  <2>1. Good /\ left = {}
    BY DEF PlanInv
  <2>2. \A x \in DOMAIN proposal : x \in Declared /\ declared[x].deps = proposal[x].deps
                                   /\ declared[x].commands = proposal[x].commands
    BY <2>1 DEF Good
  <2>3. Final = DependsOn
    BY <2>2 DEF Final, DependsOn
  <2> QED BY <2>1, <2>2, <2>3 DEF Good, ToDo, NothingToDo
<1> QED BY <1>1, TypeCorrect, PlanHolds, PTL
=============================================================================
