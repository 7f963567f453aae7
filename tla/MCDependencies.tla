--------------------------- MODULE MCDependencies ---------------------------
(* Values of the constants of Dependencies for TLC.                        *)
EXTENDS Dependencies, TLC

Slugs == Ids \ { ConfigSlug }
MCDeclarations == [deps : SUBSET Slugs, commands : { {} }]

(* One or two Goals that depend on any others, and answers with a fault.   *)
Goal(deps)  == [deps |-> deps, commands |-> Commands, human |-> TRUE]
Answer(f)   == [wellFormed |-> TRUE, repeatsId |-> FALSE, goals |-> f]
Answers     == { Answer(f) : f \in UNION { { h \in [S -> { Goal(D) : D \in SUBSET Slugs }] :
                                               \A g \in S : g \notin h[g].deps } :
                                           S \in { T \in SUBSET Slugs : Cardinality(T) \in 1..2 } } }
Free(S)     == Answer([g \in S |-> Goal({})])
Faulty      == { Free(Slugs) } \cup { Free({ ConfigSlug, g }) : g \in Slugs }
                 \cup { Answer([g \in { h } |-> Goal({ h })]) : h \in Slugs }
                 \cup { [Free({ g }) EXCEPT !.repeatsId = TRUE] : g \in Slugs }
                 \cup { Answer([g \in { h } |-> [Goal({}) EXCEPT !.human = FALSE]]) : h \in Slugs }
MCProposals == Answers \cup Faulty \cup { [Free({}) EXCEPT !.wellFormed = FALSE] }
MCSymmetry  == Permutations(Slugs) \cup Permutations(Procs)

(* What ent plan does and what the commands of the Goals do leaves the     *)
(* other as it was, but for the declarations that plan writes like people  *)
(* do.  A behaviour is about one of the two.                               *)
VARIABLE about

MCInit == Init /\ about \in { "plan", "goals" }
MCNext ==
  /\ UNCHANGED about
  /\ \/ about = "plan" /\ Plan
     \/ about = "goals" /\ Run
     \/ People

MCSpec == MCInit /\ [][MCNext]_<< vars, about >>
=============================================================================
