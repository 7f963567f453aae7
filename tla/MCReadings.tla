----------------------------- MODULE MCReadings -----------------------------
(* What a tick reads of the world in several steps: of GitHub, and of its  *)
(* own checkout and state DB.  A behaviour is about one of the two.        *)
EXTENDS GithubReading, GuardWindow, TLC

VARIABLE about

(* The part a behaviour is not about stays as it is, in one state.         *)
GithubAtRest == subject = "ci" /\ access = {}
WindowAtRest ==
  /\ checkout.disk = checkout.commit /\ ~checkout.hidden
  /\ \A r \in RunIds : runs[r] = NoRow

MCInit ==
  /\ Init /\ WindowInit
  /\ \/ about = "github" /\ WindowAtRest
     \/ about = "window" /\ GithubAtRest

MCNext ==
  /\ UNCHANGED about
  /\ \/ about = "github" /\ Next /\ UNCHANGED windowVars
     \/ about = "window" /\ WindowNext /\ UNCHANGED vars

MCSpec == MCInit /\ [][MCNext]_<< vars, windowVars, about >>

Symmetry == Permutations(Contents) \cup Permutations(RunIds)
=============================================================================
