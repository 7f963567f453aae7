---------------------------- MODULE GuardWindow ----------------------------
(***************************************************************************)
(* The gate on what an Actor may not touch, beyond its own working tree:   *)
(* the controller looks at its checkout, at what git does not show of it   *)
(* and at the rows of the Goal in the state DB before ACT and again after  *)
(* it, and takes a difference for the Actor's doing                        *)
(* (packages/ent/src/controller/index.ts, store/sqlite.ts,                 *)
(* domain/protected-paths.ts).                                             *)
(*                                                                         *)
(* In between the controller writes to that DB itself - the Run, before    *)
(* and after the Actor, and its lease - and so do processes that tick      *)
(* other Goals.  The first must not be taken for the Actor's doing, and    *)
(* what is left out for its sake must not hide what is.                    *)
(*                                                                         *)
(* Each observation consists of several readings; anybody may write        *)
(* between two of them.  What follows from the decision is the subject of  *)
(* Evidence and of Publish.                                                *)
(***************************************************************************)
EXTENDS Naturals

CONSTANTS
  Contents,     \* what a file or a set of rows may hold
  Parts,        \* of this Goal's part of the DB: the file with its schema, the
                \* "rows" but for Runs and lease (GUARD_SECTIONS), and the status
                \* of the Goals it depends on
  RunIds,
  NoRow, Moved, \* no Run has this id; it is that of another Goal's
  Absent,       \* no baseline; not listed by git
  Launched,     \* the roles that are launched
  MaxTicks,     \* bound: ticks
  MaxForeign    \* bound: writes by others, over all ticks

ActorRoles == { "implement", "review", "investigate" }
(* A failed Run is to the gate what an interrupted one is.                 *)
Rows == [role : ActorRoles, status : { "starting", "completed", "interrupted" }]

Trees  == { "implement", "investigate" }
Names  == { "outside", "protected", ".goals/.state" }
TreeNames == Names \ { "outside" }

(* A file of the checkout: as it lies there, as last committed, and        *)
(* whether the index hides it from git status.                             *)
Files  == [disk : Contents, commit : Contents, hidden : BOOLEAN]

ASSUME WindowAssumption ==
  /\ "rows" \in Parts
  /\ Launched \subseteq ActorRoles
  /\ MaxTicks \in Nat /\ MaxForeign \in Nat
  /\ NoRow \notin Rows /\ Moved \notin Rows /\ NoRow # Moved
  /\ Absent \notin Contents \cup { "index-hidden" } /\ "index-hidden" \notin Contents
  /\ \A names \in SUBSET TreeNames : Absent # names

VARIABLES
  parts, runs, logs,  \* the state DB, and the raw logs its Runs point to
  elsewhere,          \* the rest of the DB: lease, other Goals, its pages
  checkout, hooks,    \* the controller's own repository
  trees,              \* what differs from guard_base_sha in a worktree that
                      \* was looked at
  at,                 \* how far the tick has come
  based,              \* guard_base_sha can be read
  before, after,      \* the readings of the two observations
  own,                \* the Runs of this tick and their intents
  artifacts,          \* the edits the SDK reports
  verdict,
  ticks, foreign,     \* for the bounds: ticks so far, and writes by others
  then, touched, standing  \* history, see below

store  == << parts, runs, logs, elsewhere >>
repo   == << checkout, hooks >>
ghosts == << then, touched, standing >>
locals == << based, before, after, own, artifacts, verdict >>
windowVars == << store, repo, trees, at, locals, ticks, foreign, ghosts >>

-----------------------------------------------------------------------------
(* What is observed                                                        *)

IsRow(row)    == row \notin { NoRow, Moved }
IsReview(row) == IsRow(row) /\ row.role = "review" /\ row.status = "completed"

ToUs(row)     == IF IsRow(row) THEN row ELSE NoRow

(* guardDigest, without the hash: one read transaction.                    *)
Projected(ownIds) == { << r, runs[r] >> : r \in { x \in RunIds \ ownIds : IsRow(runs[x]) } }

ReviewLogs(ownIds) == { << r, logs[r] >> : r \in { x \in RunIds \ ownIds : IsReview(runs[x]) } }

(* Mutant: the bytes of the file, which move with a checkpoint, with the   *)
(* lease and with the rows of other Goals.                                 *)
DigestOfBytes(ownIds) == << parts, Projected(ownIds), ReviewLogs(ownIds), elsewhere >>

GuardDigest(ownIds) == << parts, Projected(ownIds), ReviewLogs(ownIds) >>

RepoDirtyState ==
  IF checkout.hidden THEN "index-hidden"
  ELSE IF checkout.disk # checkout.commit THEN checkout.disk ELSE Absent

(* observedRepoState reads one after the other.                            *)
Readings == { "checkout", "hooks", "store" }
NextOf(read) ==
  CASE "checkout" \notin DOMAIN read -> "checkout"
    [] DOMAIN read = { "checkout" }  -> "hooks"
    [] OTHER                         -> "store"

Unread == [what \in {} |-> Absent]
Whole(read) == DOMAIN read = Readings
Noted(read, what, value) ==
  [w \in DOMAIN read \cup { what } |-> IF w = what THEN value ELSE read[w]]

Observed(what) ==
  CASE what = "checkout" -> RepoDirtyState
    [] what = "hooks"    -> hooks
    [] what = "store"    -> GuardDigest(DOMAIN own)

(* Not so the hooks: what cannot be read of them is a value.               *)
MayThrow(what) == what \in { "checkout", "store" }

(* By which name findViolations comes to know that a reading differs.      *)
NameOf == [checkout |-> "outside", hooks |-> "protected", store |-> ".goals/.state"]

Escaped == { NameOf[what] : what \in { w \in Readings : before[w] # after[w] } }

(* What findViolations takes exception to.  In a worktree .goals/.state is *)
(* free space for the Actor, in the checkout it is the state DB.           *)
Violations(names, origin) ==
  IF origin = "worktree" THEN names \ { ".goals/.state" } ELSE names

(* ownRunDrift: of the rows that the digest leaves out, what finishRun     *)
(* does not write must be as startRun wrote it.                            *)
OwnRunDrift == \E r \in DOMAIN own : ~IsRow(runs[r]) \/ runs[r].role # own[r]

-----------------------------------------------------------------------------
(* The tick                                                                *)

TreeOf(role) == IF role = "investigate" THEN "investigate" ELSE "implement"

Reclaimed(row) ==
  IF IsRow(row) /\ row.status = "starting" THEN [row EXCEPT !.status = "interrupted"] ELSE row

(* What the process holds in its memory, at the beginning of a tick.       *)
Blank ==
  /\ trees' = [t \in Trees |-> Absent]
  /\ before' = Unread /\ after' = Unread /\ own' = [r \in {} |-> Absent]
  /\ artifacts' = {} /\ verdict' = Absent
  /\ then' = Unread /\ touched' = FALSE /\ standing' = {}

TickBegins ==
  /\ at = "idle" /\ ticks < MaxTicks
  /\ at' = "before" /\ ticks' = ticks + 1
  /\ runs' = [r \in RunIds |-> Reclaimed(runs[r])]
  /\ based' \in BOOLEAN
  /\ Blank
  /\ UNCHANGED << parts, logs, elsewhere, repo, foreign >>

(* History: what there was to be read.                                     *)
There(what) ==
  CASE what = "checkout" -> checkout
    [] what = "hooks"    -> hooks
    [] what = "store"    -> [parts |-> parts, runs |-> runs, logs |-> logs]

ReadBefore ==
  /\ at = "before"
  /\ before' = Noted(before, NextOf(before), Observed(NextOf(before)))
  /\ then'   = Noted(then, NextOf(before), There(NextOf(before)))
  /\ at' = IF Whole(before') THEN "deciding" ELSE "before"
  /\ UNCHANGED << store, repo, trees, based, after, own, artifacts, verdict, ticks, foreign,
                  touched, standing >>

(* The failure is a value: the gate deals with it after ACT.               *)
BaselineFails ==
  /\ at = "before" /\ MayThrow(NextOf(before))
  /\ before' = Unread /\ then' = Unread
  /\ at' = "deciding"
  /\ UNCHANGED << store, repo, trees, based, after, own, artifacts, verdict, ticks, foreign,
                  touched, standing >>

(* startRun, through the RunRecorderPort that remembers the intent.        *)
StartRun(role, r) ==
  /\ at = "deciding" /\ based /\ runs[r] = NoRow
  /\ runs' = [runs EXCEPT ![r] = [role |-> role, status |-> "starting"]]
  /\ own' = [x \in { r } |-> role]
  /\ at' = "acting"
  /\ UNCHANGED << parts, logs, elsewhere, repo, trees, based, before, after, artifacts, verdict,
                  ticks, foreign, ghosts >>

(* History: what somebody else has changed by the time ACT is over.  Left  *)
(* out are what the checkout has committed since, and a file that was      *)
(* hidden from git before: nothing compares these.                         *)
ChangedRuns(was) ==
  { r \in RunIds \ DOMAIN own : ToUs(runs'[r]) # ToUs(was.runs[r]) }
    \cup { r \in DOMAIN own : ~IsRow(runs'[r]) \/ runs'[r].role # own[r] }
ChangedLogs(was) ==
  { r \in RunIds \ DOMAIN own : IsReview(was.runs[r]) /\ logs'[r] # was.logs[r] }
CheckoutChanged(was) == checkout.disk # was.disk /\ checkout.commit = was.commit /\ ~was.hidden

Changed ==
  ({ "part" } \X { p \in Parts : parts[p] # then["store"].parts[p] })
    \cup ({ "run" } \X ChangedRuns(then["store"])) \cup ({ "log" } \X ChangedLogs(then["store"]))
    \cup ({ "repo" } \X { x \in { "hooks" } : hooks # then["hooks"] })
    \cup ({ "repo" } \X { x \in { "checkout" } : CheckoutChanged(then["checkout"]) })

ActEnds ==
  /\ at' = "inspecting" /\ standing' = IF Whole(before) THEN Changed ELSE {}

(* No ACT was decided, there is no base, or the Run could not be written.  *)
NoActor ==
  /\ at = "deciding"
  /\ UNCHANGED << store, repo, trees, locals, ticks, foreign, then, touched >>
  /\ ActEnds

(* The Actor has run, in whatever tree it pleased to, and its messages are *)
(* in the log.  finishRun writes by id, and may throw.                     *)
FinishRun(r, status, finished) ==
  /\ at = "acting" /\ r \in DOMAIN own
  /\ runs' = IF finished /\ runs[r] \in Rows
              THEN [runs EXCEPT ![r] = [@ EXCEPT !.status = status]] ELSE runs
  /\ \E c \in Contents \ { logs[r] } : logs' = [logs EXCEPT ![r] = c]
  /\ artifacts' \in { {}, { "outside" } }
  /\ UNCHANGED << parts, elsewhere, repo, trees, based, before, after, own, verdict, ticks, foreign,
                  then, touched >>
  /\ ActEnds

-----------------------------------------------------------------------------
(* guardedDecision                                                         *)

Judge(v) == verdict' = v /\ at' = "judged"

NoBase ==
  /\ at = "inspecting" /\ ~based
  /\ Judge("guard_unavailable")
  /\ UNCHANGED << trees, before, after >>

(* Mutant: the rows left out of the digest are not looked at.              *)
NoDrift ==
  /\ at = "inspecting" /\ based
  /\ at' = "primary"
  /\ UNCHANGED << trees, before, after, verdict >>

CheckDrift ==
  /\ at = "inspecting" /\ based
  /\ IF OwnRunDrift THEN Judge("protected_path_touched")
     ELSE at' = "primary" /\ UNCHANGED verdict
  /\ UNCHANGED << trees, before, after >>

ListRunsThrows ==
  /\ at = "inspecting" /\ based /\ DOMAIN own # {}
  /\ Judge("guard_unavailable")
  /\ UNCHANGED << trees, before, after >>

(* changedPaths: what this Actor, earlier ones and people did to a tree.   *)
HasChanged(t) ==
  \E names \in { {} } \cup { { n } : n \in TreeNames } : trees' = [trees EXCEPT ![t] = names]

(* The tree of the role that ran, then the one that is pushed.             *)
Primary ==
  IF \E r \in DOMAIN own : TreeOf(own[r]) = "investigate" THEN "investigate" ELSE "implement"

LookAtPrimary ==
  /\ at = "primary"
  /\ HasChanged(Primary)
  /\ at' = IF Primary = "implement" THEN "after" ELSE "pushed"
  /\ UNCHANGED << before, after, verdict >>

LookAtPushed ==
  /\ at = "pushed"
  /\ HasChanged("implement")
  /\ at' = "after"
  /\ UNCHANGED << before, after, verdict >>

ChangedPathsThrows ==
  /\ at \in { "primary", "pushed" }
  /\ Judge("guard_unavailable")
  /\ UNCHANGED << trees, before, after >>

NoBaseline ==
  /\ at = "after" /\ ~Whole(before)
  /\ Judge("guard_unavailable")
  /\ UNCHANGED << trees, before, after >>

ReadAfter ==
  /\ at = "after" /\ Whole(before) /\ ~Whole(after)
  /\ after' = Noted(after, NextOf(after), Observed(NextOf(after)))
  /\ UNCHANGED << trees, before, at, verdict >>

AfterFails ==
  /\ at = "after" /\ Whole(before) /\ ~Whole(after) /\ MayThrow(NextOf(after))
  /\ Judge("guard_unavailable")
  /\ UNCHANGED << trees, before, after >>

Edited == artifacts \cup UNION { trees[t] : t \in { x \in Trees : trees[x] # Absent } }

Compare ==
  /\ at = "after" /\ Whole(after)
  /\ Judge(IF Violations(Edited, "worktree") \cup Violations(Escaped, "repo_root") = {}
              THEN "as decided" ELSE "protected_path_touched")
  /\ UNCHANGED << trees, before, after >>

GuardedDecision ==
  /\ \/ NoBase \/ CheckDrift \/ ListRunsThrows
     \/ LookAtPrimary \/ LookAtPushed \/ ChangedPathsThrows
     \/ NoBaseline \/ ReadAfter \/ AfterFails \/ Compare
  /\ UNCHANGED << store, repo, based, own, artifacts, ticks, foreign, ghosts >>

(* The tick writes its snapshot and its decision, and is over.             *)
TickEnds ==
  /\ at = "judged"
  /\ at' = "idle"
  /\ \E c \in Contents \ { parts["rows"] } : parts' = [parts EXCEPT !["rows"] = c]
  /\ based' = TRUE /\ Blank
  /\ UNCHANGED << runs, logs, elsewhere, repo, ticks, foreign >>

(* The process dies, or finds its lease gone.                              *)
TickLost ==
  /\ at # "idle"
  /\ at' = "idle"
  /\ based' = TRUE /\ Blank
  /\ UNCHANGED << store, repo, ticks, foreign >>

-----------------------------------------------------------------------------
(* Everybody else                                                          *)

(* The heartbeat, a checkpoint, a process that ticks another Goal.         *)
(* Between two ticks nobody looks.                                         *)
WriteElsewhere ==
  /\ at \notin { "idle", "judged" }
  /\ elsewhere' \in Contents \ { elsewhere }
  /\ UNCHANGED << parts, runs, logs, repo, trees, at, locals, ticks, foreign, ghosts >>

(* The Actor beyond its tree, a person, a command of ent on this Goal.     *)
Writes(kind, what) ==
  /\ at \notin { "idle", "judged" } /\ foreign < MaxForeign
  /\ foreign' = foreign + 1
  /\ touched' = TRUE
  /\ standing' = standing \ { << kind, what >> }
  /\ UNCHANGED << elsewhere, trees, at, locals, ticks, then >>

RewritePart(p) ==
  /\ Writes("part", p)
  /\ \E c \in Contents \ { parts[p] } : parts' = [parts EXCEPT ![p] = c]
  /\ UNCHANGED << runs, logs, repo >>

(* One column of a row, the Goal it belongs to, or a row that is new.      *)
RewriteRun(r) ==
  /\ Writes("run", r)
  /\ \E row \in Rows \cup { Moved } :
       /\ row # runs[r]
       /\ runs[r] = NoRow => IsRow(row) /\ row.status = "completed"
       /\ IsRow(row) /\ IsRow(runs[r]) => row.role = runs[r].role \/ row.status = runs[r].status
       /\ runs' = [runs EXCEPT ![r] = row]
  /\ UNCHANGED << parts, logs, repo >>

RewriteLog(r) ==
  /\ Writes("log", r) /\ runs[r] # NoRow
  /\ \E c \in Contents \ { logs[r] } : logs' = [logs EXCEPT ![r] = c]
  /\ UNCHANGED << parts, runs, repo >>

RewriteHooks ==
  /\ Writes("repo", "hooks")
  /\ hooks' \in Contents \ { hooks }
  /\ UNCHANGED << parts, runs, logs, checkout >>

WriteCheckout ==
  /\ Writes("repo", "checkout")
  /\ \/ \E c \in Contents \ { checkout.disk } : checkout' = [checkout EXCEPT !.disk = c]
     \/ checkout' = [checkout EXCEPT !.commit = checkout.disk] /\ checkout' # checkout
     \/ checkout' = [checkout EXCEPT !.hidden = ~checkout.hidden]
  /\ UNCHANGED << parts, runs, logs, hooks >>

Foreign ==
  \/ \E p \in Parts : RewritePart(p)
  \/ \E r \in RunIds : RewriteRun(r) \/ RewriteLog(r)
  \/ RewriteHooks
  \/ WriteCheckout

-----------------------------------------------------------------------------
WindowInit ==
  /\ \E c \in Contents :
       /\ parts = [p \in Parts |-> c] /\ logs = [r \in RunIds |-> c]
       /\ elsewhere = c /\ hooks = c
       /\ checkout \in { f \in Files : f.commit = c }
  /\ runs \in [RunIds -> { NoRow, [role |-> "review", status |-> "completed"] }]
  /\ trees = [t \in Trees |-> Absent]
  /\ at = "idle" /\ based = TRUE
  /\ before = Unread /\ after = Unread /\ own = [r \in {} |-> Absent]
  /\ artifacts = {} /\ verdict = Absent
  /\ ticks = 0 /\ foreign = 0
  /\ then = Unread /\ touched = FALSE /\ standing = {}

WindowNext ==
  \/ TickBegins \/ ReadBefore \/ BaselineFails
  \/ \E role \in Launched, r \in RunIds : StartRun(role, r)
  \/ NoActor
  \/ \E r \in RunIds, status \in { "completed", "interrupted" }, finished \in BOOLEAN :
       FinishRun(r, status, finished)
  \/ GuardedDecision
  \/ TickEnds \/ TickLost
  \/ WriteElsewhere \/ Foreign

WindowSpec == WindowInit /\ [][WindowNext]_windowVars

-----------------------------------------------------------------------------
(* The gate does not go off over what the controller itself and the ticks  *)
(* of other Goals write: when it reports that something protected was      *)
(* touched, either a worktree holds it or the Actor reported it, or        *)
(* somebody else has written since the tick began.                         *)
Faulty(t) == trees[t] # Absent /\ Violations(trees[t], "worktree") # {}
Clean(t)  == trees[t] # Absent /\ Violations(trees[t], "worktree") = {}

NoFalseAlarm ==
  at = "judged" /\ verdict = "protected_path_touched" =>
    (\E t \in Trees : Faulty(t)) \/ Violations(artifacts, "worktree") # {} \/ touched

(* What is left out for the controller's sake hides nobody else's doing:   *)
(* a tick that goes on as decided leaves nothing standing that was changed *)
(* between its baseline and the end of ACT, and neither the tree the Actor *)
(* ran in nor the one that will be pushed holds a protected change.        *)
NothingSlipsThrough ==
  at = "judged" /\ verdict = "as decided" =>
    /\ standing = {}
    /\ Clean(Primary) /\ Clean("implement")
    /\ Violations(artifacts, "worktree") = {}
=============================================================================
