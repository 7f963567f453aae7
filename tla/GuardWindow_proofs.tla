------------------------- MODULE GuardWindow_proofs -------------------------
(* The theorems about GuardWindow, for any contents, any parts of the      *)
(* state DB, any Runs, and any number of ticks and writes by others.       *)
EXTENDS GuardWindow, TLAPS

PreAct  == { "before", "deciding", "acting" }
PostAct == { "inspecting", "primary", "pushed", "after", "judged" }
Places  == { "idle" } \cup PreAct \cup PostAct
Prefixes == { {}, { "checkout" }, { "checkout", "hooks" }, Readings }

RowsInDb == Rows \cup { NoRow, Moved }

TypeInv ==
  /\ parts \in [Parts -> Contents] /\ runs \in [RunIds -> RowsInDb] /\ logs \in [RunIds -> Contents]
  /\ checkout \in Files /\ hooks \in Contents
  /\ trees \in [Trees -> { Absent } \cup SUBSET TreeNames]
  /\ at \in Places
  /\ DOMAIN before \in Prefixes /\ DOMAIN after \in Prefixes /\ DOMAIN then = DOMAIN before
  /\ DOMAIN own \in SUBSET RunIds /\ \A r \in DOMAIN own : own[r] \in ActorRoles
  /\ at \in { "before", "deciding" } => DOMAIN own = {}
  /\ \A r, x \in DOMAIN own : r = x
  /\ at = "before" => ~Whole(before)
  /\ DOMAIN after # {} => Whole(before)
  /\ at \in { "idle" } \cup PreAct => DOMAIN after = {}
  /\ artifacts \subseteq { "outside" }

LEMMA NextReading ==
  ASSUME NEW read, DOMAIN read \in Prefixes, ~Whole(read)
  PROVE  /\ NextOf(read) \in Readings \ DOMAIN read
         /\ DOMAIN read \cup { NextOf(read) } \in Prefixes
  BY Zenon DEF Prefixes, Readings, NextOf, Whole

LEMMA NotedReading ==
  ASSUME NEW read, NEW what, NEW value
  PROVE  /\ DOMAIN Noted(read, what, value) = DOMAIN read \cup { what }
         /\ Noted(read, what, value)[what] = value
         /\ \A w \in DOMAIN read : w # what => Noted(read, what, value)[w] = read[w]
  BY DEF Noted

LEMMA NextNoted ==
  ASSUME NEW read, NEW value, DOMAIN read \in Prefixes, ~Whole(read)
  PROVE  /\ DOMAIN Noted(read, NextOf(read), value) = DOMAIN read \cup { NextOf(read) }
         /\ DOMAIN Noted(read, NextOf(read), value) \in Prefixes
<1>1. DOMAIN read \cup { NextOf(read) } \in Prefixes
  BY NextReading
<1>2. DOMAIN Noted(read, NextOf(read), value) = DOMAIN read \cup { NextOf(read) }
  BY NotedReading
<1> QED BY <1>1, <1>2

LEMMA NoneRead == DOMAIN Unread = {} /\ {} \in Prefixes /\ ~Whole(Unread)
  BY DEF Unread, Prefixes, Whole, Readings

LEMMA TypeInitially == WindowInit => TypeInv
<1> SUFFICES ASSUME WindowInit PROVE TypeInv
  OBVIOUS
<1>1. PICK c \in Contents :
        /\ parts = [p \in Parts |-> c] /\ logs = [r \in RunIds |-> c]
        /\ hooks = c /\ checkout \in { f \in Files : f.commit = c }
  BY DEF WindowInit
<1>2. runs \in [RunIds -> RowsInDb]
  BY DEF WindowInit, RowsInDb, Rows, ActorRoles
<1>3. before = Unread /\ after = Unread /\ then = Unread /\ DOMAIN own = {} /\ at = "idle"
  BY DEF WindowInit
<1> QED BY <1>1, <1>2, <1>3, NoneRead DEF WindowInit, TypeInv, Places

LEMMA TypeKept == TypeInv /\ [WindowNext]_windowVars => TypeInv'
<1> SUFFICES ASSUME TypeInv, [WindowNext]_windowVars PROVE TypeInv'
  OBVIOUS
<1> USE DEF TypeInv
<1>1. CASE TickBegins
  <2>1. \A r \in RunIds : Reclaimed(runs[r]) \in RowsInDb
    BY DEF Reclaimed, IsRow, Rows, RowsInDb
  <2> QED BY <1>1, <2>1, NoneRead DEF TickBegins, Blank, repo, Places, PreAct, PostAct
<1>2. CASE ReadBefore
  <2>1. ~Whole(before)
    BY <1>2 DEF ReadBefore
  <2>2. DOMAIN before' \in Prefixes /\ DOMAIN then' = DOMAIN before'
    <3>1. /\ DOMAIN before' = DOMAIN before \cup { NextOf(before) }
          /\ DOMAIN before' \in Prefixes
      BY <1>2, <2>1, NextNoted DEF ReadBefore
    <3>2. DOMAIN then' = DOMAIN then \cup { NextOf(before) }
      BY <1>2, NotedReading DEF ReadBefore
    <3> QED BY <3>1, <3>2
  <2>3. at' \in { "before", "deciding" } /\ (at' = "before" => ~Whole(before'))
    BY <1>2 DEF ReadBefore
  <2> QED BY <1>2, <2>2, <2>3 DEF ReadBefore, store, repo, Places, PreAct, PostAct
<1>3. CASE BaselineFails
  BY <1>3, NoneRead DEF BaselineFails, store, repo, Places, PreAct, PostAct
<1>4. CASE \E role \in Launched, r \in RunIds : StartRun(role, r)
  <2>1. PICK role \in Launched, r \in RunIds : StartRun(role, r)
    BY <1>4
  <2>2. [role |-> role, status |-> "starting"] \in RowsInDb
    BY WindowAssumption DEF RowsInDb, Rows
  <2>3. role \in ActorRoles
    BY WindowAssumption
  <2> QED BY <2>1, <2>2, <2>3 DEF StartRun, repo, ghosts, Places, PreAct, PostAct
<1>5. CASE NoActor
  BY <1>5 DEF NoActor, ActEnds, store, repo, locals, Places, PreAct, PostAct
<1>6. CASE \E r \in RunIds, status \in { "completed", "interrupted" }, finished \in BOOLEAN :
             FinishRun(r, status, finished)
  <2>1. PICK r \in RunIds, status \in { "completed", "interrupted" }, finished \in BOOLEAN :
          FinishRun(r, status, finished)
    BY <1>6
  <2>2. runs' \in [RunIds -> RowsInDb]
    <3>1. runs[r] \in Rows => [runs[r] EXCEPT !.status = status] \in RowsInDb
      BY DEF RowsInDb, Rows
    <3> QED BY <2>1, <3>1 DEF FinishRun
  <2>3. logs' \in [RunIds -> Contents] /\ artifacts' \subseteq { "outside" }
    BY <2>1 DEF FinishRun
  <2> QED BY <2>1, <2>2, <2>3 DEF FinishRun, ActEnds, repo, Places, PreAct, PostAct
<1>7. CASE GuardedDecision
  <2>1. UNCHANGED << parts, runs, logs, checkout, hooks, own, artifacts, then >>
    BY <1>7 DEF GuardedDecision, store, repo, ghosts
  <2>2. CASE NoBase \/ CheckDrift \/ ListRunsThrows \/ ChangedPathsThrows \/ NoBaseline \/ AfterFails \/ Compare
    BY <2>1, <2>2 DEF NoBase, CheckDrift, ListRunsThrows, ChangedPathsThrows, NoBaseline,
         AfterFails, Compare, Judge, Places, PreAct, PostAct
  <2>3. CASE LookAtPrimary \/ LookAtPushed
    <3>1. Primary \in Trees /\ "implement" \in Trees
      BY DEF Primary, Trees
    <3>2. trees' \in [Trees -> { Absent } \cup SUBSET TreeNames]
      BY <2>3, <3>1 DEF LookAtPrimary, LookAtPushed, HasChanged
    <3> QED BY <2>1, <2>3, <3>2 DEF LookAtPrimary, LookAtPushed, Places, PreAct, PostAct
  <2>4. CASE ReadAfter
    <3>1. DOMAIN after' \in Prefixes
      BY <2>4, NextNoted DEF ReadAfter
    <3> QED BY <2>1, <2>4, <3>1 DEF ReadAfter, Places, PreAct, PostAct
  <2> QED BY <1>7, <2>2, <2>3, <2>4 DEF GuardedDecision
<1>8. CASE TickEnds
  BY <1>8, NoneRead DEF TickEnds, Blank, repo, Places, PreAct, PostAct
<1>9. CASE TickLost
  BY <1>9, NoneRead DEF TickLost, Blank, store, repo, Places, PreAct, PostAct
<1>10. CASE WriteElsewhere
  BY <1>10 DEF WriteElsewhere, repo, locals, ghosts
<1>11. CASE Foreign
  <2>1. UNCHANGED << at, trees, before, after, then, own, artifacts >>
    BY <1>11 DEF Foreign, RewritePart, RewriteRun, RewriteLog, RewriteHooks, WriteCheckout, Writes,
         locals
  <2>2. parts' \in [Parts -> Contents] /\ runs' \in [RunIds -> RowsInDb] /\ logs' \in [RunIds -> Contents]
    BY <1>11 DEF Foreign, RewritePart, RewriteRun, RewriteLog, RewriteHooks, WriteCheckout,
         RowsInDb
  <2>3. checkout' \in Files /\ hooks' \in Contents
    BY <1>11 DEF Foreign, RewritePart, RewriteRun, RewriteLog, RewriteHooks, WriteCheckout, repo,
         Files
  <2> QED BY <2>1, <2>2, <2>3
<1>12. CASE UNCHANGED windowVars
  BY <1>12 DEF windowVars, store, repo, locals, ghosts
<1> QED BY <1>1, <1>2, <1>3, <1>4, <1>5, <1>6, <1>7, <1>8, <1>9, <1>10, <1>11, <1>12 DEF WindowNext

-----------------------------------------------------------------------------
(* As long as nobody else has written, whatever was read is what would be  *)
(* read now, although the controller has written its own Run since: the    *)
(* digest leaves out a Run that there was not.                             *)
Guilty == (\E t \in Trees : Faulty(t)) \/ Violations(artifacts, "worktree") # {}

QuietInv ==
  ~touched /\ at # "idle" =>
    /\ \A what \in DOMAIN before : before[what] = Observed(what)
    /\ \A what \in DOMAIN after : after[what] = Observed(what)
    /\ ~OwnRunDrift
    /\ at = "judged" /\ verdict = "protected_path_touched" => Guilty

LEMMA SameObserved ==
  ASSUME UNCHANGED << parts, checkout, hooks >>,
         Projected(DOMAIN own)' = Projected(DOMAIN own),
         ReviewLogs(DOMAIN own)' = ReviewLogs(DOMAIN own)
  PROVE  \A what : Observed(what)' = Observed(what)
  BY DEF Observed, RepoDirtyState, GuardDigest

LEMMA StillObserved ==
  ASSUME UNCHANGED << parts, runs, logs, checkout, hooks, own >>
  PROVE  /\ \A what : Observed(what)' = Observed(what)
         /\ OwnRunDrift' = OwnRunDrift
<1>1. /\ Projected(DOMAIN own)' = Projected(DOMAIN own)
      /\ ReviewLogs(DOMAIN own)' = ReviewLogs(DOMAIN own)
  BY DEF Projected, ReviewLogs
<1>2. \A what : Observed(what)' = Observed(what)
  BY <1>1, SameObserved
<1> QED BY <1>2 DEF OwnRunDrift

LEMMA OwnRunLeftOut ==
  ASSUME NEW r \in RunIds, TypeInv, TypeInv', UNCHANGED << parts, checkout, hooks >>,
         \A x \in RunIds \ { r } : runs'[x] = runs[x] /\ logs'[x] = logs[x],
         DOMAIN own' = { r },
         DOMAIN own = { r } \/ (DOMAIN own = {} /\ runs[r] = NoRow)
  PROVE  \A what : Observed(what)' = Observed(what)
<1>1. \A x \in RunIds : x \notin DOMAIN own' <=> x # r
  OBVIOUS
<1>2. \A x \in RunIds : x \notin DOMAIN own /\ IsRow(runs[x]) <=> x # r /\ IsRow(runs[x])
  BY DEF IsRow
<1>3. \A x \in RunIds : x # r => IsRow(runs'[x]) = IsRow(runs[x]) /\ IsReview(runs'[x]) = IsReview(runs[x])
  BY DEF IsReview, IsRow
<1>4. Projected(DOMAIN own)' = Projected(DOMAIN own)
  BY <1>1, <1>2, <1>3 DEF Projected
<1>5. ReviewLogs(DOMAIN own)' = ReviewLogs(DOMAIN own)
  BY <1>1, <1>2, <1>3 DEF ReviewLogs, IsReview
<1> QED BY <1>4, <1>5, SameObserved

LEMMA NothingToReport ==
  ASSUME TypeInv, Whole(before), Whole(after),
         \A what \in DOMAIN before : before[what] = Observed(what),
         \A what \in DOMAIN after : after[what] = Observed(what),
         Violations(Edited, "worktree") \cup Violations(Escaped, "repo_root") # {}
  PROVE  Guilty
<1>1. Escaped = {}
  BY DEF Escaped, Whole
<1>2. PICK n \in Edited : n # ".goals/.state"
  BY <1>1 DEF Violations
<1>3. CASE n \in artifacts
  BY <1>2, <1>3 DEF Guilty, Violations
<1>4. CASE \E t \in Trees : trees[t] # Absent /\ n \in trees[t]
  BY <1>2, <1>4 DEF Guilty, Violations, Faulty
<1> QED BY <1>2, <1>3, <1>4 DEF Edited

LEMMA QuietInitially == WindowInit => QuietInv
  BY DEF WindowInit, QuietInv

LEMMA QuietKept == TypeInv /\ TypeInv' /\ QuietInv /\ [WindowNext]_windowVars => QuietInv'
<1> SUFFICES ASSUME TypeInv, TypeInv', QuietInv, [WindowNext]_windowVars PROVE QuietInv'
  OBVIOUS
<1>1. CASE TickBegins
  <2>1. DOMAIN before' = {} /\ DOMAIN after' = {} /\ DOMAIN own' = {} /\ at' = "before"
    BY <1>1, NoneRead DEF TickBegins, Blank
  <2> QED BY <2>1 DEF QuietInv, OwnRunDrift
<1>2. CASE ReadBefore
  <2>1. \A what : Observed(what)' = Observed(what)
    BY <1>2, StillObserved DEF ReadBefore, store, repo
  <2>2. UNCHANGED << touched, after, own, runs >> /\ at = "before" /\ at' \in { "before", "deciding" }
    BY <1>2 DEF ReadBefore, store
  <2>3. OwnRunDrift' = OwnRunDrift
    BY <2>2 DEF OwnRunDrift
  <2>4. /\ DOMAIN before' = DOMAIN before \cup { NextOf(before) }
        /\ before'[NextOf(before)] = Observed(NextOf(before))
        /\ \A w \in DOMAIN before : w # NextOf(before) => before'[w] = before[w]
    <3> DEFINE w == NextOf(before)
    <3> DEFINE value == Observed(w)
    <3>1. before' = Noted(before, w, value)
      BY <1>2 DEF ReadBefore
    <3> HIDE DEF w, value
    <3>2. /\ DOMAIN before' = DOMAIN before \cup { w }
          /\ before'[w] = value
          /\ \A x \in DOMAIN before : x # w => before'[x] = before[x]
      BY <3>1 DEF Noted
    <3> QED BY <3>2 DEF w, value
  <2> QED BY <2>1, <2>2, <2>3, <2>4 DEF QuietInv
<1>3. CASE BaselineFails
  <2>1. \A what : Observed(what)' = Observed(what)
    BY <1>3, StillObserved DEF BaselineFails, store, repo
  <2>2. UNCHANGED << touched, after, own, runs >> /\ at = "before" /\ at' = "deciding" /\ DOMAIN before' = {}
    BY <1>3, NoneRead DEF BaselineFails, store
  <2>3. OwnRunDrift' = OwnRunDrift
    BY <2>2 DEF OwnRunDrift
  <2> QED BY <2>1, <2>2, <2>3 DEF QuietInv
<1>4. CASE \E role \in Launched, r \in RunIds : StartRun(role, r)
  <2>1. PICK role \in Launched, r \in RunIds : StartRun(role, r)
    BY <1>4
  <2>2. \A what : Observed(what)' = Observed(what)
    BY <2>1, OwnRunLeftOut DEF StartRun, repo, TypeInv
  <2>3. ~OwnRunDrift'
    <3>1. DOMAIN own' = { r } /\ own'[r] = role /\ runs'[r] = [role |-> role, status |-> "starting"]
      BY <2>1 DEF StartRun, TypeInv
    <3>2. runs'[r] \in Rows
      BY <3>1, WindowAssumption DEF Rows
    <3> QED BY <3>1, <3>2, WindowAssumption DEF OwnRunDrift, IsRow
  <2> QED BY <2>1, <2>2, <2>3 DEF StartRun, ghosts, QuietInv
<1>5. CASE NoActor
  <2>1. \A what : Observed(what)' = Observed(what)
    BY <1>5, StillObserved DEF NoActor, store, repo, locals
  <2>2. UNCHANGED << touched, before, after, own, runs >> /\ at = "deciding" /\ at' = "inspecting"
    BY <1>5 DEF NoActor, ActEnds, store, locals
  <2> QED BY <2>1, <2>2 DEF QuietInv, OwnRunDrift
<1>6. CASE \E r \in RunIds, status \in { "completed", "interrupted" }, finished \in BOOLEAN :
             FinishRun(r, status, finished)
  <2>1. PICK r \in RunIds, status \in { "completed", "interrupted" }, finished \in BOOLEAN :
          FinishRun(r, status, finished)
    BY <1>6
  <2>2. UNCHANGED << touched, before, after, own, parts, checkout, hooks >> /\ at = "acting" /\ at' = "inspecting"
    BY <2>1 DEF FinishRun, ActEnds, repo
  <2>3. r \in DOMAIN own /\ \A x \in RunIds \ { r } : runs'[x] = runs[x] /\ logs'[x] = logs[x]
    BY <2>1 DEF FinishRun, TypeInv
  <2>4. DOMAIN own = { r }
    BY <2>2, <2>3 DEF TypeInv
  <2>5. \A what : Observed(what)' = Observed(what)
    BY <2>2, <2>3, <2>4, OwnRunLeftOut
  <2>6. IsRow(runs[r]) => IsRow(runs'[r]) /\ runs'[r].role = runs[r].role
    <3>1. CASE runs'[r] = runs[r]
      BY <3>1
    <3>2. CASE runs[r] \in Rows /\ runs'[r] = [runs[r] EXCEPT !.status = status]
      <4>1. runs'[r] \in Rows /\ runs'[r].role = runs[r].role
        BY <3>2 DEF Rows
      <4> QED BY <4>1, WindowAssumption DEF IsRow
    <3> QED BY <2>1, <3>1, <3>2 DEF FinishRun, TypeInv
  <2> QED BY <2>2, <2>4, <2>5, <2>6 DEF QuietInv, OwnRunDrift
<1>7. CASE GuardedDecision
  <2>1. /\ UNCHANGED << parts, runs, logs, checkout, hooks, own, artifacts, touched >>
        /\ at \in PostAct \ { "judged" } /\ at' \in PostAct
    BY <1>7 DEF GuardedDecision, store, repo, ghosts, NoBase, CheckDrift, ListRunsThrows,
         LookAtPrimary, LookAtPushed, ChangedPathsThrows, NoBaseline, ReadAfter, AfterFails, Compare,
         Judge, PostAct
  <2>2. /\ \A what : Observed(what)' = Observed(what)
        /\ OwnRunDrift' = OwnRunDrift
    BY <2>1, StillObserved
  <2>3. CASE NoBase \/ ListRunsThrows \/ ChangedPathsThrows \/ NoBaseline \/ AfterFails
    BY <2>1, <2>2, <2>3 DEF NoBase, ListRunsThrows, ChangedPathsThrows, NoBaseline, AfterFails, Judge,
         QuietInv, PostAct
  <2>4. CASE CheckDrift
    BY <2>1, <2>2, <2>4 DEF CheckDrift, Judge, QuietInv, PostAct
  <2>5. CASE LookAtPrimary \/ LookAtPushed
    BY <2>1, <2>2, <2>5 DEF LookAtPrimary, LookAtPushed, QuietInv, PostAct
  <2>6. CASE ReadAfter
    <3>1. /\ DOMAIN after' = DOMAIN after \cup { NextOf(after) }
          /\ after'[NextOf(after)] = Observed(NextOf(after))
          /\ \A w \in DOMAIN after : w # NextOf(after) => after'[w] = after[w]
      <4> DEFINE w == NextOf(after)
      <4> DEFINE value == Observed(w)
      <4>1. after' = Noted(after, w, value)
        BY <2>6 DEF ReadAfter
      <4> HIDE DEF w, value
      <4>2. /\ DOMAIN after' = DOMAIN after \cup { w }
            /\ after'[w] = value
            /\ \A x \in DOMAIN after : x # w => after'[x] = after[x]
        BY <4>1 DEF Noted
      <4> QED BY <4>2 DEF w, value
    <3>2. at = "after" /\ at' = "after" /\ before' = before
      BY <2>6 DEF ReadAfter
    <3> QED BY <2>1, <2>2, <3>1, <3>2 DEF QuietInv
  <2>7. CASE Compare
    <3>1. UNCHANGED << trees, before, after >> /\ at = "after" /\ Whole(after)
      BY <2>7 DEF Compare
    <3>2. ~touched /\ verdict' = "protected_path_touched" => Guilty
      <4> SUFFICES ASSUME ~touched, verdict' = "protected_path_touched" PROVE Guilty
        OBVIOUS
      <4>1. Violations(Edited, "worktree") \cup Violations(Escaped, "repo_root") # {}
        BY <2>7 DEF Compare, Judge
      <4>2. Whole(before)
        BY <3>1 DEF TypeInv, Whole, Readings
      <4>3. /\ \A what \in DOMAIN before : before[what] = Observed(what)
            /\ \A what \in DOMAIN after : after[what] = Observed(what)
        BY <3>1 DEF QuietInv
      <4> QED BY <3>1, <4>1, <4>2, <4>3, NothingToReport
    <3>3. Guilty' = Guilty
      BY <2>1, <3>1 DEF Guilty, Faulty
    <3> QED BY <2>1, <2>2, <3>1, <3>2, <3>3 DEF QuietInv, PostAct
  <2> QED BY <1>7, <2>3, <2>4, <2>5, <2>6, <2>7 DEF GuardedDecision
<1>8. CASE TickEnds \/ TickLost
  BY <1>8 DEF TickEnds, TickLost, QuietInv
<1>9. CASE WriteElsewhere
  <2>1. /\ \A what : Observed(what)' = Observed(what)
        /\ OwnRunDrift' = OwnRunDrift
    BY <1>9, StillObserved DEF WriteElsewhere, repo, locals
  <2> QED BY <1>9, <2>1 DEF WriteElsewhere, QuietInv, Guilty, Faulty, locals, ghosts
<1>10. CASE Foreign
  BY <1>10 DEF Foreign, RewritePart, RewriteRun, RewriteLog, RewriteHooks, WriteCheckout, Writes, QuietInv
<1>11. CASE UNCHANGED windowVars
  <2>1. /\ \A what : Observed(what)' = Observed(what)
        /\ OwnRunDrift' = OwnRunDrift
    BY <1>11, StillObserved DEF windowVars, store, repo, locals
  <2> QED BY <1>11, <2>1 DEF windowVars, QuietInv, Guilty, Faulty, locals, ghosts
<1> QED BY <1>1, <1>2, <1>3, <1>4, <1>5, <1>6, <1>7, <1>8, <1>9, <1>10, <1>11 DEF WindowNext

-----------------------------------------------------------------------------
(* What stands changed differs from what there was at the baseline, and so *)
(* does its reading from the baseline's, now and once it has been read     *)
(* again; all but the tick's own Run, which has a check of its own.        *)
DirtyOf(f) ==
  IF f.hidden THEN "index-hidden" ELSE IF f.disk # f.commit THEN f.disk ELSE Absent

DigestOf(db) ==
  << db.parts, { << r, db.runs[r] >> : r \in { x \in RunIds : IsRow(db.runs[x]) } },
     { << r, db.logs[r] >> : r \in { x \in RunIds : IsReview(db.runs[x]) } } >>

ThenInv ==
  /\ "checkout" \in DOMAIN then =>
       then["checkout"] \in Files /\ before["checkout"] = DirtyOf(then["checkout"])
  /\ "hooks" \in DOMAIN then => before["hooks"] = then["hooks"]
  /\ "store" \in DOMAIN then => before["store"] = DigestOf(then["store"])

Drifted(r) == ~IsRow(runs[r]) \/ runs[r].role # own[r]

Differs(kind, what) ==
  CASE kind = "part" -> what \in Parts /\ parts[what] # then["store"].parts[what]
    [] kind = "run"  ->
         IF what \in DOMAIN own THEN Drifted(what)
         ELSE what \in RunIds /\ ToUs(runs[what]) # ToUs(then["store"].runs[what])
    [] kind = "log"  -> /\ what \in RunIds \ DOMAIN own /\ IsReview(then["store"].runs[what])
                        /\ logs[what] # then["store"].logs[what]
    [] kind = "repo" -> \/ what = "hooks" /\ hooks # then["hooks"]
                        \/ what = "checkout" /\ CheckoutChanged(then["checkout"])

Kinds == { "part", "run", "log", "repo" }
Where(kind, what) == IF kind = "repo" THEN what ELSE "store"

SlipInv ==
  /\ ThenInv
  /\ standing # {} => Whole(before) /\ at \in PostAct
  /\ \A s \in standing : \E kind \in Kinds : \E what : s = << kind, what >>
  /\ \A kind \in Kinds : \A what : << kind, what >> \in standing =>
       /\ Differs(kind, what) /\ Where(kind, what) \in Readings
       /\ Where(kind, what) \in DOMAIN after =>
            after[Where(kind, what)] # before[Where(kind, what)]
       /\ at \in { "primary", "pushed", "after" } /\ kind = "run" => what \notin DOMAIN own
  /\ at = "pushed" => trees[Primary] # Absent
  /\ at = "after" => trees[Primary] # Absent /\ trees["implement"] # Absent

LEMMA ChangeIsRead ==
  ASSUME TypeInv, ThenInv, Whole(before), NEW kind \in Kinds, NEW what, Differs(kind, what),
         kind = "run" => what \notin DOMAIN own
  PROVE  /\ Where(kind, what) \in Readings
         /\ Observed(Where(kind, what)) # before[Where(kind, what)]
<1>0. DOMAIN then = Readings
  BY DEF TypeInv, Whole
<1> DEFINE db == then["store"]
<1>s. before["store"] = DigestOf(db)
  BY <1>0 DEF ThenInv, Readings
<1>1. CASE kind = "part"
  <2>1. parts # db.parts
    BY <1>1 DEF Differs
  <2> QED BY <1>1, <1>s, <2>1 DEF Where, Readings, Observed, GuardDigest, DigestOf
<1>2. CASE kind = "run"
  <2> DEFINE now == Projected(DOMAIN own)
  <2> DEFINE was == { << r, db.runs[r] >> : r \in { x \in RunIds : IsRow(db.runs[x]) } }
  <2>1. what \in RunIds \ DOMAIN own /\ ToUs(runs[what]) # ToUs(db.runs[what])
    BY <1>2 DEF Differs
  <2>2. ASSUME IsRow(runs[what]) PROVE now # was
    <3>1. << what, runs[what] >> \in now
      BY <2>1, <2>2 DEF Projected
    <3>2. << what, runs[what] >> \notin was
      BY <2>1, <2>2 DEF ToUs
    <3> QED BY <3>1, <3>2
  <2>3. ASSUME ~IsRow(runs[what]) PROVE now # was
    <3>1. IsRow(db.runs[what])
      BY <2>1, <2>3 DEF ToUs
    <3>2. << what, db.runs[what] >> \in was
      BY <2>1, <3>1
    <3>3. << what, db.runs[what] >> \notin now
      BY <2>3 DEF Projected
    <3> QED BY <3>2, <3>3
  <2>4. now # was
    BY <2>2, <2>3
  <2> QED BY <1>2, <1>s, <2>4 DEF Where, Readings, Observed, GuardDigest, DigestOf
<1>3. CASE kind = "log"
  <2> DEFINE now == ReviewLogs(DOMAIN own)
  <2> DEFINE was == { << r, db.logs[r] >> : r \in { x \in RunIds : IsReview(db.runs[x]) } }
  <2>1. what \in RunIds /\ IsReview(db.runs[what]) /\ logs[what] # db.logs[what]
    BY <1>3 DEF Differs
  <2>2. << what, db.logs[what] >> \in was
    BY <2>1
  <2>3. << what, db.logs[what] >> \notin now
    BY <2>1 DEF ReviewLogs
  <2>4. now # was
    BY <2>2, <2>3
  <2> QED BY <1>3, <1>s, <2>4 DEF Where, Readings, Observed, GuardDigest, DigestOf
<1>4. CASE kind = "repo" /\ what = "hooks"
  BY <1>0, <1>4 DEF Differs, Where, Readings, Observed, ThenInv
<1>5. CASE kind = "repo" /\ what = "checkout"
  <2>1. CheckoutChanged(then["checkout"]) /\ then["checkout"] \in Files
    BY <1>0, <1>5 DEF Differs, ThenInv, Readings
  <2>2. RepoDirtyState # DirtyOf(then["checkout"])
    BY <2>1, WindowAssumption DEF CheckoutChanged, RepoDirtyState, DirtyOf, Files, TypeInv
  <2> QED BY <1>0, <1>5, <2>2 DEF Where, Readings, Observed, ThenInv
<1> QED BY <1>1, <1>2, <1>3, <1>4, <1>5 DEF Differs, Kinds

LEMMA BaselineKept == TypeInv /\ ThenInv /\ [WindowNext]_windowVars => ThenInv'
<1> SUFFICES ASSUME TypeInv, ThenInv, [WindowNext]_windowVars PROVE ThenInv'
  OBVIOUS
<1>1. CASE DOMAIN then' = {}
  BY <1>1 DEF ThenInv
<1>2. CASE UNCHANGED << before, then >>
  BY <1>2 DEF ThenInv
<1>3. CASE ReadBefore
  <2> DEFINE w == NextOf(before)
  <2> DEFINE value == Observed(w)
  <2> DEFINE there == There(w)
  <2>1. DOMAIN own = {} /\ DOMAIN then = DOMAIN before /\ checkout \in Files
    BY <1>3 DEF ReadBefore, TypeInv
  <2>2. w = "checkout" => there \in Files /\ value = DirtyOf(there)
    BY <2>1 DEF There, Observed, DirtyOf, RepoDirtyState
  <2>3. w = "hooks" => value = there
    BY DEF There, Observed
  <2>4. w = "store" => value = DigestOf(there)
    <3>1. RunIds \ DOMAIN own = RunIds
      BY <2>1
    <3> QED BY <3>1 DEF There, Observed, GuardDigest, Projected, ReviewLogs, DigestOf
  <2>5. before' = Noted(before, w, value) /\ then' = Noted(then, w, there)
    BY <1>3 DEF ReadBefore
  <2> HIDE DEF w, value, there
  <2>6. /\ DOMAIN then' = DOMAIN then \cup { w } /\ before'[w] = value /\ then'[w] = there
        /\ \A x \in DOMAIN then : x # w => before'[x] = before[x] /\ then'[x] = then[x]
    BY <2>1, <2>5 DEF Noted
  <2> QED BY <2>2, <2>3, <2>4, <2>6 DEF ThenInv
<1>4. CASE TickBegins \/ BaselineFails \/ TickEnds \/ TickLost
  BY <1>1, <1>4, NoneRead DEF TickBegins, BaselineFails, TickEnds, TickLost, Blank
<1>5. CASE GuardedDecision
  <2>1. UNCHANGED << before, then >>
    BY <1>5 DEF GuardedDecision, ghosts, NoBase, CheckDrift, ListRunsThrows, LookAtPrimary,
         LookAtPushed, ChangedPathsThrows, NoBaseline, ReadAfter, AfterFails, Compare
  <2> QED BY <1>2, <2>1
<1>6. CASE Foreign
  BY <1>2, <1>6 DEF Foreign, RewritePart, RewriteRun, RewriteLog, RewriteHooks, WriteCheckout, Writes,
       locals
<1>7. CASE \/ \E role \in Launched, r \in RunIds : StartRun(role, r)
           \/ NoActor \/ WriteElsewhere
           \/ \E r \in RunIds, status \in { "completed", "interrupted" }, finished \in BOOLEAN :
                FinishRun(r, status, finished)
           \/ UNCHANGED windowVars
  BY <1>2, <1>7 DEF StartRun, NoActor, WriteElsewhere, FinishRun, windowVars, locals, ghosts
<1> QED BY <1>3, <1>4, <1>5, <1>6, <1>7 DEF WindowNext

(* ACT is over: what stands is what has changed, each under its kind.      *)
LEMMA StandingAtEnd ==
  ASSUME TypeInv, TypeInv', ThenInv, ActEnds, DOMAIN after = {},
         UNCHANGED << parts, checkout, hooks, before, after, own, then >>,
         NEW s \in standing'
  PROVE  /\ Whole(before)
         /\ \E kind \in Kinds : \E what :
              s = << kind, what >> /\ Differs(kind, what)' /\ Where(kind, what) \in Readings
<1>1. Whole(before) /\ s \in Changed
  BY DEF ActEnds
<1> DEFINE db == then["store"]
<1>2. CASE s \in { "part" } \X { p \in Parts : parts[p] # db.parts[p] }
  <2>1. PICK p \in Parts : s = << "part", p >> /\ parts[p] # db.parts[p]
    BY <1>2
  <2>2. Differs("part", p)'
    BY <2>1 DEF Differs
  <2> QED BY <1>1, <2>1, <2>2 DEF Kinds, Where, Readings
<1>3. CASE s \in { "run" } \X ChangedRuns(db)
  <2>1. PICK r \in ChangedRuns(db) : s = << "run", r >>
    BY <1>3
  <2>2. Differs("run", r)'
    BY <2>1 DEF ChangedRuns, Differs, Drifted, ToUs, IsRow
  <2> QED BY <1>1, <2>1, <2>2 DEF Kinds, Where, Readings
<1>4. CASE s \in { "log" } \X ChangedLogs(db)
  <2>1. PICK r \in ChangedLogs(db) : s = << "log", r >>
    BY <1>4
  <2>2. Differs("log", r)'
    BY <2>1 DEF ChangedLogs, Differs
  <2> QED BY <1>1, <2>1, <2>2 DEF Kinds, Where, Readings
<1>5. CASE s \in { "repo" } \X { x \in { "hooks" } : hooks # then["hooks"] }
  <2>1. s = << "repo", "hooks" >> /\ hooks # then["hooks"]
    BY <1>5
  <2>2. Differs("repo", "hooks")'
    BY <2>1 DEF Differs
  <2> QED BY <1>1, <2>1, <2>2 DEF Kinds, Where, Readings
<1>6. CASE s \in { "repo" } \X { x \in { "checkout" } : CheckoutChanged(then["checkout"]) }
  <2>1. s = << "repo", "checkout" >> /\ CheckoutChanged(then["checkout"])
    BY <1>6
  <2>2. Differs("repo", "checkout")'
    BY <2>1 DEF Differs, CheckoutChanged
  <2> QED BY <1>1, <2>1, <2>2 DEF Kinds, Where, Readings
<1> QED BY <1>1, <1>2, <1>3, <1>4, <1>5, <1>6 DEF Changed

LEMMA DiffersStill ==
  ASSUME UNCHANGED << parts, runs, logs, checkout, hooks, own, then >>
  PROVE  \A kind, what : Differs(kind, what)' = Differs(kind, what)
  BY DEF Differs, Drifted, ToUs, IsRow, IsReview, CheckoutChanged

LEMMA SlipInitially == WindowInit => SlipInv
  BY NoneRead DEF WindowInit, SlipInv, ThenInv

(* A write by somebody else changes one thing, and no longer blames ACT    *)
(* for it: everything else that stands still differs.                      *)
LEMMA OthersStillDiffer ==
  ASSUME TypeInv, Foreign, NEW kind \in Kinds, NEW what,
         << kind, what >> \in standing', Differs(kind, what)
  PROVE  Differs(kind, what)'
<1>0. UNCHANGED << own, then >>
  BY DEF Foreign, RewritePart, RewriteRun, RewriteLog, RewriteHooks, WriteCheckout, Writes, locals
<1>1. ASSUME NEW p \in Parts, RewritePart(p) PROVE Differs(kind, what)'
  <2>1. kind = "part" => what # p
    BY <1>1 DEF RewritePart, Writes
  <2>2. UNCHANGED << runs, logs, checkout, hooks >> /\ \A q \in Parts \ { p } : parts'[q] = parts[q]
    BY <1>1 DEF RewritePart, repo, TypeInv
  <2> QED BY <1>0, <2>1, <2>2 DEF Differs, Drifted, ToUs, IsRow, IsReview, CheckoutChanged, Kinds
<1>2. ASSUME NEW r \in RunIds, RewriteRun(r) PROVE Differs(kind, what)'
  <2>1. kind = "run" => what # r
    BY <1>2 DEF RewriteRun, Writes
  <2>2. UNCHANGED << parts, logs, checkout, hooks >> /\ \A x \in RunIds \ { r } : runs'[x] = runs[x]
    BY <1>2 DEF RewriteRun, repo, TypeInv
  <2>3. DOMAIN own \subseteq RunIds
    BY DEF TypeInv
  <2> QED BY <1>0, <2>1, <2>2, <2>3 DEF Differs, Drifted, ToUs, IsRow, IsReview, CheckoutChanged, Kinds
<1>3. ASSUME NEW r \in RunIds, RewriteLog(r) PROVE Differs(kind, what)'
  <2>1. kind = "log" => what # r
    BY <1>3 DEF RewriteLog, Writes
  <2>2. UNCHANGED << parts, runs, checkout, hooks >> /\ \A x \in RunIds \ { r } : logs'[x] = logs[x]
    BY <1>3 DEF RewriteLog, repo, TypeInv
  <2> QED BY <1>0, <2>1, <2>2 DEF Differs, Drifted, ToUs, IsRow, IsReview, CheckoutChanged, Kinds
<1>4. ASSUME RewriteHooks PROVE Differs(kind, what)'
  <2>1. kind = "repo" => what # "hooks"
    BY <1>4 DEF RewriteHooks, Writes
  <2>2. UNCHANGED << parts, runs, logs, checkout >>
    BY <1>4 DEF RewriteHooks
  <2> QED BY <1>0, <2>1, <2>2 DEF Differs, Drifted, ToUs, IsRow, IsReview, CheckoutChanged, Kinds
<1>5. ASSUME WriteCheckout PROVE Differs(kind, what)'
  <2>1. kind = "repo" => what # "checkout"
    BY <1>5 DEF WriteCheckout, Writes
  <2>2. UNCHANGED << parts, runs, logs, hooks >>
    BY <1>5 DEF WriteCheckout
  <2> QED BY <1>0, <2>1, <2>2 DEF Differs, Drifted, ToUs, IsRow, IsReview, Kinds
<1> QED BY <1>1, <1>2, <1>3, <1>4, <1>5 DEF Foreign

LEMMA SlipKept == TypeInv /\ TypeInv' /\ SlipInv /\ [WindowNext]_windowVars => SlipInv'
<1> SUFFICES ASSUME TypeInv, TypeInv', SlipInv, [WindowNext]_windowVars PROVE SlipInv'
  OBVIOUS
<1>0. ThenInv /\ ThenInv'
  BY BaselineKept DEF SlipInv
<1>1. CASE TickBegins \/ TickEnds \/ TickLost
  <2>1. standing' = {} /\ at' \notin { "pushed", "after" }
    BY <1>1 DEF TickBegins, TickEnds, TickLost, Blank
  <2> QED BY <1>0, <2>1 DEF SlipInv
<1>2. CASE ReadBefore \/ BaselineFails \/ \E role \in Launched, r \in RunIds : StartRun(role, r)
  <2>1. standing' = standing /\ at \in PreAct /\ at' \in PreAct
    BY <1>2 DEF ReadBefore, BaselineFails, StartRun, ghosts, PreAct
  <2>2. standing' = {} /\ at' \notin { "pushed", "after" }
    BY <2>1 DEF SlipInv, PreAct, PostAct
  <2> QED BY <1>0, <2>2 DEF SlipInv
<1>3. CASE NoActor \/ \E r \in RunIds, status \in { "completed", "interrupted" }, finished \in BOOLEAN :
             FinishRun(r, status, finished)
  <2>1. /\ UNCHANGED << parts, checkout, hooks, before, after, own, then >>
        /\ ActEnds /\ at \in PreAct /\ at' = "inspecting"
    BY <1>3 DEF NoActor, FinishRun, ActEnds, store, repo, locals, PreAct
  <2>2. DOMAIN after = {} /\ DOMAIN after' = {}
    BY <2>1 DEF TypeInv
  <2>3. \A s \in standing' :
          /\ Whole(before)
          /\ \E kind \in Kinds : \E what :
               s = << kind, what >> /\ Differs(kind, what)' /\ Where(kind, what) \in Readings
    BY <1>0, <2>1, <2>2, StandingAtEnd
  <2>4. \A kind \in Kinds : \A what : << kind, what >> \in standing' =>
          Differs(kind, what)' /\ Where(kind, what) \in Readings
    BY <2>3
  <2>5. standing' # {} => Whole(before')
    BY <2>1, <2>3
  <2> QED BY <1>0, <2>1, <2>2, <2>3, <2>4, <2>5 DEF SlipInv, PostAct, Where
<1>4. CASE GuardedDecision
  <2>1. /\ UNCHANGED << parts, runs, logs, checkout, hooks, own, then, standing, before >>
        /\ at \in PostAct /\ at' \in PostAct
    BY <1>4 DEF GuardedDecision, store, repo, ghosts, NoBase, CheckDrift, ListRunsThrows,
         LookAtPrimary, LookAtPushed, ChangedPathsThrows, NoBaseline, ReadAfter, AfterFails, Compare,
         Judge, PostAct
  <2>2. \A kind, what : Differs(kind, what)' = Differs(kind, what)
    BY <2>1, DiffersStill
  <2>3. Primary' = Primary /\ Primary \in Trees /\ "implement" \in Trees
    BY <2>1 DEF Primary, TreeOf, Trees
  <2>4. CASE NoBase \/ ListRunsThrows \/ ChangedPathsThrows \/ NoBaseline \/ AfterFails \/ Compare
    <3>1. at' = "judged" /\ UNCHANGED after
      BY <2>4 DEF NoBase, ListRunsThrows, ChangedPathsThrows, NoBaseline, AfterFails, Compare, Judge
    <3> QED BY <1>0, <2>1, <2>2, <3>1 DEF SlipInv, Where, Whole
  <2>5. CASE CheckDrift
    <3>1. UNCHANGED after /\ at' \in { "judged", "primary" } /\ (at' = "primary" => ~OwnRunDrift)
      BY <2>5 DEF CheckDrift, Judge
    <3>2. ASSUME ~OwnRunDrift, NEW what, << "run", what >> \in standing PROVE what \notin DOMAIN own
      BY <3>2 DEF SlipInv, Differs, Drifted, OwnRunDrift, Kinds
    <3> QED BY <1>0, <2>1, <2>2, <3>1, <3>2 DEF SlipInv, Where, Whole
  <2>6. CASE LookAtPrimary
    <3>1. /\ UNCHANGED after /\ at = "primary" /\ at' \in { "pushed", "after" }
          /\ at' = "after" => Primary = "implement"
      BY <2>6 DEF LookAtPrimary
    <3>2. trees'[Primary] # Absent
      BY <2>3, <2>6, WindowAssumption DEF LookAtPrimary, HasChanged, TypeInv
    <3> QED BY <1>0, <2>1, <2>2, <2>3, <3>1, <3>2 DEF SlipInv, Where, Whole
  <2>7. CASE LookAtPushed
    <3>1. UNCHANGED after /\ at = "pushed" /\ at' = "after"
      BY <2>7 DEF LookAtPushed
    <3>2. trees'["implement"] # Absent /\ trees'[Primary] # Absent
      BY <2>3, <2>7, <3>1, WindowAssumption DEF LookAtPushed, HasChanged, TypeInv, SlipInv
    <3> QED BY <1>0, <2>1, <2>2, <2>3, <3>1, <3>2 DEF SlipInv, Where, Whole
  <2>8. CASE ReadAfter
    <3> DEFINE w == NextOf(after)
    <3> DEFINE value == Observed(w)
    <3>1. /\ at = "after" /\ at' = "after" /\ UNCHANGED trees /\ Whole(before)
          /\ after' = Noted(after, w, value)
      BY <2>8 DEF ReadAfter
    <3>2. ASSUME NEW kind \in Kinds, NEW what, << kind, what >> \in standing
          PROVE  Observed(Where(kind, what)) # before[Where(kind, what)]
      <4>1. Differs(kind, what) /\ (kind = "run" => what \notin DOMAIN own)
        BY <3>1, <3>2 DEF SlipInv
      <4> QED BY <1>0, <3>1, <4>1, ChangeIsRead
    <3>3. value = Observed(w)
      OBVIOUS
    <3> HIDE DEF w, value
    <3>4. /\ DOMAIN after' = DOMAIN after \cup { w } /\ after'[w] = value
          /\ \A x \in DOMAIN after : x # w => after'[x] = after[x]
      BY <3>1 DEF Noted
    <3>5. \A kind \in Kinds : \A what : << kind, what >> \in standing =>
            (Where(kind, what) \in DOMAIN after' =>
               after'[Where(kind, what)] # before[Where(kind, what)])
      BY <3>2, <3>3, <3>4 DEF SlipInv
    <3> QED BY <1>0, <2>1, <2>2, <2>3, <3>1, <3>5 DEF SlipInv, Where, Whole
  <2> QED BY <1>4, <2>4, <2>5, <2>6, <2>7, <2>8 DEF GuardedDecision
<1>5. CASE Foreign
  <2>1. UNCHANGED << at, trees, before, after, own >> /\ standing' \subseteq standing
    BY <1>5 DEF Foreign, RewritePart, RewriteRun, RewriteLog, RewriteHooks, WriteCheckout, Writes, locals
  <2>2. \A kind \in Kinds : \A what : << kind, what >> \in standing' => Differs(kind, what)'
    BY <1>5, <2>1, OthersStillDiffer DEF SlipInv
  <2>3. Primary' = Primary
    BY <2>1 DEF Primary, TreeOf
  <2> QED BY <1>0, <2>1, <2>2, <2>3 DEF SlipInv, Where, Whole
<1>6. CASE WriteElsewhere \/ UNCHANGED windowVars
  <2>1. UNCHANGED << parts, runs, logs, checkout, hooks, own, then, at, trees, before, after, standing >>
    BY <1>6 DEF WriteElsewhere, windowVars, store, repo, locals, ghosts
  <2>2. \A kind, what : Differs(kind, what)' = Differs(kind, what)
    BY <2>1, DiffersStill
  <2>3. Primary' = Primary
    BY <2>1 DEF Primary, TreeOf
  <2> QED BY <1>0, <2>1, <2>2, <2>3 DEF SlipInv, Where, Whole
<1> QED BY <1>1, <1>2, <1>3, <1>4, <1>5, <1>6 DEF WindowNext

-----------------------------------------------------------------------------
LEMMA ComparedClean ==
  ASSUME TypeInv, SlipInv, Compare, verdict' = "as decided"
  PROVE  /\ standing = {}
         /\ Clean(Primary) /\ Clean("implement")
         /\ Violations(artifacts, "worktree") = {}
<1>1. /\ Violations(Edited, "worktree") = {} /\ Violations(Escaped, "repo_root") = {}
      /\ at = "after" /\ Whole(after)
  BY DEF Compare, Judge
<1>2. standing = {}
  <2> SUFFICES ASSUME standing # {} PROVE FALSE
    OBVIOUS
  <2>0. PICK kind \in Kinds : \E what : << kind, what >> \in standing
    BY DEF SlipInv
  <2>1. PICK what : << kind, what >> \in standing
    BY <2>0
  <2> DEFINE w == Where(kind, what)
  <2>2. w \in Readings /\ before[w] # after[w]
    BY <1>1, <2>1 DEF SlipInv, Whole
  <2>3. NameOf[w] \in Escaped
    BY <2>2 DEF Escaped
  <2> QED BY <1>1, <2>3 DEF Violations
<1>3. ASSUME NEW t \in Trees, trees[t] # Absent PROVE Clean(t)
  <2>1. trees[t] \subseteq Edited
    BY <1>3 DEF Edited
  <2> QED BY <1>1, <1>3, <2>1 DEF Clean, Violations
<1>4. Primary \in Trees /\ "implement" \in Trees
  BY DEF Primary, Trees
<1>5. trees[Primary] # Absent /\ trees["implement"] # Absent
  BY <1>1 DEF SlipInv
<1>6. Violations(artifacts, "worktree") = {}
  BY <1>1 DEF Edited, Violations
<1> QED BY <1>2, <1>3, <1>4, <1>5, <1>6

LEMMA OnlyComparedPasses ==
  ASSUME TypeInv, SlipInv, NothingSlipsThrough, [WindowNext]_windowVars
  PROVE  NothingSlipsThrough'
<1>1. CASE GuardedDecision
  <2>1. UNCHANGED << own, artifacts, standing >>
    BY <1>1 DEF GuardedDecision, ghosts
  <2>2. CASE Compare
    <3>1. UNCHANGED trees
      BY <2>2 DEF Compare
    <3> QED BY <2>1, <2>2, <3>1, ComparedClean DEF NothingSlipsThrough, Clean, Primary, TreeOf
  <2>3. CASE NoBase \/ ListRunsThrows \/ ChangedPathsThrows \/ NoBaseline \/ AfterFails
    BY <2>3 DEF NoBase, ListRunsThrows, ChangedPathsThrows, NoBaseline, AfterFails, Judge,
         NothingSlipsThrough
  <2>4. CASE CheckDrift \/ LookAtPrimary \/ LookAtPushed \/ ReadAfter
    BY <2>4 DEF CheckDrift, LookAtPrimary, LookAtPushed, ReadAfter, Judge, NothingSlipsThrough
  <2> QED BY <1>1, <2>2, <2>3, <2>4 DEF GuardedDecision
<1>2. CASE UNCHANGED windowVars
  BY <1>2 DEF windowVars, locals, ghosts, NothingSlipsThrough, Clean, Primary, TreeOf
<1>3. CASE WriteElsewhere \/ Foreign
  BY <1>3 DEF WriteElsewhere, Foreign, RewritePart, RewriteRun, RewriteLog, RewriteHooks, WriteCheckout,
       Writes, NothingSlipsThrough
<1>4. CASE \/ TickBegins \/ ReadBefore \/ BaselineFails \/ NoActor \/ TickEnds \/ TickLost
           \/ \E role \in Launched, r \in RunIds : StartRun(role, r)
           \/ \E r \in RunIds, status \in { "completed", "interrupted" }, finished \in BOOLEAN :
                FinishRun(r, status, finished)
  BY <1>4 DEF TickBegins, ReadBefore, BaselineFails, NoActor, TickEnds, TickLost, StartRun, FinishRun,
       ActEnds, NothingSlipsThrough
<1> QED BY <1>1, <1>2, <1>3, <1>4 DEF WindowNext

(* Whatever the tick has come to, its own Run is one of the Goal's Runs    *)
(* and nothing has been read again without a baseline to compare it with.  *)
THEOREM WindowTypes == WindowSpec => []TypeInv
<1>1. WindowInit => TypeInv
  BY TypeInitially
<1>2. TypeInv /\ [WindowNext]_windowVars => TypeInv'
  BY TypeKept
<1> QED BY <1>1, <1>2, PTL DEF WindowSpec

(* The gate does not take the Run the controller records, its lease or the *)
(* rows of other Goals for something the Actor has touched.                *)
THEOREM NoFalseAlarms == WindowSpec => []NoFalseAlarm
<1>1. WindowInit => QuietInv
  BY QuietInitially
<1>2. TypeInv /\ TypeInv' /\ QuietInv /\ [WindowNext]_windowVars => QuietInv'
  BY QuietKept
<1>3. QuietInv => NoFalseAlarm
  BY DEF QuietInv, Guilty, NoFalseAlarm
<1> QED BY <1>1, <1>2, <1>3, WindowTypes, PTL DEF WindowSpec

(* Nor does what is left out of the comparison for that purpose hide a     *)
(* change from it that still stands when ACT is over.                      *)
THEOREM NothingSlips == WindowSpec => []NothingSlipsThrough
<1>1. WindowInit => SlipInv /\ NothingSlipsThrough
  BY SlipInitially DEF WindowInit, NothingSlipsThrough
<1>2. TypeInv /\ TypeInv' /\ SlipInv /\ [WindowNext]_windowVars => SlipInv'
  BY SlipKept
<1>3. TypeInv /\ SlipInv /\ NothingSlipsThrough /\ [WindowNext]_windowVars => NothingSlipsThrough'
  BY OnlyComparedPasses
<1> QED BY <1>1, <1>2, <1>3, WindowTypes, PTL DEF WindowSpec
=============================================================================
