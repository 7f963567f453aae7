--------------------------- MODULE Attempts_proofs --------------------------
(* The theorems about the ledger of Attempts, for any limit, any number of *)
(* ticks and of failures, and however fast an Actor is.  Nothing in the    *)
(* three tables names the tick its rows are from but their times: the      *)
(* invariant says that these order the rows as the ticks do.  Last, that   *)
(* repetition is stopped: a bound on what repeats and what is still open.  *)
EXTENDS Attempts, FiniteSetTheorems, SequenceTheorems, NaturalsInduction, WellFoundedInduction, TLAPS

LEMMA ReviewsAre ==
  /\ Unread \in Reviews /\ SetAside \in Reviews
  /\ \A at, of \in Heads : Judged(at, of) \in Reviews
  /\ NoHead \in Heads /\ Passed \in Whats
BY DEF Reviews, Judged, Heads, Whats

LEMMA TypeStep ==
  ASSUME TypeOK, [Next]_vars
  PROVE  TypeOK'
<1> USE AttemptsAssumption, ReviewsAre
<1>1. CASE BeginTick
  <2>1. Reclaimed \in Seq(RunRows)
    <3>1. Len(runs) \in Nat /\ DOMAIN runs = 1..Len(runs)
      BY LenProperties DEF TypeOK
    <3>2. \A r \in 1..Len(runs) : runs[r] \in RunRows
      BY ElementOfSeq DEF TypeOK
    <3>3. Reclaimed \in [1..Len(runs) -> RunRows]
      BY <3>1, <3>2 DEF Reclaimed, RunRows
    <3> QED BY <3>1, <3>3, SeqDef
  <2>2. CarriedHead \in Heads
    <3>1. CASE snapshots = << >>
      BY <3>1 DEF CarriedHead
    <3>2. CASE snapshots # << >>
      <4>1. snapshots \in Seq(Snapshots)
        BY DEF TypeOK
      <4>2. Len(snapshots) \in 1..Len(snapshots)
        BY <3>2, <4>1, LenProperties, EmptySeq
      <4>3. snapshots[Len(snapshots)] \in Snapshots
        BY <4>1, <4>2, ElementOfSeq
      <4> QED BY <3>2, <4>3 DEF CarriedHead, Snapshots
    <3> QED BY <3>1, <3>2
  <2>3. head \in Heads /\ reviewed \in Heads
    BY DEF TypeOK, Heads
  <2>4. observed' \in Heads /\ faults' \in 0..MaxFaults /\ told' \in BOOLEAN
    <3>1. observed' \in { head, CarriedHead }
      BY <1>1 DEF BeginTick, AllWell, StoreFails, GitFails
    <3>2. told' \in BOOLEAN
      BY <1>1 DEF BeginTick, AllWell, StoreFails, GitFails
    <3>3. faults' = faults \/ (faults < MaxFaults /\ faults' = faults + 1)
      BY <1>1 DEF BeginTick, AllWell
    <3> QED BY <2>2, <2>3, <3>1, <3>2, <3>3 DEF TypeOK
  <2>5. judged' \in Reviews
    BY <1>1, <2>3, <2>4 DEF BeginTick
  <2> QED BY <1>1, <2>1, <2>4, <2>5 DEF BeginTick, TypeOK, Goto, Whats, branch
<1>2. CASE StartRun
  <2>1. PICK role \in { "implement", "review" } :
          runs' = Append(runs, [role |-> role, status |-> "starting",
                                startedAt |-> now', tick |-> ticks])
    BY <1>2 DEF StartRun
  <2>2. now' \in Nat
    BY <1>2 DEF StartRun, TypeOK
  <2>3. runs' \in Seq(RunRows)
    BY <2>1, <2>2, AppendProperties DEF RunRows, TypeOK
  <2> QED BY <1>2, <2>2, <2>3 DEF StartRun, TypeOK, Goto, branch, tick
<1>3. CASE NoRunThisTick
  BY <1>3 DEF NoRunThisTick, TypeOK, Goto, tables, branch, tick
<1>4. CASE FinishRun
  <2>1. PICK s \in { "completed", "failed" } :
          runs' = [ runs EXCEPT ![Len(runs)] = [ @ EXCEPT !.status = s ] ]
    BY <1>4 DEF FinishRun
  <2>2. runs' \in Seq(RunRows)
    <3>1. Len(runs) \in Nat /\ DOMAIN runs = 1..Len(runs)
      BY LenProperties DEF TypeOK
    <3>2. \A r \in 1..Len(runs) : runs[r] \in RunRows
      BY ElementOfSeq DEF TypeOK
    <3>3. runs' \in [1..Len(runs) -> RunRows]
      BY <2>1, <3>1, <3>2 DEF RunRows
    <3> QED BY <3>1, <3>3, SeqDef
  <2>3. head' \in Nat /\ reviewed' \in Heads
    BY <1>4 DEF FinishRun, TypeOK, Heads, branch
  <2> QED BY <1>4, <2>2, <2>3 DEF FinishRun, TypeOK, Goto, tick
<1>5. CASE SaveSnapshot
  <2>1. snapshots' \in Seq(Snapshots)
    BY <1>5, AppendProperties DEF SaveSnapshot, TypeOK, Snapshots
  <2> QED BY <1>5, <2>1 DEF SaveSnapshot, TypeOK, Goto, branch, tick
<1>6. CASE SaveVerifications
  <2>1. Result \in [what : Whats, review : Reviews]
    BY DEF Result, TypeOK
  <2>2. rounds' \in Seq(Rounds)
    BY <1>6, <2>1, AppendProperties DEF SaveVerifications, TypeOK, Rounds
  <2>3. told' \in BOOLEAN
    BY <1>6 DEF SaveVerifications, ForgetTick
  <2> QED BY <1>6, <2>2, <2>3 DEF SaveVerifications, ForgetTick, TypeOK, branch
<1>7. CASE Die
  <2>1. told' \in BOOLEAN
    BY <1>7 DEF Die, ForgetTick
  <2> QED BY <1>7, <2>1 DEF Die, ForgetTick, TypeOK, branch, tables
<1>8. CASE UNCHANGED vars
  BY <1>8 DEF vars, TypeOK, branch, tables, tick
<1> QED BY <1>1, <1>2, <1>3, <1>4, <1>5, <1>6, <1>7, <1>8 DEF Next

(* Every variable keeps its type.                                          *)
THEOREM TypeCorrect == Spec => []TypeOK
<1>1. Init => TypeOK
  <2>1. Init => runs \in Seq(RunRows) /\ snapshots \in Seq(Snapshots) /\ rounds \in Seq(Rounds)
    BY DEF Init
  <2>2. Init => told \in BOOLEAN
    BY DEF Init
  <2> QED BY <2>1, <2>2, AttemptsAssumption, ReviewsAre DEF Init, TypeOK
<1> QED BY <1>1, TypeStep, PTL DEF Spec

-----------------------------------------------------------------------------
(* The rows of the tables, and what a step adds to them.                   *)

LEMMA RowsAre ==
  ASSUME TypeOK
  PROVE  /\ DOMAIN runs = 1..Len(runs) /\ Len(runs) \in Nat
         /\ DOMAIN rounds = 1..Len(rounds) /\ Len(rounds) \in Nat
         /\ DOMAIN snapshots = 1..Len(snapshots) /\ Len(snapshots) \in Nat
         /\ \A r \in DOMAIN runs : runs[r].startedAt \in Nat /\ runs[r].tick \in Nat
         /\ \A i \in DOMAIN rounds : rounds[i].verifiedAt \in Nat /\ rounds[i].tick \in Nat
         /\ \A k \in DOMAIN snapshots : snapshots[k].observedAt \in Nat /\ snapshots[k].head \in Heads
<1>1. /\ DOMAIN runs = 1..Len(runs) /\ Len(runs) \in Nat
      /\ DOMAIN rounds = 1..Len(rounds) /\ Len(rounds) \in Nat
      /\ DOMAIN snapshots = 1..Len(snapshots) /\ Len(snapshots) \in Nat
  BY LenProperties DEF TypeOK
<1>2. \A r \in DOMAIN runs : runs[r] \in RunRows
  BY <1>1, ElementOfSeq DEF TypeOK
<1>3. \A i \in DOMAIN rounds : rounds[i] \in Rounds
  BY <1>1, ElementOfSeq DEF TypeOK
<1>4. \A k \in DOMAIN snapshots : snapshots[k] \in Snapshots
  BY <1>1, ElementOfSeq DEF TypeOK
<1> QED BY <1>1, <1>2, <1>3, <1>4 DEF RunRows, Rounds, Snapshots

(* Sequence t is s with a row e put at its end.                            *)
Grown(s, t, e) ==
  /\ Len(t) = Len(s) + 1
  /\ DOMAIN t = DOMAIN s \cup { Len(s) + 1 }
  /\ t[Len(s) + 1] = e
  /\ \A i \in DOMAIN s : t[i] = s[i]

LEMMA AppendGrows ==
  ASSUME NEW S, NEW s \in Seq(S), NEW e \in S
  PROVE  Grown(s, Append(s, e), e)
BY AppendProperties, LenProperties DEF Grown

(* A Run keeps its start and its tick.                                     *)
SameRuns ==
  /\ DOMAIN runs' = DOMAIN runs
  /\ \A r \in DOMAIN runs :
       runs'[r].startedAt = runs[r].startedAt /\ runs'[r].tick = runs[r].tick

LEMMA RunsKeepTheirStart ==
  ASSUME TypeOK, [Next]_vars
  PROVE  SameRuns \/ StartRun
<1>1. CASE BeginTick
  BY <1>1 DEF BeginTick, Reclaimed, SameRuns
<1>2. CASE FinishRun
  <2>1. PICK s \in { "completed", "failed" } :
          runs' = [ runs EXCEPT ![Len(runs)] = [ @ EXCEPT !.status = s ] ]
    BY <1>2 DEF FinishRun
  <2>2. \A r \in DOMAIN runs : runs[r] \in RunRows
    BY RowsAre, ElementOfSeq DEF TypeOK
  <2> QED BY <2>1, <2>2 DEF SameRuns, RunRows
<1>3. CASE NoRunThisTick \/ SaveSnapshot \/ SaveVerifications \/ Die \/ UNCHANGED vars
  BY <1>3 DEF NoRunThisTick, SaveSnapshot, SaveVerifications, Die, vars, tables, SameRuns
<1> QED BY <1>1, <1>2, <1>3 DEF Next

LEMMA RunStarts ==
  ASSUME TypeOK, StartRun
  PROVE  \E e : /\ Grown(runs, runs', e)
                /\ e.startedAt = now' /\ e.tick = ticks
<1>1. PICK role \in { "implement", "review" } :
        runs' = Append(runs, [role |-> role, status |-> "starting",
                              startedAt |-> now', tick |-> ticks])
  BY DEF StartRun
<1>2. now' \in Nat
  BY AttemptsAssumption DEF StartRun, TypeOK
<1> DEFINE e == [role |-> role, status |-> "starting", startedAt |-> now', tick |-> ticks]
<1>3. e \in RunRows
  BY <1>2, AttemptsAssumption DEF RunRows, TypeOK
<1>4. Grown(runs, runs', e)
  BY <1>1, <1>3, AppendGrows DEF TypeOK
<1> QED BY <1>4

LEMMA SnapshotIsAdded ==
  ASSUME TypeOK, SaveSnapshot
  PROVE  Grown(snapshots, snapshots', [observedAt |-> observedAt, head |-> observed])
BY AppendGrows DEF SaveSnapshot, TypeOK, Snapshots

LEMMA RoundIsAdded ==
  ASSUME TypeOK, SaveVerifications
  PROVE  \E e : /\ Grown(rounds, rounds', e)
                /\ e.verifiedAt = observedAt /\ e.tick = ticks /\ e.head = observed
<1> DEFINE e == [verifiedAt |-> observedAt, result |-> Result,
                 tick |-> ticks, head |-> observed, judged |-> judged]
<1>1. Result \in [what : Whats, review : Reviews]
  BY ReviewsAre DEF Result, TypeOK
<1>2. e \in Rounds
  BY <1>1, AttemptsAssumption DEF Rounds, TypeOK
<1>3. Grown(rounds, rounds', e)
  BY <1>2, AppendGrows DEF SaveVerifications, TypeOK
<1> QED BY <1>3

-----------------------------------------------------------------------------
(* The times of the rows tell their ticks.                                 *)

Busy == { "deciding", "acting", "saving", "saved" }

(* While a tick is under way only its own Run can have started since it    *)
(* observed, and only its own snapshot can be as young as that.            *)
InTick ==
  /\ observedAt <= now
  /\ \A r \in DOMAIN runs : /\ runs[r].tick = ticks => runs[r].startedAt >= observedAt
                            /\ runs[r].tick < ticks => runs[r].startedAt < observedAt
  /\ \A i \in DOMAIN rounds : rounds[i].tick < ticks /\ rounds[i].verifiedAt < observedAt
  /\ \A k \in DOMAIN snapshots : /\ pc # "saved" \/ k # Len(snapshots)
                                 => snapshots[k].observedAt < observedAt
  /\ pc = "saved" => /\ Len(snapshots) \in DOMAIN snapshots
                     /\ snapshots[Len(snapshots)].observedAt = observedAt
                     /\ snapshots[Len(snapshots)].head = observed

TimeInv ==
  /\ \A r \in DOMAIN runs : runs[r].startedAt <= now /\ runs[r].tick <= ticks
  /\ \A i \in DOMAIN rounds : rounds[i].verifiedAt <= now /\ rounds[i].tick <= ticks
  /\ \A k \in DOMAIN snapshots : snapshots[k].observedAt <= now
  /\ pc \in Busy => InTick
  /\ \A r \in DOMAIN runs, i \in DOMAIN rounds :
       rounds[i].verifiedAt > runs[r].startedAt <=> rounds[i].tick > runs[r].tick

LEMMA TimeStep ==
  ASSUME TypeOK, TypeOK', TimeInv, [Next]_vars
  PROVE  TimeInv'
<1> USE AttemptsAssumption, RowsAre
<1>0. now \in Nat /\ ticks \in Nat /\ observedAt \in Nat /\ now' \in Nat
  BY DEF TypeOK
<1>1. CASE BeginTick
  <2>1. UNCHANGED << snapshots, rounds >> /\ pc' = "deciding"
        /\ ticks' = ticks + 1 /\ now' = now + 1 /\ observedAt' = now + 1
    BY <1>1 DEF BeginTick, Goto
  <2>2. DOMAIN runs' = DOMAIN runs
        /\ \A r \in DOMAIN runs : /\ runs'[r].startedAt = runs[r].startedAt
                                  /\ runs'[r].tick = runs[r].tick
    BY <1>1 DEF BeginTick, Reclaimed
  <2>3. \A r \in DOMAIN runs : runs[r].startedAt <= now /\ runs[r].tick <= ticks
    BY DEF TimeInv
  <2>4. \A r \in DOMAIN runs' : /\ runs'[r].startedAt \in Nat /\ runs'[r].tick \in Nat
                                /\ runs'[r].startedAt <= now /\ runs'[r].tick <= ticks
    BY <2>2, <2>3
  <2>5. InTick'
    BY <1>0, <2>1, <2>4 DEF TimeInv, InTick
  <2>6. \A r \in DOMAIN runs', i \in DOMAIN rounds :
          rounds[i].verifiedAt > runs'[r].startedAt <=> rounds[i].tick > runs'[r].tick
    BY <2>2 DEF TimeInv
  <2>7. /\ \A i \in DOMAIN rounds : rounds[i].verifiedAt <= now' /\ rounds[i].tick <= ticks'
        /\ \A k \in DOMAIN snapshots : snapshots[k].observedAt <= now'
        /\ \A r \in DOMAIN runs' : runs'[r].startedAt <= now' /\ runs'[r].tick <= ticks'
    BY <1>0, <2>1, <2>4 DEF TimeInv
  <2> QED BY <2>1, <2>5, <2>6, <2>7 DEF TimeInv
<1>2. CASE StartRun
  <2>1. PICK e : Grown(runs, runs', e) /\ e.startedAt = now' /\ e.tick = ticks
    BY <1>2, RunStarts
  <2>2. pc = "deciding" /\ pc' = "acting" /\ now' >= now
        /\ UNCHANGED << ticks, snapshots, rounds, observedAt, observed >>
    BY <1>0, <1>2 DEF StartRun, Goto, tick
  <2>3. InTick
    BY <2>2 DEF TimeInv, Busy
  <2>4. InTick'
    BY <1>0, <2>1, <2>2, <2>3 DEF InTick, Grown, TimeInv
  <2>5. \A r \in DOMAIN runs' : runs'[r].startedAt <= now' /\ runs'[r].tick <= ticks'
    BY <1>0, <2>1, <2>2 DEF TimeInv, Grown
  <2>6. \A r \in DOMAIN runs', i \in DOMAIN rounds' :
          rounds'[i].verifiedAt > runs'[r].startedAt <=> rounds'[i].tick > runs'[r].tick
    <3> SUFFICES ASSUME NEW r \in DOMAIN runs', NEW i \in DOMAIN rounds
                 PROVE  rounds[i].verifiedAt > runs'[r].startedAt <=> rounds[i].tick > runs'[r].tick
      BY <2>2
    <3>1. CASE r \in DOMAIN runs
      BY <2>1, <3>1 DEF TimeInv, Grown
    <3>2. CASE r = Len(runs) + 1
      BY <1>0, <2>1, <2>2, <2>3, <3>2 DEF InTick, Grown
    <3> QED BY <2>1, <3>1, <3>2 DEF Grown
  <2> QED BY <1>0, <2>2, <2>4, <2>5, <2>6 DEF TimeInv
<1>3. CASE NoRunThisTick
  BY <1>3 DEF NoRunThisTick, Goto, tables, tick, TimeInv, InTick, Busy
<1>4. CASE FinishRun
  <2>1. SameRuns /\ pc = "acting" /\ pc' = "saving"
        /\ UNCHANGED << now, ticks, snapshots, rounds, observedAt, observed >>
    BY <1>4, RunsKeepTheirStart DEF FinishRun, Goto, StartRun, tick
  <2> QED BY <2>1 DEF TimeInv, InTick, SameRuns, Busy
<1>5. CASE SaveSnapshot
  <2>1. pc = "saving" /\ pc' = "saved"
        /\ UNCHANGED << now, ticks, runs, rounds, observedAt, observed >>
    BY <1>5 DEF SaveSnapshot, Goto, tick
  <2>2. Grown(snapshots, snapshots', [observedAt |-> observedAt, head |-> observed])
    BY <1>5, SnapshotIsAdded
  <2>3. InTick
    BY <2>1 DEF TimeInv, Busy
  <2>4. InTick'
    BY <1>0, <2>1, <2>2, <2>3 DEF InTick, Grown
  <2>5. \A k \in DOMAIN snapshots' : snapshots'[k].observedAt <= now
    BY <1>0, <2>2, <2>3 DEF TimeInv, InTick, Grown
  <2> QED BY <2>1, <2>4, <2>5 DEF TimeInv
<1>6. CASE SaveVerifications
  <2>1. pc = "saved" /\ pc' \notin Busy /\ UNCHANGED << now, ticks, runs, snapshots >>
    BY <1>6 DEF SaveVerifications, Busy
  <2>2. PICK e : Grown(rounds, rounds', e) /\ e.verifiedAt = observedAt /\ e.tick = ticks
    BY <1>6, RoundIsAdded
  <2>3. InTick
    BY <2>1 DEF TimeInv, Busy
  <2> QED BY <1>0, <2>1, <2>2, <2>3 DEF TimeInv, InTick, Grown
<1>7. CASE Die
  BY <1>7 DEF Die, tables, TimeInv, Busy
<1>8. CASE UNCHANGED vars
  BY <1>8 DEF vars, tables, tick, TimeInv, InTick
<1> QED BY <1>1, <1>2, <1>3, <1>4, <1>5, <1>6, <1>7, <1>8 DEF Next

-----------------------------------------------------------------------------
(* The snapshots tell the heads the ticks have observed.                   *)

(* Once a head was read it is carried over, so that only the oldest        *)
(* snapshots can lack one; each round has a snapshot of its time; and no   *)
(* snapshot is between a round and a Run of the same tick.                 *)
NoHeadSoFar == \A k \in DOMAIN snapshots : snapshots[k].head = NoHead

SnapInv ==
  /\ \A j, k \in DOMAIN snapshots : j < k => snapshots[j].observedAt < snapshots[k].observedAt
  /\ \A j, k \in DOMAIN snapshots :
       j < k /\ snapshots[k].head = NoHead => snapshots[j].head = NoHead
  /\ pc \in { "deciding", "acting", "saving" } /\ observed = NoHead => NoHeadSoFar
  /\ \A i \in DOMAIN rounds : \E k \in DOMAIN snapshots :
       snapshots[k].observedAt = rounds[i].verifiedAt /\ snapshots[k].head = rounds[i].head
  /\ \A i \in DOMAIN rounds, r \in DOMAIN runs, k \in DOMAIN snapshots :
       rounds[i].tick = runs[r].tick /\ snapshots[k].observedAt > rounds[i].verifiedAt
         => snapshots[k].observedAt > runs[r].startedAt

LEMMA SnapStep ==
  ASSUME TypeOK, TimeInv, SnapInv, [Next]_vars
  PROVE  SnapInv'
<1> USE RowsAre
<1>0. now \in Nat /\ ticks \in Nat /\ observedAt \in Nat
  BY AttemptsAssumption DEF TypeOK
<1>1. CASE BeginTick
  <2>1. UNCHANGED << snapshots, rounds >> /\ pc' = "deciding" /\ observed' \in { head, CarriedHead }
    BY <1>1 DEF BeginTick, Goto, AllWell, StoreFails, GitFails
  <2>2. DOMAIN runs' = DOMAIN runs
        /\ \A r \in DOMAIN runs : /\ runs'[r].startedAt = runs[r].startedAt
                                  /\ runs'[r].tick = runs[r].tick
    BY <1>1 DEF BeginTick, Reclaimed
  <2>3. ASSUME CarriedHead = NoHead PROVE NoHeadSoFar
    <3>1. CASE snapshots = << >>
      BY <3>1 DEF NoHeadSoFar
    <3>2. CASE snapshots # << >>
      <4>1. Len(snapshots) \in DOMAIN snapshots
        BY <3>2, EmptySeq DEF TypeOK
      <4>2. snapshots[Len(snapshots)].head = NoHead
        BY <2>3, <3>2 DEF CarriedHead
      <4> QED BY <4>1, <4>2 DEF SnapInv, NoHeadSoFar
    <3> QED BY <3>1, <3>2
  <2>4. observed' = NoHead => NoHeadSoFar
    BY <2>1, <2>3 DEF NoHead, TypeOK
  <2>5. \A i \in DOMAIN rounds, r \in DOMAIN runs', k \in DOMAIN snapshots :
          rounds[i].tick = runs'[r].tick /\ snapshots[k].observedAt > rounds[i].verifiedAt
            => snapshots[k].observedAt > runs'[r].startedAt
    BY <2>2 DEF SnapInv
  <2> QED BY <2>1, <2>4, <2>5 DEF SnapInv, NoHeadSoFar
<1>2. CASE StartRun
  <2>1. PICK e : Grown(runs, runs', e) /\ e.startedAt = now' /\ e.tick = ticks
    BY <1>2, RunStarts
  <2>2. pc = "deciding" /\ pc' = "acting" /\ UNCHANGED << snapshots, rounds, observed >>
    BY <1>2 DEF StartRun, Goto, tick
  <2>3. InTick
    BY <2>2 DEF TimeInv, Busy
  <2>4. \A i \in DOMAIN rounds, r \in DOMAIN runs', k \in DOMAIN snapshots :
          rounds[i].tick = runs'[r].tick /\ snapshots[k].observedAt > rounds[i].verifiedAt
            => snapshots[k].observedAt > runs'[r].startedAt
    <3> SUFFICES ASSUME NEW i \in DOMAIN rounds, NEW r \in DOMAIN runs', NEW k \in DOMAIN snapshots,
                        rounds[i].tick = runs'[r].tick, snapshots[k].observedAt > rounds[i].verifiedAt
                 PROVE  snapshots[k].observedAt > runs'[r].startedAt
      OBVIOUS
    <3>1. CASE r \in DOMAIN runs
      BY <2>1, <3>1 DEF SnapInv, Grown
    <3>2. CASE r = Len(runs) + 1
      BY <1>0, <2>1, <2>3, <3>2 DEF InTick, Grown
    <3> QED BY <2>1, <3>1, <3>2 DEF Grown
  <2> QED BY <2>2, <2>4 DEF SnapInv, NoHeadSoFar
<1>3. CASE NoRunThisTick
  BY <1>3 DEF NoRunThisTick, Goto, tables, tick, SnapInv, NoHeadSoFar
<1>4. CASE FinishRun
  <2>1. SameRuns /\ pc = "acting" /\ pc' = "saving" /\ UNCHANGED << snapshots, rounds, observed >>
    BY <1>4, RunsKeepTheirStart DEF FinishRun, Goto, StartRun, tick
  <2>2. \A i \in DOMAIN rounds, r \in DOMAIN runs', k \in DOMAIN snapshots :
          rounds[i].tick = runs'[r].tick /\ snapshots[k].observedAt > rounds[i].verifiedAt
            => snapshots[k].observedAt > runs'[r].startedAt
    BY <2>1 DEF SnapInv, SameRuns
  <2> QED BY <2>1, <2>2 DEF SnapInv, NoHeadSoFar
<1>5. CASE SaveSnapshot
  <2>1. pc = "saving" /\ pc' = "saved" /\ UNCHANGED << runs, rounds >>
    BY <1>5 DEF SaveSnapshot, Goto
  <2>2. Grown(snapshots, snapshots', [observedAt |-> observedAt, head |-> observed])
    BY <1>5, SnapshotIsAdded
  <2>3. InTick /\ \A k \in DOMAIN snapshots : snapshots[k].observedAt < observedAt
    BY <2>1 DEF TimeInv, InTick, Busy
  <2> DEFINE new == Len(snapshots) + 1
  <2>4. /\ DOMAIN snapshots' = DOMAIN snapshots \cup { new }
        /\ snapshots'[new].observedAt = observedAt /\ snapshots'[new].head = observed
        /\ \A k \in DOMAIN snapshots : snapshots'[k] = snapshots[k] /\ k < new
    BY <2>2 DEF Grown
  <2>5. \A j, k \in DOMAIN snapshots' : j < k => snapshots'[j].observedAt < snapshots'[k].observedAt
    BY <2>3, <2>4 DEF SnapInv
  <2>6. \A j, k \in DOMAIN snapshots' :
          j < k /\ snapshots'[k].head = NoHead => snapshots'[j].head = NoHead
    BY <2>1, <2>4 DEF SnapInv, NoHeadSoFar
  <2>7. \A i \in DOMAIN rounds : \E k \in DOMAIN snapshots' :
          snapshots'[k].observedAt = rounds[i].verifiedAt /\ snapshots'[k].head = rounds[i].head
    <3> SUFFICES ASSUME NEW i \in DOMAIN rounds
                 PROVE  \E k \in DOMAIN snapshots' : /\ snapshots'[k].observedAt = rounds[i].verifiedAt
                                                    /\ snapshots'[k].head = rounds[i].head
      OBVIOUS
    <3>1. PICK k \in DOMAIN snapshots : /\ snapshots[k].observedAt = rounds[i].verifiedAt
                                        /\ snapshots[k].head = rounds[i].head
      BY DEF SnapInv
    <3>2. k \in DOMAIN snapshots' /\ snapshots'[k] = snapshots[k]
      BY <2>4
    <3> QED BY <3>1, <3>2
  <2>8. \A i \in DOMAIN rounds, r \in DOMAIN runs, k \in DOMAIN snapshots' :
          rounds[i].tick = runs[r].tick /\ snapshots'[k].observedAt > rounds[i].verifiedAt
            => snapshots'[k].observedAt > runs[r].startedAt
    <3>1. \A i \in DOMAIN rounds, r \in DOMAIN runs :
            rounds[i].tick = runs[r].tick => observedAt > runs[r].startedAt
      BY <1>0, <2>3 DEF InTick
    <3> QED BY <2>4, <3>1 DEF SnapInv
  <2> QED BY <2>1, <2>5, <2>6, <2>7, <2>8 DEF SnapInv
<1>6. CASE SaveVerifications
  <2>1. pc = "saved" /\ pc' \in { "idle", "completed" } /\ UNCHANGED << runs, snapshots >>
    BY <1>6 DEF SaveVerifications
  <2>2. PICK e : /\ Grown(rounds, rounds', e)
                 /\ e.verifiedAt = observedAt /\ e.tick = ticks /\ e.head = observed
    BY <1>6, RoundIsAdded
  <2>3. InTick
    BY <2>1 DEF TimeInv, Busy
  <2> DEFINE new == Len(rounds) + 1
  <2>4. /\ DOMAIN rounds' = DOMAIN rounds \cup { new }
        /\ rounds'[new].verifiedAt = observedAt /\ rounds'[new].tick = ticks
        /\ rounds'[new].head = observed
        /\ \A i \in DOMAIN rounds : rounds'[i] = rounds[i]
    BY <2>2 DEF Grown
  <2>5. \A i \in DOMAIN rounds' : \E k \in DOMAIN snapshots :
          snapshots[k].observedAt = rounds'[i].verifiedAt /\ snapshots[k].head = rounds'[i].head
    <3>1. \E k \in DOMAIN snapshots : snapshots[k].observedAt = observedAt /\ snapshots[k].head = observed
      BY <2>1, <2>3 DEF InTick
    <3>2. \A i \in DOMAIN rounds : \E k \in DOMAIN snapshots :
            snapshots[k].observedAt = rounds[i].verifiedAt /\ snapshots[k].head = rounds[i].head
      BY DEF SnapInv
    <3> QED BY <2>4, <3>1, <3>2
  <2>6. \A k \in DOMAIN snapshots : ~(snapshots[k].observedAt > observedAt)
    BY <1>0, <2>1, <2>3 DEF InTick
  <2>7. \A i \in DOMAIN rounds', r \in DOMAIN runs, k \in DOMAIN snapshots :
          rounds'[i].tick = runs[r].tick /\ snapshots[k].observedAt > rounds'[i].verifiedAt
            => snapshots[k].observedAt > runs[r].startedAt
    <3>1. \A i \in DOMAIN rounds, r \in DOMAIN runs, k \in DOMAIN snapshots :
            rounds[i].tick = runs[r].tick /\ snapshots[k].observedAt > rounds[i].verifiedAt
              => snapshots[k].observedAt > runs[r].startedAt
      BY DEF SnapInv
    <3> QED BY <2>4, <2>6, <3>1
  <2> QED BY <2>1, <2>5, <2>7 DEF SnapInv
<1>7. CASE Die
  BY <1>7 DEF Die, tables, SnapInv
<1>8. CASE UNCHANGED vars
  BY <1>8 DEF vars, tables, tick, SnapInv, NoHeadSoFar
<1> QED BY <1>1, <1>2, <1>3, <1>4, <1>5, <1>6, <1>7, <1>8 DEF Next

(* The youngest snapshot of a time tells the head, or there is none yet.   *)
LEMMA HeadIsOfTheYoungest ==
  ASSUME TypeOK, SnapInv, NEW t \in Nat, NEW k \in DOMAIN snapshots,
         snapshots[k].observedAt <= t,
         \A j \in DOMAIN snapshots : j > k => snapshots[j].observedAt > t
  PROVE  HeadShaAt(t) = snapshots[k].head
<1> USE RowsAre
<1>1. \A j \in SeenBy(t) : j \in DOMAIN snapshots /\ j <= k
  BY DEF SeenBy
<1>2. CASE snapshots[k].head = NoHead
  <2>1. SeenBy(t) = {}
    BY <1>1, <1>2 DEF SeenBy, SnapInv
  <2> QED BY <1>2, <2>1 DEF HeadShaAt
<1>3. CASE snapshots[k].head # NoHead
  <2>1. k \in SeenBy(t)
    BY <1>3 DEF SeenBy
  <2>2. \A i \in SeenBy(t) : (\A j \in SeenBy(t) : j <= i) => i = k
    BY <1>1, <2>1
  <2>3. (CHOOSE i \in SeenBy(t) : \A j \in SeenBy(t) : j <= i) = k
    BY <1>1, <2>1, <2>2
  <2> QED BY <2>1, <2>3 DEF HeadShaAt
<1> QED BY <1>2, <1>3

(* The first of a set of rounds.                                           *)
LEMMA FirstOne ==
  ASSUME NEW S, S \subseteq Nat, S # {}
  PROVE  \E i \in S : \A j \in S : i <= j
<1> DEFINE Less == { ss \in Nat \X Nat : ss[1] < ss[2] }
<1>1. IsWellFoundedOn(Less, Nat)
  BY NatLessThanWellFounded DEF OpToRel
<1> HIDE DEF Less
<1>2. PICK i \in S : \A j \in S : << j, i >> \notin Less
  BY <1>1, WFMin
<1> USE DEF Less
<1>3. \A j \in S : ~(j < i)
  BY <1>2
<1> QED BY <1>3

LEMMA ClosingRoundIs ==
  ASSUME TypeOK, NEW t \in Nat, YoungerThan(t) # {}
  PROVE  ClosingRound(t) \in YoungerThan(t) /\ \A j \in YoungerThan(t) : ClosingRound(t) <= j
<1>1. YoungerThan(t) \subseteq Nat
  BY RowsAre DEF YoungerThan
<1>2. \E i \in YoungerThan(t) : \A j \in YoungerThan(t) : i <= j
  BY <1>1, FirstOne
<1> QED BY <1>2 DEF ClosingRound

(* No attempt is judged by what its own tick had verified before it ran,   *)
(* and the commits before and after it are those the two ticks observed.   *)
THEOREM NeverJudgedByItsOwnTick == Spec => []JudgedByALaterTick
<1>1. Init => TimeInv /\ SnapInv
  BY DEF Init, TimeInv, SnapInv, Busy, NoHeadSoFar
<1>2. TypeOK /\ TimeInv /\ SnapInv => JudgedByALaterTick
  <2> SUFFICES ASSUME TypeOK, TimeInv, SnapInv, NEW r \in DOMAIN runs
               PROVE  /\ Closed(r) =>
                           LET c == rounds[ClosingRound(runs[r].startedAt)]
                           IN  c.tick > runs[r].tick /\ HeadAfter(r) = c.head
                      /\ \A i \in DOMAIN rounds :
                           rounds[i].tick = runs[r].tick => HeadShaAt(runs[r].startedAt) = rounds[i].head
    BY DEF JudgedByALaterTick
  <2> USE RowsAre
  <2> DEFINE c == ClosingRound(runs[r].startedAt)
  <2>1. ASSUME Closed(r)
        PROVE  rounds[c].tick > runs[r].tick /\ HeadAfter(r) = rounds[c].head
    <3>1. YoungerThan(runs[r].startedAt) # {}
      BY <2>1 DEF Closed, ClosingRound
    <3>2. c \in YoungerThan(runs[r].startedAt)
      BY <3>1, ClosingRoundIs
    <3>3. c \in DOMAIN rounds /\ rounds[c].verifiedAt > runs[r].startedAt
      BY <3>2 DEF YoungerThan
    <3> HIDE DEF c
    <3>4. rounds[c].tick > runs[r].tick
      BY <3>3 DEF TimeInv
    <3>5. PICK k \in DOMAIN snapshots :
            snapshots[k].observedAt = rounds[c].verifiedAt /\ snapshots[k].head = rounds[c].head
      BY <3>3 DEF SnapInv
    <3>6. \A j \in DOMAIN snapshots : j > k => snapshots[j].observedAt > rounds[c].verifiedAt
      BY <3>5 DEF SnapInv
    <3>7. HeadShaAt(rounds[c].verifiedAt) = snapshots[k].head
      <4>1. rounds[c].verifiedAt \in Nat /\ snapshots[k].observedAt <= rounds[c].verifiedAt
        BY <3>3, <3>5
      <4> QED BY <3>6, <4>1, HeadIsOfTheYoungest
    <3>8. HeadAfter(r) = HeadShaAt(rounds[c].verifiedAt)
      BY DEF HeadAfter, c
    <3> QED BY <3>4, <3>5, <3>7, <3>8
  <2>2. ASSUME NEW i \in DOMAIN rounds, rounds[i].tick = runs[r].tick
        PROVE  HeadShaAt(runs[r].startedAt) = rounds[i].head
    <3>1. PICK k \in DOMAIN snapshots :
            snapshots[k].observedAt = rounds[i].verifiedAt /\ snapshots[k].head = rounds[i].head
      BY DEF SnapInv
    <3>2. snapshots[k].observedAt <= runs[r].startedAt
      BY <2>2, <3>1 DEF TimeInv
    <3>3. \A j \in DOMAIN snapshots : j > k => snapshots[j].observedAt > runs[r].startedAt
      BY <2>2, <3>1 DEF SnapInv
    <3> QED BY <3>1, <3>2, <3>3, HeadIsOfTheYoungest
  <2> QED BY <2>1, <2>2
<1> QED BY <1>1, <1>2, TypeStep, TimeStep, SnapStep, TypeCorrect, PTL DEF Spec

-----------------------------------------------------------------------------
(* The copy in the working tree.                                           *)

ViewInv == \A e \in view : e.run \in DOMAIN runs /\
             (e.result = NotYet \/ (Closed(e.run) /\ Outcome(e.run) = e.result))

(* A closed attempt stays as it is.                                        *)
LEMMA ClosedForGood ==
  ASSUME TypeOK, TypeOK', [Next]_vars, NEW r \in DOMAIN runs
  PROVE  /\ r \in DOMAIN runs'
         /\ Closed(r) => Closed(r)' /\ Outcome(r)' = Outcome(r)
<1> USE RowsAre
<1>1. r \in DOMAIN runs' /\ runs'[r].startedAt = runs[r].startedAt
  <2>1. CASE SameRuns
    BY <2>1 DEF SameRuns
  <2>2. CASE StartRun
    BY <2>2, RunStarts DEF Grown
  <2> QED BY <2>1, <2>2, RunsKeepTheirStart
<1> DEFINE t == runs[r].startedAt
<1>2. ASSUME Closed(r) PROVE Closed(r)' /\ Outcome(r)' = Outcome(r)
  <2>1. YoungerThan(t) # {} /\ t \in Nat
    BY <1>2 DEF Closed, ClosingRound
  <2>2. ClosingRound(t) \in YoungerThan(t) /\ \A j \in YoungerThan(t) : ClosingRound(t) <= j
    BY <2>1, ClosingRoundIs
  <2>3. rounds' = rounds \/ \E e : Grown(rounds, rounds', e)
    <3>1. CASE SaveVerifications
      BY <3>1, RoundIsAdded
    <3>2. CASE ~SaveVerifications
      BY <3>2 DEF Next, BeginTick, StartRun, NoRunThisTick, FinishRun, SaveSnapshot, Die, vars, tables
    <3> QED BY <3>1, <3>2
  <2>4. /\ ClosingRound(t) \in DOMAIN rounds' /\ rounds'[ClosingRound(t)] = rounds[ClosingRound(t)]
        /\ \A j \in DOMAIN rounds' : j \in DOMAIN rounds \/ j = Len(rounds) + 1
        /\ \A j \in DOMAIN rounds : rounds'[j] = rounds[j]
    BY <2>2, <2>3 DEF Grown, YoungerThan
  <2> DEFINE Y == { i \in DOMAIN rounds' : rounds'[i].verifiedAt > t }
  <2>5. ClosingRound(t) \in Y /\ \A j \in Y : j \in Nat /\ ClosingRound(t) <= j
    BY <2>2, <2>4 DEF YoungerThan
  <2>6. (CHOOSE i \in Y : \A j \in Y : i <= j) = ClosingRound(t)
    BY <2>5
  <2>7. (ClosingRound(runs[r].startedAt))' = ClosingRound(t)
    BY <1>1, <2>5, <2>6 DEF ClosingRound, YoungerThan
  <2> QED BY <1>2, <2>4, <2>7 DEF Closed, Outcome
<1> QED BY <1>1, <1>2

LEMMA ViewStep ==
  ASSUME TypeOK, TypeOK', ViewInv, [Next]_vars
  PROVE  ViewInv'
<1>1. \A e \in view' : e \in view \/ e \in Rendered
  BY DEF Next, BeginTick, AllWell, StoreFails, GitFails, Deliver, StartRun, NoRunThisTick, FinishRun,
         SaveSnapshot, SaveVerifications, Die, vars
<1>2. \A e \in Rendered : e.run \in DOMAIN runs /\
        (e.result = NotYet \/ (Closed(e.run) /\ Outcome(e.run) = e.result))
  BY DEF Rendered, Shown
<1> QED BY <1>1, <1>2, ClosedForGood DEF ViewInv

(* A copy of the ledger, however old, never says of an attempt what the    *)
(* ledger does not say.                                                    *)
THEOREM ViewNeverLies == Spec => []ViewAgreesWithLedger
<1>1. Init => ViewInv
  BY DEF Init, ViewInv, NoView
<1>2. ViewInv => ViewAgreesWithLedger
  BY DEF ViewInv, ViewAgreesWithLedger
<1> QED BY <1>1, <1>2, ViewStep, TypeStep, TypeCorrect, PTL DEF Spec

-----------------------------------------------------------------------------
(* The guard on repeated attempts.  An attempt that is counted was judged  *)
(* with the same outcome as the last or is yet to be judged.  What is      *)
(* saved at the end of a tick judges attempts and counts none anew; an     *)
(* attempt is added only behind the guard, or by a tick that could not see *)
(* the ledger and has paid for that with a failure; and more than one is   *)
(* yet to be judged only where ticks have died.                            *)
Repeated == { r \in DOMAIN runs : Countable(r) /\ SameAsLast(r) }

Counted == Repeated \cup Open

OneRunPerTick ==
  /\ \A r, s \in DOMAIN runs : runs[r].tick = runs[s].tick => r = s
  /\ pc = "deciding" => \A r \in DOMAIN runs : runs[r].tick # ticks
  /\ pc = "acting" => /\ Len(runs) \in DOMAIN runs /\ runs[Len(runs)].tick = ticks
                      /\ runs[Len(runs)].status = "starting"

StuckInv ==
  /\ Cardinality(Counted) <= MaxUnchanged + 1 + faults
  /\ Cardinality(Open) <= (IF pc \in { "saving", "saved" } THEN 2 ELSE 1) + faults
  /\ pc \in { "deciding", "acting" } /\ ~told => Cardinality(Counted) <= MaxUnchanged + faults
  /\ pc = "acting" /\ told /\ runs[Len(runs)].role = "implement"
       => TrailingRepeatedAttempts < MaxUnchanged

(* A tick starts at most one Run.                                         *)
LEMMA OneRunStep ==
  ASSUME TypeOK, TypeOK', TimeInv, OneRunPerTick, [Next]_vars
  PROVE  OneRunPerTick'
<1> USE RowsAre
<1>1. CASE BeginTick
  <2>1. SameRuns /\ pc' = "deciding" /\ ticks' = ticks + 1 /\ ticks \in Nat
    BY <1>1, AttemptsAssumption DEF BeginTick, Goto, Reclaimed, SameRuns, TypeOK
  <2> QED BY <2>1 DEF SameRuns, OneRunPerTick, TimeInv
<1>2. CASE StartRun
  <2>1. PICK role \in { "implement", "review" } :
          runs' = Append(runs, [role |-> role, status |-> "starting",
                                startedAt |-> now', tick |-> ticks])
    BY <1>2 DEF StartRun
  <2> DEFINE e == [role |-> role, status |-> "starting", startedAt |-> now', tick |-> ticks]
  <2>2. e \in RunRows
    BY AttemptsAssumption DEF RunRows, TypeOK
  <2>3. Grown(runs, runs', e)
    BY <2>1, <2>2, AppendGrows DEF TypeOK
  <2>4. pc = "deciding" /\ pc' = "acting" /\ ticks' = ticks
    BY <1>2 DEF StartRun, Goto
  <2>5. \A r \in DOMAIN runs : runs[r].tick # ticks
    BY <2>4 DEF OneRunPerTick
  <2>6. \A r, s \in DOMAIN runs' : runs'[r].tick = runs'[s].tick => r = s
    BY <2>3, <2>5 DEF Grown, OneRunPerTick
  <2> QED BY <2>3, <2>4, <2>6 DEF OneRunPerTick, Grown
<1>3. CASE FinishRun
  <2>1. SameRuns /\ pc' = "saving"
    BY <1>3, RunsKeepTheirStart DEF FinishRun, StartRun, Goto
  <2> QED BY <2>1 DEF SameRuns, OneRunPerTick
<1>4. CASE NoRunThisTick \/ SaveSnapshot \/ SaveVerifications \/ Die
  <2>1. runs' = runs /\ pc' \notin { "deciding", "acting" }
    BY <1>4 DEF NoRunThisTick, SaveSnapshot, SaveVerifications, Die, tables, Goto
  <2> QED BY <2>1 DEF OneRunPerTick
<1>5. CASE UNCHANGED vars
  BY <1>5 DEF vars, tables, OneRunPerTick
<1> QED BY <1>1, <1>2, <1>3, <1>4, <1>5 DEF Next

(* The sets are finite, and no attempt is both judged and open.           *)
LEMMA CountedIs ==
  ASSUME TypeOK
  PROVE  /\ IsFiniteSet(Counted) /\ Cardinality(Counted) \in Nat
         /\ IsFiniteSet(Open) /\ Cardinality(Open) \in Nat
         /\ TrailingRepeatedAttempts \in Nat
         /\ Cardinality(Counted) = TrailingRepeatedAttempts + Cardinality(Open)
<1>1. IsFiniteSet(1..Len(runs)) /\ DOMAIN runs = 1..Len(runs)
  BY RowsAre, FS_Interval
<1>2. Repeated \subseteq DOMAIN runs /\ Open \subseteq DOMAIN runs /\ Repeated \cap Open = {}
  BY DEF Repeated, Open, Countable
<1>3. IsFiniteSet(Repeated) /\ IsFiniteSet(Open)
  BY <1>1, <1>2, FS_Subset
<1>4. Cardinality(Repeated) \in Nat /\ Cardinality(Open) \in Nat /\ Cardinality(Repeated \cap Open) = 0
  BY <1>2, <1>3, FS_CardinalityType, FS_EmptySet
<1>5. IsFiniteSet(Counted)
        /\ Cardinality(Counted) = Cardinality(Repeated) + Cardinality(Open) - Cardinality(Repeated \cap Open)
  BY <1>3, FS_Union DEF Counted
<1>6. TrailingRepeatedAttempts = Cardinality(Repeated)
  BY DEF TrailingRepeatedAttempts, Repeated
<1> QED BY <1>3, <1>4, <1>5, <1>6

Implemented(r) == runs[r].role = "implement" /\ runs[r].status = "completed"

(* What an attempt ended in depends on the rounds and on its start alone.  *)
LEMMA SameJudgement ==
  ASSUME UNCHANGED rounds, NEW r, runs'[r].startedAt = runs[r].startedAt
  PROVE  (Closed(r)' <=> Closed(r)) /\ Outcome(r)' = Outcome(r)
<1> DEFINE c  == ClosingRound(runs[r].startedAt)
           Y  == { i \in DOMAIN rounds : rounds[i].verifiedAt > runs[r].startedAt }
           Y1 == { i \in DOMAIN rounds' : rounds'[i].verifiedAt > runs'[r].startedAt }
<1>1. Y1 = Y
  OBVIOUS
<1>2. c = IF Y = {} THEN NoRound ELSE CHOOSE i \in Y : \A j \in Y : i <= j
  BY DEF ClosingRound, YoungerThan
<1>3. c' = IF Y1 = {} THEN NoRound ELSE CHOOSE i \in Y1 : \A j \in Y1 : i <= j
  BY DEF ClosingRound, YoungerThan
<1> HIDE DEF Y, Y1, c
<1>4. c' = c
  BY <1>1, <1>2, <1>3
<1> QED BY <1>4 DEF Closed, Outcome, c

(* A step that completes no implementer and saves no round counts nothing. *)
LEMMA SameLedger ==
  ASSUME UNCHANGED rounds,
         \A r \in DOMAIN runs : r \in DOMAIN runs' /\ runs'[r].startedAt = runs[r].startedAt,
         \A r \in DOMAIN runs' : Implemented(r)' => r \in DOMAIN runs,
         \A r \in DOMAIN runs : Implemented(r)' <=> Implemented(r)
  PROVE  Open' = Open /\ Repeated' = Repeated
<1>1. \A r \in DOMAIN runs : (Closed(r)' <=> Closed(r)) /\ Outcome(r)' = Outcome(r)
  BY SameJudgement
<1>2. \A r \in DOMAIN runs' : Countable(r)' => r \in DOMAIN runs
  BY DEF Countable, Implemented
<1>3. \A r \in DOMAIN runs : Countable(r)' <=> Countable(r)
  BY <1>1 DEF Countable, Implemented
<1>4. Open' = Open
  BY <1>1 DEF Open, Implemented
<1>5. \A r \in DOMAIN runs : SameAsLast(r)' <=> SameAsLast(r)
  BY <1>1, <1>2, <1>3 DEF SameAsLast
<1> QED BY <1>2, <1>3, <1>4, <1>5 DEF Repeated

(* The guard lets an implementer go on only below the limit.              *)
LEMMA GuardStopsRepetition ==
  ASSUME TypeOK, told, Act("implement") \in Decided
  PROVE  TrailingRepeatedAttempts < MaxUnchanged
<1> DEFINE g == Guards(Room, Usage, 0, observedAt, Found)
<1>1. ASSUME NEW i \in DOMAIN g
      PROVE  g[i].stop # Act("implement")
  <2>1. i \in 1..6
    BY <1>1 DEF Guards
  <2>2. i = 1 \/ i = 2 \/ i = 3 \/ i = 4 \/ i = 5 \/ i = 6
    BY <2>1
  <2>3. /\ g[1].stop = Escalate("budget_exhausted") /\ g[2].stop = Escalate("shape_mismatch")
        /\ g[3].stop = Complete /\ g[4].stop = Wait(WaitReason(Found.unresolved))
        /\ g[5].stop = Escalate("loop_detected") /\ g[6].stop = Escalate("repeated_attempt")
    BY DEF Guards
  <2>4. /\ Complete # Act("implement")
        /\ \A x : Escalate(x) # Act("implement") /\ Wait(x) # Act("implement")
    BY DEF Complete, Escalate, Wait, Act
  <2> QED BY <2>2, <2>3, <2>4
<1>2. ~\E i \in DOMAIN g : g[i].when
  BY <1>1 DEF Decided, Decisions
<1>3. 6 \in DOMAIN g /\ g[6].when = (Found.repeated > 0 /\ Found.repeated >= Room.maxUnchanged)
  BY DEF Guards
<1>4. Found.repeated = TrailingRepeatedAttempts /\ Room.maxUnchanged = MaxUnchanged
  BY DEF Found, Room
<1>5. ~(TrailingRepeatedAttempts > 0 /\ TrailingRepeatedAttempts >= MaxUnchanged)
  BY <1>2, <1>3, <1>4
<1> QED BY <1>5, CountedIs, AttemptsAssumption

(* The attempts of a tick are closed by no round yet.                     *)
LEMMA OwnRunIsOpen ==
  ASSUME TypeOK, TimeInv, pc \in Busy, NEW r \in DOMAIN runs, runs[r].tick = ticks
  PROVE  ~Closed(r)
<1>1. YoungerThan(runs[r].startedAt) = {}
  BY RowsAre DEF TimeInv, InTick, YoungerThan
<1> QED BY <1>1 DEF Closed, ClosingRound

(* The bounds are kept by every step.                                     *)
LEMMA StuckStep ==
  ASSUME TypeOK, TypeOK', TimeInv, OneRunPerTick, StuckInv, [Next]_vars
  PROVE  StuckInv'
<1> USE RowsAre, CountedIs, AttemptsAssumption
<1>0. faults \in Nat /\ MaxUnchanged \in Nat /\ ticks \in Nat /\ faults' \in Nat
  BY DEF TypeOK
<1>1. CASE BeginTick
  <2>1. Open' = Open /\ Repeated' = Repeated
    <3>1. UNCHANGED rounds /\ DOMAIN runs' = DOMAIN runs
      BY <1>1 DEF BeginTick, Reclaimed
    <3>2. \A r \in DOMAIN runs : runs'[r].startedAt = runs[r].startedAt
                                 /\ (Implemented(r)' <=> Implemented(r))
      BY <1>1 DEF BeginTick, Reclaimed, Implemented
    <3> QED BY <3>1, <3>2, SameLedger
  <2>2. /\ pc = "idle" /\ pc' = "deciding"
        /\ (faults' = faults /\ told') \/ faults' = faults + 1
    BY <1>1 DEF BeginTick, Goto, AllWell
  <2> QED BY <1>0, <2>1, <2>2 DEF StuckInv, Counted
<1>2. CASE StartRun
  <2>1. PICK role \in { "implement", "review" } :
          /\ Act(role) \in Decided
          /\ runs' = Append(runs, [role |-> role, status |-> "starting",
                                   startedAt |-> now', tick |-> ticks])
    BY <1>2 DEF StartRun
  <2> DEFINE e == [role |-> role, status |-> "starting", startedAt |-> now', tick |-> ticks]
  <2>2. e \in RunRows
    BY DEF RunRows, TypeOK
  <2>3. Grown(runs, runs', e)
    BY <2>1, <2>2, AppendGrows DEF TypeOK
  <2>4. Open' = Open /\ Repeated' = Repeated
    <3>1. UNCHANGED rounds
      BY <1>2 DEF StartRun
    <3>2. ASSUME NEW r \in DOMAIN runs', Implemented(r)' PROVE r \in DOMAIN runs
      BY <2>3, <3>2 DEF Implemented, Grown
    <3>3. \A r \in DOMAIN runs : r \in DOMAIN runs' /\ runs'[r] = runs[r]
      BY <2>3 DEF Grown
    <3>4. \A r \in DOMAIN runs : Implemented(r)' <=> Implemented(r)
      BY <3>3 DEF Implemented
    <3> QED BY <3>1, <3>2, <3>3, <3>4, SameLedger
  <2>5. pc = "deciding" /\ pc' = "acting" /\ UNCHANGED << faults, told >>
    BY <1>2 DEF StartRun, Goto, tick
  <2>6. Len(runs') = Len(runs) + 1 /\ runs'[Len(runs')].role = role
    BY <2>3 DEF Grown
  <2>7. told /\ role = "implement" => TrailingRepeatedAttempts < MaxUnchanged
    BY <2>1, GuardStopsRepetition
  <2>8. TrailingRepeatedAttempts' = TrailingRepeatedAttempts
    BY <2>4 DEF TrailingRepeatedAttempts, Repeated
  <2> QED BY <1>0, <2>4, <2>5, <2>6, <2>7, <2>8 DEF StuckInv, Counted
<1>3. CASE FinishRun
  <2> DEFINE L == Len(runs)
  <2>1. /\ pc = "acting" /\ pc' = "saving" /\ UNCHANGED << rounds, faults, told >>
        /\ L \in DOMAIN runs /\ runs[L].tick = ticks /\ runs[L].status = "starting"
    BY <1>3 DEF FinishRun, Goto, tick, OneRunPerTick
  <2>2. PICK s \in { "completed", "failed" } :
          runs' = [ runs EXCEPT ![L] = [ @ EXCEPT !.status = s ] ]
    BY <1>3 DEF FinishRun
  <2>3. \A r \in DOMAIN runs : runs[r] \in RunRows
    BY ElementOfSeq DEF TypeOK
  <2>4. /\ DOMAIN runs' = DOMAIN runs
        /\ \A r \in DOMAIN runs : r # L => runs'[r] = runs[r]
        /\ runs'[L].role = runs[L].role /\ runs'[L].startedAt = runs[L].startedAt /\ runs'[L].status = s
    BY <2>1, <2>2, <2>3 DEF RunRows
  <2>5. CASE ~(s = "completed" /\ runs[L].role = "implement")
    <3>1. \A r \in DOMAIN runs : Implemented(r)' <=> Implemented(r)
      BY <2>1, <2>4, <2>5 DEF Implemented
    <3>2. Open' = Open /\ Repeated' = Repeated
      BY <2>1, <2>4, <3>1, SameLedger
    <3> QED BY <1>0, <2>1, <3>2 DEF StuckInv, Counted
  <2>6. CASE s = "completed" /\ runs[L].role = "implement"
    <3>1. L \notin Counted
      BY <2>1 DEF Counted, Repeated, Open, Countable
    <3>2. Open' = Open \cup { L } /\ Repeated' = Repeated
      <4>1. \A r \in DOMAIN runs : (Closed(r)' <=> Closed(r)) /\ Outcome(r)' = Outcome(r)
        BY <2>1, <2>4, SameJudgement
      <4>2. ~Closed(L)
        BY <2>1, OwnRunIsOpen DEF Busy
      <4>3. \A r \in DOMAIN runs : Countable(r)' <=> Countable(r)
        BY <2>4, <4>1, <4>2 DEF Countable
      <4>4. \A r \in DOMAIN runs : SameAsLast(r)' <=> SameAsLast(r)
        BY <2>4, <4>1, <4>3 DEF SameAsLast
      <4>5. Repeated' = Repeated
        BY <2>4, <4>3, <4>4 DEF Repeated
      <4>6. \A r \in DOMAIN runs : r \in Open' <=> r \in Open \/ r = L
        BY <2>1, <2>4, <2>6, <4>1, <4>2 DEF Open
      <4>7. Open \subseteq DOMAIN runs /\ Open' \subseteq DOMAIN runs
        BY <2>4 DEF Open
      <4> QED BY <2>1, <4>5, <4>6, <4>7
    <3>3. Counted' = Counted \cup { L } /\ L \notin Open
      BY <3>1, <3>2 DEF Counted
    <3>4. /\ Cardinality(Counted') = Cardinality(Counted) + 1
          /\ Cardinality(Open') = Cardinality(Open) + 1
      BY <3>1, <3>2, <3>3, FS_AddElement
    <3>5. told => TrailingRepeatedAttempts < MaxUnchanged
      BY <2>1, <2>6 DEF StuckInv
    <3> QED BY <1>0, <2>1, <3>4, <3>5 DEF StuckInv
  <2> QED BY <2>5, <2>6
<1>4. CASE NoRunThisTick \/ SaveSnapshot \/ Die \/ UNCHANGED vars
  <2>1. UNCHANGED << runs, rounds >>
    BY <1>4 DEF NoRunThisTick, SaveSnapshot, Die, vars, tables
  <2>2. Open' = Open /\ Repeated' = Repeated
    <3>1. \A r \in DOMAIN runs : Implemented(r)' <=> Implemented(r)
      BY <2>1 DEF Implemented
    <3> QED BY <2>1, <3>1, SameLedger
  <2>3. \/ faults' = faults + 1 /\ pc' = "idle"
        \/ faults' = faults /\ pc' \in { "saving", "saved" }
        \/ UNCHANGED << faults, pc, told >>
    BY <1>4 DEF NoRunThisTick, SaveSnapshot, Die, Goto, vars, tick
  <2>4. /\ Counted' = Counted /\ Open' = Open /\ TrailingRepeatedAttempts' = TrailingRepeatedAttempts
        /\ runs' = runs
    BY <2>1, <2>2 DEF Counted, TrailingRepeatedAttempts, Repeated
  <2>5. CASE UNCHANGED << faults, pc, told >>
    BY <2>4, <2>5 DEF StuckInv
  <2>6. CASE (faults' = faults + 1 /\ pc' = "idle") \/ (faults' = faults /\ pc' \in { "saving", "saved" })
    <3>1. Cardinality(Open) <= 2 + faults
      BY <1>0 DEF StuckInv
    <3>2. Cardinality(Open') <= (IF pc' \in { "saving", "saved" } THEN 2 ELSE 1) + faults'
      BY <1>0, <2>4, <2>6, <3>1
    <3>3. Cardinality(Counted') <= MaxUnchanged + 1 + faults'
      BY <1>0, <2>4, <2>6 DEF StuckInv
    <3>4. pc' \notin { "deciding", "acting" }
      BY <2>6
    <3> QED BY <3>2, <3>3, <3>4 DEF StuckInv
  <2> QED BY <2>3, <2>5, <2>6
<1>5. CASE SaveVerifications
  <2>1. pc = "saved" /\ pc' \in { "idle", "completed" } /\ UNCHANGED << runs, faults >>
    BY <1>5 DEF SaveVerifications
  <2>2. PICK e : Grown(rounds, rounds', e) /\ e.verifiedAt = observedAt /\ e.tick = ticks
    BY <1>5, RoundIsAdded
  <2>3. InTick
    BY <2>1 DEF TimeInv, Busy
  <2>4. \A r \in DOMAIN runs : Closed(r) => Closed(r)' /\ Outcome(r)' = Outcome(r)
    BY ClosedForGood
  <2>5. \A r \in DOMAIN runs : Countable(r) => Countable(r)' /\ Outcome(r)' = Outcome(r)
    BY <2>1, <2>4 DEF Countable
  <2>6. Open' \subseteq Open
    BY <2>1, <2>4 DEF Open
  <2>7. \A r \in DOMAIN runs : Countable(r) /\ SameAsLast(r)' => SameAsLast(r)
    BY <2>1, <2>5 DEF SameAsLast
  <2>8. Repeated' \subseteq Counted
    BY <2>1, <2>7 DEF Repeated, Counted, Open, Countable
  <2>9. \A r \in Open' : runs[r].tick = ticks
    <3> SUFFICES ASSUME NEW r \in DOMAIN runs, runs[r].tick # ticks PROVE Closed(r)'
      BY <2>1 DEF Open
    <3> DEFINE Y == { i \in DOMAIN rounds' : rounds'[i].verifiedAt > runs'[r].startedAt }
    <3>1. runs[r].startedAt < observedAt
      BY <1>0, <2>3 DEF InTick, TimeInv
    <3>2. Len(rounds) + 1 \in Y /\ Y \subseteq Nat \ { 0 }
      BY <2>1, <2>2, <3>1 DEF Grown
    <3>3. PICK i \in Y : \A j \in Y : i <= j
      BY <3>2, FirstOne
    <3>4. (ClosingRound(runs[r].startedAt))' \in Y
      BY <3>2, <3>3 DEF ClosingRound, YoungerThan
    <3> QED BY <3>2, <3>4 DEF Closed, NoRound
  <2>10. Cardinality(Open') <= 1 /\ Cardinality(Open') \in Nat
    <3>1. \A r, s \in Open' : r = s
      BY <2>1, <2>6, <2>9 DEF Open, OneRunPerTick
    <3>2. CASE Open' = {}
      BY <3>2, FS_EmptySet
    <3>3. CASE Open' # {}
      <4>1. PICK r \in Open' : TRUE
        BY <3>3
      <4>2. Open' = { r }
        BY <3>1, <4>1
      <4>3. Cardinality({ r }) = 1
        BY FS_Singleton
      <4> QED BY <4>2, <4>3
    <3> QED BY <3>2, <3>3
  <2>11. Cardinality(Counted') <= Cardinality(Counted) /\ Cardinality(Counted') \in Nat
    <3>1. Counted' \subseteq Counted
      BY <2>6, <2>8 DEF Counted
    <3> QED BY <3>1, FS_Subset, FS_CardinalityType
  <2> QED BY <1>0, <2>1, <2>10, <2>11 DEF StuckInv
<1> QED BY <1>1, <1>2, <1>3, <1>4, <1>5 DEF Next

(* Loop detection by the attempts (decide(), trailingRepeatedAttempts): an *)
(* implementer that ends in the same result again and again is stopped,    *)
(* for any limit, and late only by the ticks that failed.                  *)
THEOREM RepetitionIsStopped == Spec => []StuckImplementerStopped
<1>1. Init => TimeInv /\ OneRunPerTick /\ StuckInv
  <2> SUFFICES ASSUME Init PROVE TimeInv /\ OneRunPerTick /\ StuckInv
    OBVIOUS
  <2>1. runs = << >> /\ rounds = << >> /\ snapshots = << >> /\ pc = "idle" /\ faults = 0
    BY DEF Init
  <2>2. TimeInv /\ OneRunPerTick
    BY <2>1 DEF TimeInv, OneRunPerTick, Busy
  <2>3. Open = {} /\ Counted = {}
    BY <2>1 DEF Open, Counted, Repeated
  <2> QED BY <2>1, <2>2, <2>3, FS_EmptySet, AttemptsAssumption DEF StuckInv
<1>2. TypeOK /\ StuckInv => StuckImplementerStopped
  BY CountedIs DEF StuckInv, StuckImplementerStopped
<1> QED BY <1>1, <1>2, TypeCorrect, TimeStep, OneRunStep, StuckStep, PTL DEF Spec
=============================================================================
