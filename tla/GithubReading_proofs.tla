------------------------ MODULE GithubReading_proofs ------------------------
(* The theorems about GithubReading, for any number of workflow runs, any  *)
(* size of a page and any number of people, reviews and comments.          *)
EXTENDS GithubReading, TLAPS, FiniteSetTheorems, SequenceTheorems, WellFoundedInduction

(* The greatest element of a set of positions.                             *)
LEMMA LastOne ==
  ASSUME NEW n \in Nat, NEW S, S \subseteq 1..n, S # {}
  PROVE  \E i \in S : \A j \in S : j <= i
<1> DEFINE T == { m \in Nat : n - m \in S }
<1>1. T \subseteq Nat /\ T # {}
  <2>1. PICK i \in S : TRUE
    OBVIOUS
  <2>2. n - i \in T
    BY <2>1
  <2> QED BY <2>2
<1> DEFINE Less == { ss \in Nat \X Nat : ss[1] < ss[2] }
<1>2. IsWellFoundedOn(Less, Nat)
  BY NatLessThanWellFounded DEF OpToRel
<1> HIDE DEF T, Less
<1>3. PICK m \in T : \A k \in T : << k, m >> \notin Less
  BY <1>1, <1>2, WFMin
<1> USE DEF T, Less
<1>5. \A k \in T : ~(k < m)
  BY <1>1, <1>3
<1>4. \A j \in S : j <= n - m
  <2> TAKE j \in S
  <2>1. n - j \in T
    OBVIOUS
  <2>2. ~(n - j < m)
    BY <1>5, <2>1
  <2> QED BY <1>1, <1>3, <2>2
<1> QED BY <1>3, <1>4

-----------------------------------------------------------------------------
(* CI.  A run with a failed job has ended, and not in success; and once    *)
(* the list shows every run, ended, each that had a failed job is started  *)
(* again, found to have failed, or still to be asked for and as it was.    *)
CiRows == [workflow : Workflows, status : { "queued", "waiting", "completed", "deleted" },
           conclusion : { "" } \cup Conclusions, failing : BOOLEAN]

RowsInv ==
  /\ ci \in Seq(CiRows)
  /\ \A r \in DOMAIN ci :
       ci[r].failing => ci[r].status = "completed" /\ ci[r].conclusion \in Conclusions \ { "success" }

WholeList == ~truncated /\ \A r \in DOMAIN page : page[r]

Accounted(r) == r \in redone \/ r \in failedJobs \/ (r \in toRead /\ ci[r].failing)

CountInv ==
  /\ RowsInv
  /\ failedJobs \subseteq DOMAIN ci /\ toRead \subseteq DOMAIN ci
  /\ pc = "listing" => toRead = {}
  /\ subject = "ci" /\ pc \in { "reading", "read" } /\ WholeList =>
       open = {} /\ \A r \in red : Accounted(r)
  /\ count # Unknown => pc = "read" /\ toRead = {} /\ subject = "ci"
  /\ count = 0 => WholeList /\ failedJobs = {}

(* A new or restarted run is a run without failed jobs.                    *)
LEMMA FreshRow ==
  ASSUME NEW w \in Workflows
  PROVE  Fresh(w) \in CiRows /\ ~Fresh(w).failing
  BY DEF Fresh, CiRows

(* Changing a run.                                                         *)
LEMMA RowChanged ==
  ASSUME RowsInv, NEW r \in DOMAIN ci, NEW row \in CiRows, ci' = [ci EXCEPT ![r] = row],
         row.failing => row.status = "completed" /\ row.conclusion \in Conclusions \ { "success" }
  PROVE  RowsInv' /\ DOMAIN ci' = DOMAIN ci /\ \A s \in DOMAIN ci : s # r => ci'[s] = ci[s]
<1>1. ci \in [1..Len(ci) -> CiRows] /\ Len(ci) \in Nat /\ DOMAIN ci = 1..Len(ci)
  BY LenProperties DEF RowsInv
<1>2. ci' \in [1..Len(ci) -> CiRows]
  BY <1>1
<1>3. ci' \in Seq(CiRows)
  BY <1>1, <1>2, SeqDef
<1> QED BY <1>1, <1>2, <1>3 DEF RowsInv

(* What happens to a run on GitHub before the list is read.                *)
LEMMA ActionsBefore ==
  ASSUME RowsInv, \/ \E w \in Workflows : Trigger(w)
                  \/ \E r \in DOMAIN ci : \/ HoldForApproval(r)
                                          \/ \E c \in Conclusions, failing \in BOOLEAN : Conclude(r, c, failing)
  PROVE  RowsInv' /\ DOMAIN ci \subseteq DOMAIN ci'
         /\ UNCHANGED << page, truncated, toRead, failedJobs, count, open, red, redone >>
<1>1. ci \in [1..Len(ci) -> CiRows] /\ Len(ci) \in Nat /\ DOMAIN ci = 1..Len(ci)
  BY LenProperties DEF RowsInv
<1>2. ASSUME NEW w \in Workflows, Trigger(w)
      PROVE  RowsInv' /\ DOMAIN ci \subseteq DOMAIN ci'
  <2>1. /\ ci' \in Seq(CiRows) /\ Len(ci') = Len(ci) + 1
        /\ \A i \in 1..Len(ci) : ci'[i] = ci[i]
        /\ ci'[Len(ci) + 1] = Fresh(w)
    BY <1>2, FreshRow, AppendProperties DEF Trigger, RowsInv
  <2>2. DOMAIN ci' = 1..(Len(ci) + 1)
    BY <2>1, LenProperties
  <2> QED BY <1>1, <2>1, <2>2, FreshRow DEF RowsInv
<1>3. ASSUME NEW r \in DOMAIN ci, HoldForApproval(r)
      PROVE  RowsInv' /\ DOMAIN ci \subseteq DOMAIN ci'
  <2> DEFINE row == [ci[r] EXCEPT !.status = "waiting"]
  <2>1. ci[r] \in CiRows /\ ~ci[r].failing
    BY <1>1, <1>3 DEF HoldForApproval, RowsInv
  <2>2. row \in CiRows /\ ~row.failing
    BY <2>1 DEF CiRows
  <2>3. ci' = [ci EXCEPT ![r] = row]
    BY <1>3 DEF HoldForApproval
  <2> QED BY <2>2, <2>3, RowChanged
<1>4. ASSUME NEW r \in DOMAIN ci, NEW c \in Conclusions, NEW failing \in BOOLEAN, Conclude(r, c, failing)
      PROVE  RowsInv' /\ DOMAIN ci \subseteq DOMAIN ci'
  <2> DEFINE row == [ci[r] EXCEPT !.status = "completed", !.conclusion = c, !.failing = failing]
  <2>1. ci[r] \in CiRows
    BY <1>1, <1>4
  <2>2. row \in CiRows /\ row.status = "completed" /\ row.conclusion = c /\ row.failing = failing
    BY <2>1 DEF CiRows
  <2>3. ci' = [ci EXCEPT ![r] = row] /\ (failing => c # "success")
    BY <1>4 DEF Conclude
  <2> QED BY <2>2, <2>3, RowChanged
<1> QED BY <1>2, <1>3, <1>4 DEF Trigger, HoldForApproval, Conclude

(* And afterwards: the run is started again or deleted.                    *)
LEMMA ActionsAfter ==
  ASSUME RowsInv, NEW r \in DOMAIN ci, StartAgain(r) \/ Delete(r)
  PROVE  /\ RowsInv' /\ DOMAIN ci' = DOMAIN ci /\ redone' = redone \cup { r }
         /\ \A s \in DOMAIN ci : s # r => ci'[s] = ci[s]
         /\ UNCHANGED << page, truncated, toRead, failedJobs, count, open, red >>
<1>1. ci[r] \in CiRows
  BY LenProperties, ElementOfSeq DEF RowsInv
<1>2. CASE StartAgain(r)
  <2>1. ci[r].workflow \in Workflows
    BY <1>1 DEF CiRows
  <2> QED BY <1>2, <2>1, FreshRow, RowChanged DEF StartAgain
<1>3. CASE Delete(r)
  <2> DEFINE row == [ci[r] EXCEPT !.status = "deleted", !.failing = FALSE]
  <2>1. row \in CiRows /\ ~row.failing
    BY <1>1 DEF CiRows
  <2>2. ci' = [ci EXCEPT ![r] = row]
    BY <1>3 DEF Delete
  <2> QED BY <1>3, <2>1, <2>2, RowChanged DEF Delete
<1> QED BY <1>2, <1>3

(* The list: whole when it is not truncated.                               *)
LEMMA ListAccounts ==
  ASSUME CountInv, NEW missing \in BOOLEAN, ListRuns(missing)
  PROVE  /\ toRead' \subseteq DOMAIN ci
         /\ WholeList' => open' = {} /\ \A r \in red' : Accounted(r)'
<1>1. Len(ci) \in Nat /\ DOMAIN ci = 1..Len(ci) /\ Shown \subseteq DOMAIN ci
  BY LenProperties DEF CountInv, RowsInv, Shown
<1>2. DOMAIN page' = { s \in Shown : Counts(s) } /\ \A r \in DOMAIN page' : page'[r] = Ended(ci[r])
  BY DEF ListRuns
<1>3. toRead' = { r \in DOMAIN page' : page'[r] /\ MayHaveFailedJobs(ci[r]) } /\ ci' = ci
  BY DEF ListRuns
<1>4. ASSUME WholeList'
      PROVE  open' = {} /\ \A r \in red' : Accounted(r)'
  <2>1. Shown = DOMAIN ci
    <3>1. IsFiniteSet(1..Len(ci)) /\ Cardinality(1..Len(ci)) = Len(ci)
      <4>1. 1 \in Int /\ Len(ci) \in Int /\ (Len(ci) = 0 \/ Len(ci) >= 1)
        BY <1>1
      <4>2. Cardinality(1..Len(ci)) = IF 1 > Len(ci) THEN 0 ELSE Len(ci) - 1 + 1
        BY <4>1, FS_Interval
      <4> QED BY <1>1, <4>1, <4>2, FS_Interval
    <3>2. ~(Len(ci) > Cardinality(Shown))
      BY <1>4 DEF WholeList, ListRuns
    <3>3. IsFiniteSet(Shown) /\ Cardinality(Shown) <= Len(ci)
      BY <1>1, <3>1, FS_Subset
    <3>4. Cardinality(Shown) = Cardinality(1..Len(ci))
      BY <1>1, <3>1, <3>2, <3>3, FS_CardinalityType
    <3> QED BY <1>1, <3>1, <3>4, FS_Subset
  <2>2. \A r \in DOMAIN ci : Counts(r) => r \in DOMAIN page' /\ page'[r] /\ ci[r].status = "completed"
    BY <1>2, <1>4, <2>1 DEF WholeList, Ended
  <2>3. open' = {}
    BY <2>2 DEF ListRuns
  <2>4. ASSUME NEW r \in red'
        PROVE  r \in toRead' /\ ci'[r].failing
    <3>1. r \in DOMAIN ci /\ Counts(r) /\ ci[r].failing
      BY <2>4 DEF ListRuns
    <3>2. MayHaveFailedJobs(ci[r])
      BY <3>1 DEF CountInv, RowsInv, MayHaveFailedJobs, Conclusions
    <3> QED BY <1>3, <2>2, <3>1, <3>2
  <2> QED BY <2>3, <2>4 DEF Accounted
<1> QED BY <1>1, <1>2, <1>3, <1>4

LEMMA CountStep ==
  ASSUME CountInv, [Next]_vars
  PROVE  CountInv'
<1> USE ReadingAssumption DEF CountInv
<1>1. CASE GitHubActions
  <2>1. UNCHANGED << subject, pc >> /\ subject = "ci"
    BY <1>1 DEF GitHubActions
  <2>2. CASE pc = "listing"
    <3>1. /\ RowsInv' /\ DOMAIN ci \subseteq DOMAIN ci'
          /\ UNCHANGED << page, truncated, toRead, failedJobs, count, open, red, redone >>
      BY <1>1, <2>2, ActionsBefore DEF GitHubActions
    <3> QED BY <2>1, <2>2, <3>1 DEF WholeList
  <2>3. CASE pc # "listing"
    <3>1. PICK r \in toRead : StartAgain(r) \/ Delete(r)
      BY <1>1, <2>3 DEF GitHubActions
    <3>2. /\ RowsInv' /\ DOMAIN ci' = DOMAIN ci /\ redone' = redone \cup { r }
          /\ \A s \in DOMAIN ci : s # r => ci'[s] = ci[s]
          /\ UNCHANGED << page, truncated, toRead, failedJobs, count, open, red >>
      BY <3>1, ActionsAfter
    <3>3. \A s : Accounted(s) => Accounted(s)'
      BY <3>2 DEF Accounted
    <3> QED BY <2>1, <3>2, <3>3 DEF WholeList
  <2> QED BY <2>2, <2>3
<1>2. ASSUME NEW missing \in BOOLEAN, subject = "ci", UNCHANGED subject, ListRuns(missing)
      PROVE  CountInv'
  <2>1. pc = "listing" /\ pc' = "reading" /\ UNCHANGED << ci, failedJobs, count, redone >>
    BY <1>2 DEF ListRuns
  <2> QED BY <1>2, <2>1, ListAccounts DEF RowsInv
<1>3. ASSUME NEW r \in toRead, subject = "ci", UNCHANGED subject, ReadJobs(r)
      PROVE  CountInv'
  <2>1. /\ pc = "reading" /\ pc' = "reading" /\ toRead' = toRead \ { r }
        /\ UNCHANGED << ci, page, truncated, count, open, red, redone >>
        /\ failedJobs' = IF ci[r].failing THEN failedJobs \cup { r } ELSE failedJobs
    BY <1>3 DEF ReadJobs
  <2>2. \A s : Accounted(s) => Accounted(s)'
    BY <2>1 DEF Accounted
  <2>3. WholeList' <=> WholeList
    BY <2>1 DEF WholeList
  <2>4. count = Unknown /\ count' = Unknown /\ Unknown # 0
    BY <2>1
  <2>5. RowsInv' /\ failedJobs' \subseteq DOMAIN ci' /\ toRead' \subseteq DOMAIN ci'
    BY <2>1 DEF RowsInv
  <2> QED BY <1>3, <2>1, <2>2, <2>3, <2>4, <2>5
<1>4. CASE EndCi /\ subject = "ci" /\ UNCHANGED subject
  <2>1. /\ pc = "reading" /\ pc' = "read" /\ toRead = {}
        /\ UNCHANGED << ci, page, truncated, toRead, failedJobs, open, red, redone >>
        /\ count' = FailedJobCount
    BY <1>4 DEF EndCi
  <2>2. count' = 0 => WholeList /\ failedJobs = {}
    <3>1. IsFiniteSet(failedJobs)
      BY LenProperties, FS_Interval, FS_Subset DEF RowsInv
    <3>2. count' = 0 => WholeList /\ Cardinality(failedJobs) = 0
      BY <2>1 DEF FailedJobCount, WholeList
    <3> QED BY <3>1, <3>2, FS_EmptySet
  <2> QED BY <1>4, <2>1, <2>2 DEF WholeList, RowsInv, Accounted
<1>5. CASE NoCi /\ UNCHANGED subject
  BY <1>5 DEF NoCi, actions, RowsInv
<1>6. CASE Collaborators \/ ReadApproval
  <2>1. subject = "approval" /\ UNCHANGED << subject, ci, page, truncated, toRead, failedJobs, count, open, red, redone >>
    BY <1>6 DEF Collaborators, ReadApproval, actions
  <2>2. pc' = "listing" => pc = "listing"
    BY <1>6 DEF Collaborators, ReadApproval, LoadReviews, LoadComments, AskAccess, EndApproval, NoApproval
  <2> QED BY <2>1, <2>2 DEF RowsInv, WholeList
<1>7. CASE UNCHANGED vars
  BY <1>7 DEF vars, actions, WholeList, RowsInv, Accounted
<1> QED
  BY <1>1, <1>2, <1>3, <1>4, <1>5, <1>6, <1>7 DEF Next, ReadCi

(* A count of 0 vouches for the whole of CI at the time of the list.       *)
THEOREM ZeroVouchesForAll == Spec => []ZeroIsGreen
<1>1. Init => CountInv
  <2>1. <<>> \in Seq(CiRows) /\ DOMAIN <<>> = {}
    OBVIOUS
  <2>2. Init => ci = <<>> /\ failedJobs = {} /\ toRead = {} /\ count = Unknown
                /\ (subject = "ci" => pc = "listing")
    BY DEF Init
  <2> QED BY <2>1, <2>2, ReadingAssumption DEF CountInv, RowsInv
<1>2. CountInv => ZeroIsGreen
  <2>1. ASSUME CountInv, count = 0
        PROVE  open = {} /\ red \subseteq redone
    <3>1. count # Unknown
      BY <2>1, ReadingAssumption
    <3> QED BY <2>1, <3>1 DEF CountInv, Accounted
  <2> QED BY <2>1 DEF ZeroIsGreen
<1> QED BY <1>1, <1>2, CountStep, PTL DEF Spec

-----------------------------------------------------------------------------
(* The approval.  What has been read stays as it was read, and an approval *)
(* is given on it as a whole.                                              *)
Opined  == { "APPROVED", "CHANGES_REQUESTED" }
ReviewRows  == [user : Users, state : Opined \cup { "COMMENTED", "DISMISSED" }]
CommentRows == [user : Users, marked : BOOLEAN]

ApprovalInv ==
  /\ reviews \in Seq(ReviewRows) /\ comments \in Seq(CommentRows)
  /\ seen # Unknown => seen \in Seq(ReviewRows)
  /\ said # Unknown => said \in Seq(CommentRows)
  /\ approval # Unknown => /\ pc = "read" /\ Loaded /\ ~ChangesRequested
                           /\ approval \in Approvers

(* People add to the pull request and dismiss reviews.                     *)
LEMMA PeopleStep ==
  ASSUME ApprovalInv, Collaborators
  PROVE  reviews' \in Seq(ReviewRows) /\ comments' \in Seq(CommentRows)
<1>1. reviews \in [1..Len(reviews) -> ReviewRows] /\ Len(reviews) \in Nat
      /\ DOMAIN reviews = 1..Len(reviews)
  BY LenProperties DEF ApprovalInv
<1>2. ASSUME NEW u \in Users, NEW s \in { "APPROVED", "CHANGES_REQUESTED", "COMMENTED" }, Review(u, s)
      PROVE  reviews' \in Seq(ReviewRows) /\ comments' \in Seq(CommentRows)
  <2>1. [user |-> u, state |-> s] \in ReviewRows
    BY DEF ReviewRows, Opined
  <2> QED BY <1>2, <2>1, AppendProperties DEF Review, ApprovalInv
<1>3. ASSUME NEW u \in Users, NEW m \in BOOLEAN, Comment(u, m)
      PROVE  reviews' \in Seq(ReviewRows) /\ comments' \in Seq(CommentRows)
  <2>1. [user |-> u, marked |-> m] \in CommentRows
    BY DEF CommentRows
  <2> QED BY <1>3, <2>1, AppendProperties DEF Comment, ApprovalInv
<1>4. ASSUME NEW u \in Users, ChangeAccess(u)
      PROVE  reviews' \in Seq(ReviewRows) /\ comments' \in Seq(CommentRows)
  BY <1>4 DEF ChangeAccess, ApprovalInv
<1>5. ASSUME NEW i \in DOMAIN reviews, Dismiss(i)
      PROVE  reviews' \in Seq(ReviewRows) /\ comments' \in Seq(CommentRows)
  <2> DEFINE row == [reviews[i] EXCEPT !.state = "DISMISSED"]
  <2>1. row \in ReviewRows
    BY <1>1 DEF ReviewRows
  <2>2. reviews' = [reviews EXCEPT ![i] = row]
    BY <1>5 DEF Dismiss
  <2>3. reviews' \in [1..Len(reviews) -> ReviewRows]
    BY <1>1, <2>1, <2>2
  <2>4. reviews' \in Seq(ReviewRows)
    BY <1>1, <2>3, SeqDef
  <2> QED BY <1>5, <2>4 DEF Dismiss, ApprovalInv
<1> QED BY <1>2, <1>3, <1>4, <1>5 DEF Collaborators

LEMMA ApprovalStep ==
  ASSUME ApprovalInv, [Next]_vars
  PROVE  ApprovalInv'
<1> USE DEF ApprovalInv
<1> DEFINE Kept == UNCHANGED << seen, said, asked, approval >>
<1>1. Kept => (Loaded' <=> Loaded) /\ (ChangesRequested' <=> ChangesRequested) /\ Approvers' = Approvers
  BY DEF Loaded, ChangesRequested, LatestReview, Opinions, Approvers, ByReview, ByComment
<1>2. CASE Collaborators
  <2>1. Kept /\ UNCHANGED pc
    BY <1>2 DEF Collaborators
  <2> QED BY <1>1, <1>2, <2>1, PeopleStep
<1>3. CASE (LoadReviews \/ LoadComments \/ (\E u \in Users : AskAccess(u)) \/ NoApproval)
           /\ UNCHANGED << reviews, comments >>
  <2>1. pc = "reading"
    BY <1>3 DEF LoadReviews, LoadComments, AskAccess, NoApproval
  <2>2. approval = Unknown /\ approval' = Unknown
    BY <1>3, <2>1 DEF LoadReviews, LoadComments, AskAccess, NoApproval
  <2>3. seen' \in { seen, reviews } /\ said' \in { said, comments }
    BY <1>3 DEF LoadReviews, LoadComments, AskAccess, NoApproval
  <2> QED BY <1>3, <2>2, <2>3
<1>4. CASE EndApproval /\ UNCHANGED << reviews, comments >>
  <2>1. pc' = "read" /\ Loaded /\ UNCHANGED << seen, said, asked >>
        /\ (approval' = Unknown \/ (~ChangesRequested /\ approval' \in Approvers))
    BY <1>4 DEF EndApproval
  <2>2. (Loaded' <=> Loaded) /\ (ChangesRequested' <=> ChangesRequested) /\ Approvers' = Approvers
    BY <2>1 DEF Loaded, ChangesRequested, LatestReview, Opinions, Approvers, ByReview, ByComment
  <2> QED BY <1>4, <2>1, <2>2
<1>5. CASE GitHubActions \/ ReadCi
  <2>1. Kept /\ UNCHANGED << reviews, comments >>
    BY <1>5 DEF GitHubActions, ReadCi, pulls
  <2>2. pc = "read" => pc' = "read"
    BY <1>5 DEF GitHubActions, ReadCi, ListRuns, ReadJobs, EndCi, NoCi
  <2> QED BY <1>1, <2>1, <2>2
<1>6. CASE UNCHANGED vars
  <2>1. Kept /\ UNCHANGED << reviews, comments, pc >>
    BY <1>6 DEF vars, pulls
  <2> QED BY <1>1, <2>1
<1> QED BY <1>2, <1>3, <1>4, <1>5, <1>6 DEF Next, ReadApproval

(* The last opinion of somebody who has one.                               *)
LEMMA LastOpinion ==
  ASSUME NEW list \in Seq(ReviewRows), NEW u \in Users, Opinions(list, u) # {}
  PROVE  \E i \in Opinions(list, u) : /\ \A j \in Opinions(list, u) : j <= i
                                      /\ LatestReview(list, u) = list[i].state
<1>1. Len(list) \in Nat /\ DOMAIN list = 1..Len(list)
  BY LenProperties
<1>2. Opinions(list, u) \subseteq 1..Len(list)
  BY <1>1 DEF Opinions
<1>3. \E i \in Opinions(list, u) : \A j \in Opinions(list, u) : j <= i
  BY <1>1, <1>2, LastOne
<1> DEFINE m == CHOOSE i \in Opinions(list, u) : \A j \in Opinions(list, u) : j <= i
<1>4. m \in Opinions(list, u) /\ \A j \in Opinions(list, u) : j <= m
  BY <1>3
<1>5. LatestReview(list, u) = list[m].state
  BY DEF LatestReview
<1> HIDE DEF m
<1> QED BY <1>4, <1>5

(* An approval is given by whoever may give it, and against nobody's       *)
(* standing request for changes, although reviews, comments and access     *)
(* are read one after the other while they change.                         *)
THEOREM ApprovalsAreGenuine == Spec => []ApprovalIsGenuine
<1>1. Init => ApprovalInv
  <2>1. <<>> \in Seq(ReviewRows) /\ <<>> \in Seq(CommentRows)
    OBVIOUS
  <2>2. Init => reviews = <<>> /\ comments = <<>> /\ seen = Unknown /\ said = Unknown /\ approval = Unknown
    BY DEF Init
  <2> QED BY <2>1, <2>2 DEF ApprovalInv
<1>2. ASSUME ApprovalInv, approval # Unknown
      PROVE  /\ asked[approval] /\ approval \in Permitted
             /\ Reviewed(approval) \/ Commented(approval)
             /\ \A i \in DOMAIN seen : seen[i].state = "CHANGES_REQUESTED" =>
                  \E j \in DOMAIN seen : j > i /\ seen[j] = [seen[i] EXCEPT !.state = "APPROVED"]
  <2>1. /\ seen \in Seq(ReviewRows) /\ said \in Seq(CommentRows)
        /\ ~ChangesRequested /\ approval \in Approvers
    BY <1>2 DEF ApprovalInv, Loaded
  <2>2. asked[approval] /\ approval \in Permitted /\ Permitted \subseteq Users
    BY <2>1, ReadingAssumption DEF Approvers, ByReview, ByComment
  <2>3. \A i \in DOMAIN seen : seen[i] \in ReviewRows /\ i \in Nat
    BY <2>1, LenProperties, ElementOfSeq
  <2>4. ASSUME approval \in ByReview PROVE Reviewed(approval)
    <3>1. approval # Author /\ LatestReview(seen, approval) = "APPROVED"
      BY <2>4 DEF ByReview
    <3>2. Opinions(seen, approval) # {}
      BY <3>1 DEF LatestReview
    <3>3. PICK i \in Opinions(seen, approval) : seen[i].state = "APPROVED"
      BY <2>1, <2>2, <3>1, <3>2, LastOpinion
    <3>4. i \in DOMAIN seen /\ seen[i].user = approval
      BY <3>3 DEF Opinions
    <3>5. seen[i] = [user |-> approval, state |-> "APPROVED"]
      BY <2>3, <3>3, <3>4 DEF ReviewRows
    <3> QED BY <3>1, <3>4, <3>5 DEF Reviewed
  <2>5. ASSUME approval \in ByComment PROVE Commented(approval)
    <3>1. PICK i \in DOMAIN said : said[i].user = approval /\ ~said[i].marked
      BY <2>5 DEF ByComment
    <3>2. said[i] \in CommentRows
      BY <2>1, <3>1, LenProperties, ElementOfSeq
    <3>3. said[i].marked = FALSE
      BY <3>1, <3>2 DEF CommentRows
    <3>4. said[i] = [user |-> approval, marked |-> FALSE]
      BY <3>1, <3>2, <3>3 DEF CommentRows
    <3> QED BY <3>1, <3>4 DEF Commented
  <2>6. ASSUME NEW i \in DOMAIN seen, seen[i].state = "CHANGES_REQUESTED"
        PROVE  \E j \in DOMAIN seen : j > i /\ seen[j] = [seen[i] EXCEPT !.state = "APPROVED"]
    <3> DEFINE u == seen[i].user
    <3>1. u \in Users /\ i \in Opinions(seen, u)
      BY <2>3, <2>6 DEF ReviewRows, Opinions
    <3>2. PICK j \in Opinions(seen, u) : i <= j /\ LatestReview(seen, u) = seen[j].state
      BY <2>1, <3>1, LastOpinion
    <3>3. LatestReview(seen, u) # "CHANGES_REQUESTED"
      BY <2>1, <3>1 DEF ChangesRequested
    <3>4. j \in DOMAIN seen /\ seen[j].user = u /\ seen[j].state = "APPROVED"
      BY <3>2, <3>3 DEF Opinions
    <3>5. j > i
      BY <2>3, <2>6, <3>2, <3>4
    <3>6. seen[j] = [seen[i] EXCEPT !.state = "APPROVED"]
      BY <2>3, <3>4 DEF ReviewRows
    <3> QED BY <3>4, <3>5, <3>6
  <2> QED BY <2>1, <2>2, <2>4, <2>5, <2>6 DEF Approvers
<1>3. ApprovalInv => ApprovalIsGenuine
  BY <1>2 DEF ApprovalIsGenuine
<1> QED BY <1>1, <1>3, ApprovalStep, PTL DEF Spec
=============================================================================
