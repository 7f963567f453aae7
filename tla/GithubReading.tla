--------------------------- MODULE GithubReading ---------------------------
(***************************************************************************)
(* What a tick reads of GitHub to complete a Goal, in several requests     *)
(* while the world goes on (packages/ent/src/adapters/github.ts):          *)
(*                                                                         *)
(*  - getLatestCiRun lists the workflow runs of a commit and then asks for *)
(*    the jobs of each run that may have failed, for the Fact              *)
(*    github.ci.failed_job_count that a criterion compares with 0;         *)
(*  - getApproval reads reviews and comments of the pull request and then  *)
(*    asks of one person after the other whether they have write access.   *)
(*                                                                         *)
(* The two share nothing, so a behaviour is about one of them: subject.    *)
(***************************************************************************)
EXTENDS Integers, Sequences, FiniteSets

CONSTANTS
  Workflows,   (* names of workflows                                        *)
  Excluded,    (* repository.ci.exclude_workflows                           *)
  PageSize,    (* per_page                                                  *)
  MaxRuns,     (* bound: workflow runs of the commit                        *)
  Users,
  Author,      (* who opened the pull request                               *)
  Permitted,   (* whose author_association is OWNER, MEMBER or COLLABORATOR *)
  MaxReviews,  (* bound: reviews                                            *)
  MaxComments, (* bound: comments                                           *)
  Unknown      (* null                                                      *)

ASSUME ReadingAssumption ==
  /\ Excluded \subseteq Workflows
  /\ Author \in Users /\ Permitted \subseteq Users
  /\ PageSize \in Nat \ {0} /\ MaxRuns \in Nat /\ MaxReviews \in Nat /\ MaxComments \in Nat
  /\ Unknown \notin Nat /\ Unknown \notin Users

VARIABLES
  subject,     (* "ci" or "approval"                                        *)
  pc,
  (* GitHub Actions, and what the tick knows of it *)
  ci,          (* runs of the commit, oldest first                          *)
  page,        (* the runs listed that count, by whether they had ended     *)
  truncated,   (* whether there may be runs that are not listed             *)
  toRead,      (* runs whose jobs are still to be asked for                 *)
  failedJobs,  (* runs that turned out to have a failed job                 *)
  count,       (* github.ci.failed_job_count, Unknown where there is none   *)
  open, red,   (* history: the runs that count and that, at the time of the *)
               (* list, had not ended, or had a failed job                  *)
  redone,      (* history: runs started again or deleted since              *)
  (* the pull request, and what the tick knows of it *)
  reviews,     (* [user, state]                                             *)
  comments,    (* [user, marked]: each holds the line /ent approve          *)
  access,      (* who has write access                                      *)
  seen,        (* reviews as read, Unknown before                           *)
  said,        (* comments as read, Unknown before                          *)
  asked,       (* answers of the permission API that the tick remembers     *)
  approval     (* who approved, or Unknown                                  *)

actions == << ci, page, truncated, toRead, failedJobs, count, open, red, redone >>
pulls   == << reviews, comments, access, seen, said, asked, approval >>
vars    == << subject, pc, actions, pulls >>

Nothing == [x \in {} |-> {}]
Put(f, x, y) == [z \in DOMAIN f \cup { x } |-> IF z = x THEN y ELSE f[z]]

-----------------------------------------------------------------------------
(* GitHub Actions.  A run that succeeded or was skipped has no failed job; *)
(* one that ended otherwise may have: a failure in starting up leaves none.*)
(* Once the list is read, only runs whose jobs will be asked for matter.   *)
Conclusions == { "success", "failure", "cancelled" }
Fresh(w) == [workflow |-> w, status |-> "queued", conclusion |-> "", failing |-> FALSE]

Trigger(w) ==
  /\ Len(ci) < MaxRuns
  /\ ci' = Append(ci, Fresh(w))
  /\ UNCHANGED << page, truncated, toRead, failedJobs, count, open, red, redone >>

HoldForApproval(r) ==
  /\ ci[r].status = "queued"
  /\ ci' = [ci EXCEPT ![r] = [@ EXCEPT !.status = "waiting"]]
  /\ UNCHANGED << page, truncated, toRead, failedJobs, count, open, red, redone >>

Conclude(r, c, failing) ==
  /\ ci[r].status \in { "queued", "waiting" }
  /\ failing => c # "success"
  /\ ci' = [ci EXCEPT ![r] = [@ EXCEPT !.status = "completed", !.conclusion = c,
                                       !.failing = failing]]
  /\ UNCHANGED << page, truncated, toRead, failedJobs, count, open, red, redone >>

(* Once the jobs of a run are started again, the list of its jobs shows    *)
(* the new ones; a run that was deleted has none (404).                    *)
StartAgain(r) ==
  /\ ci[r].status = "completed" /\ r \notin redone
  /\ ci' = [ci EXCEPT ![r] = Fresh(ci[r].workflow)]
  /\ redone' = redone \cup { r }
  /\ UNCHANGED << page, truncated, toRead, failedJobs, count, open, red >>

Delete(r) ==
  /\ ci[r].status = "completed" /\ r \notin redone
  /\ ci' = [ci EXCEPT ![r] = [@ EXCEPT !.status = "deleted", !.failing = FALSE]]
  /\ redone' = redone \cup { r }
  /\ UNCHANGED << page, truncated, toRead, failedJobs, count, open, red >>

GitHubActions ==
  /\ subject = "ci"
  /\ \/ /\ pc = "listing"
        /\ \/ \E w \in Workflows : Trigger(w)
           \/ \E r \in DOMAIN ci :
                \/ HoldForApproval(r)
                \/ \E c \in Conclusions, failing \in BOOLEAN : Conclude(r, c, failing)
     \/ \E r \in toRead : StartAgain(r) \/ Delete(r)
  /\ UNCHANGED << subject, pc, pulls >>

(* settled, unlike statusOf, takes no unknown word for the end of a run.   *)
(* Mutant: whatever is neither queued nor in progress has ended.           *)
EndedByStatusOf(run) == run.status \notin { "queued", "in_progress" }

Ended(run) == run.status = "completed"

MayHaveFailedJobs(run) == run.conclusion \notin { "success", "skipped" }

(* One page of runs, the newest first; total_count may be missing.         *)
Counts(r) == ci[r].workflow \notin Excluded
Shown == { r \in DOMAIN ci : r > Len(ci) - PageSize }

ListRuns(totalMissing) ==
  /\ pc = "listing" /\ pc' = "reading"
  /\ Shown # {}
  /\ page' = [r \in { s \in Shown : Counts(s) } |-> Ended(ci[r])]
  /\ truncated' = (totalMissing \/ Len(ci) > Cardinality(Shown))
  /\ toRead' = { r \in DOMAIN page' : page'[r] /\ MayHaveFailedJobs(ci[r]) }
  /\ open' = { r \in DOMAIN ci : Counts(r) /\ ci[r].status # "completed" }
  /\ red' = { r \in DOMAIN ci : Counts(r) /\ ci[r].failing }
  /\ UNCHANGED << ci, failedJobs, count, redone >>

(* failedJobsOf: the jobs as they are now.                                 *)
ReadJobs(r) ==
  /\ pc = "reading"
  /\ r \in toRead
  /\ toRead' = toRead \ { r }
  /\ failedJobs' = IF ci[r].failing THEN failedJobs \cup { r } ELSE failedJobs
  /\ UNCHANGED << pc, ci, page, truncated, count, open, red, redone >>

FailedJobCount ==
  IF ~truncated /\ \A r \in DOMAIN page : page[r] THEN Cardinality(failedJobs) ELSE Unknown

EndCi ==
  /\ pc = "reading" /\ toRead = {}
  /\ pc' = "read"
  /\ count' = FailedJobCount
  /\ UNCHANGED << ci, page, truncated, toRead, failedJobs, open, red, redone >>

(* There is no run, or a request failed: no Fact on CI comes of it.        *)
NoCi == pc \in { "listing", "reading" } /\ pc' = "failed" /\ UNCHANGED actions

ReadCi ==
  /\ subject = "ci"
  /\ \/ \E totalMissing \in BOOLEAN : ListRuns(totalMissing)
     \/ \E r \in toRead : ReadJobs(r)
     \/ EndCi
     \/ NoCi
  /\ UNCHANGED << subject, pulls >>

-----------------------------------------------------------------------------
(* The pull request.  The account of the controller is the author's: its   *)
(* own comments carry the progress marker.  What has been read is not      *)
(* looked at again, so that only what is still to be read changes.         *)

Review(u, state) ==
  /\ seen = Unknown /\ Len(reviews) < MaxReviews
  /\ reviews' = Append(reviews, [user |-> u, state |-> state])
  /\ UNCHANGED << comments, access >>

Dismiss(i) ==
  /\ seen = Unknown /\ reviews[i].state \in { "APPROVED", "CHANGES_REQUESTED" }
  /\ reviews' = [reviews EXCEPT ![i] = [@ EXCEPT !.state = "DISMISSED"]]
  /\ UNCHANGED << comments, access >>

Comment(u, marked) ==
  /\ said = Unknown /\ Len(comments) < MaxComments
  /\ marked => u = Author
  /\ comments' = Append(comments, [user |-> u, marked |-> marked])
  /\ UNCHANGED << reviews, access >>

ChangeAccess(u) ==
  /\ u \notin DOMAIN asked
  /\ access' = IF u \in access THEN access \ { u } ELSE access \cup { u }
  /\ UNCHANGED << reviews, comments >>

Collaborators ==
  /\ subject = "approval" /\ pc = "reading"
  /\ \E u \in Users :
       \/ \E s \in { "APPROVED", "CHANGES_REQUESTED", "COMMENTED" } : Review(u, s)
       \/ \E marked \in BOOLEAN : Comment(u, marked)
       \/ ChangeAccess(u)
       \/ \E i \in DOMAIN reviews : Dismiss(i)
  /\ UNCHANGED << subject, pc, actions, seen, said, asked, approval >>

(* latestReviewByUser: the last review that approves or asks for changes.  *)
Opinions(list, u) ==
  { i \in DOMAIN list : list[i].user = u /\ list[i].state \in { "APPROVED", "CHANGES_REQUESTED" } }

(* Mutant: the first opinion of a person counts, not the last.             *)
FirstReview(list, u) ==
  IF Opinions(list, u) = {} THEN "none"
  ELSE list[CHOOSE i \in Opinions(list, u) : \A j \in Opinions(list, u) : i <= j].state

LatestReview(list, u) ==
  IF Opinions(list, u) = {} THEN "none"
  ELSE list[CHOOSE i \in Opinions(list, u) : \A j \in Opinions(list, u) : j <= i].state

Loaded == seen # Unknown /\ said # Unknown
ChangesRequested == \E u \in Users : LatestReview(seen, u) = "CHANGES_REQUESTED"

ByReview  == { u \in Permitted \ { Author } : LatestReview(seen, u) = "APPROVED" }
ByComment == { u \in Permitted : \E i \in DOMAIN said : said[i].user = u /\ ~said[i].marked }

(* Reviews come before comments.                                           *)
ToAsk == IF ByReview \subseteq DOMAIN asked THEN ByComment \ DOMAIN asked
                                            ELSE ByReview \ DOMAIN asked
Approvers == { u \in (ByReview \cup ByComment) \cap DOMAIN asked : asked[u] }

(* The three requests of load() are under way together.                    *)
LoadReviews ==
  /\ pc = "reading" /\ seen = Unknown
  /\ seen' = reviews
  /\ UNCHANGED << pc, said, asked, approval >>

LoadComments ==
  /\ pc = "reading" /\ said = Unknown
  /\ said' = comments
  /\ UNCHANGED << pc, seen, asked, approval >>

(* hasWriteAccess: 404 is a no, every other failure ends the reading.      *)
AskAccess(u) ==
  /\ pc = "reading" /\ Loaded
  /\ ~ChangesRequested
  /\ Approvers = {}
  /\ u \in ToAsk
  /\ asked' = Put(asked, u, u \in access)
  /\ UNCHANGED << pc, seen, said, approval >>

EndApproval ==
  /\ pc = "reading" /\ Loaded
  /\ pc' = "read"
  /\ \/ /\ ChangesRequested \/ (Approvers = {} /\ ToAsk = {})
        /\ approval' = Unknown
     \/ /\ ~ChangesRequested
        /\ approval' \in Approvers
  /\ UNCHANGED << seen, said, asked >>

NoApproval ==
  /\ pc = "reading"
  /\ pc' = "failed"
  /\ UNCHANGED << seen, said, asked, approval >>

ReadApproval ==
  /\ subject = "approval"
  /\ LoadReviews \/ LoadComments \/ (\E u \in Users : AskAccess(u)) \/ EndApproval \/ NoApproval
  /\ UNCHANGED << subject, actions, reviews, comments, access >>

-----------------------------------------------------------------------------
Init ==
  /\ subject \in { "ci", "approval" }
  /\ pc = IF subject = "ci" THEN "listing" ELSE "reading"
  /\ ci = <<>> /\ page = Nothing /\ truncated = FALSE /\ toRead = {} /\ failedJobs = {}
  /\ count = Unknown /\ open = {} /\ red = {} /\ redone = {}
  /\ reviews = <<>> /\ comments = <<>> /\ access \in SUBSET Users
  /\ seen = Unknown /\ said = Unknown /\ asked = Nothing /\ approval = Unknown

Next == GitHubActions \/ ReadCi \/ Collaborators \/ ReadApproval

Spec == Init /\ [][Next]_vars

-----------------------------------------------------------------------------
(* A count of 0 is no accident of the moment: when the runs were listed,   *)
(* every run that counts had ended, whether the page showed it or not, and *)
(* every one with a failed job has been started again or deleted since.    *)
ZeroIsGreen == count = 0 => open = {} /\ red \subseteq redone

(* An approval is that of a person who has write access, of somebody else  *)
(* than the author where it is a review, and never a comment of the        *)
(* controller itself; and no request for changes that its reviewer has not *)
(* taken back stood against it when the reviews were read.                 *)
Reviewed(u)  == u # Author /\ \E i \in DOMAIN seen : seen[i] = [user |-> u, state |-> "APPROVED"]
Commented(u) == \E i \in DOMAIN said : said[i] = [user |-> u, marked |-> FALSE]

ApprovalIsGenuine ==
  approval # Unknown =>
    /\ asked[approval] /\ approval \in Permitted
    /\ Reviewed(approval) \/ Commented(approval)
    /\ \A i \in DOMAIN seen : seen[i].state = "CHANGES_REQUESTED" =>
         \E j \in DOMAIN seen : j > i /\ seen[j] = [seen[i] EXCEPT !.state = "APPROVED"]
=============================================================================
