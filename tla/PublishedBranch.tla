-------------------------- MODULE PublishedBranch --------------------------
(***************************************************************************)
(* What publish() promises to those who look at the repository (the        *)
(* comments at packages/ent/src/publish/index.ts:184 and :564, and at      *)
(* packages/core/src/domain/action.ts:122): nothing is opened without a    *)
(* difference or beside an open pull request; who is asked to open one     *)
(* finds the branch on the remote; a Goal completes on what was sent in    *)
(* the same round, with a pull request that exists, unless there was       *)
(* nothing to send or a call failed.  Once it is closed nobody is let in,  *)
(* and when those have left who found it open before, nothing more is      *)
(* published and it stays closed.                                          *)
(*                                                                         *)
(* A round says what it came to, and then closes the Goal or leaves it     *)
(* open; it may die before either.  Nothing here knows of what a row held  *)
(* when it was read, places in a tick, answers, notices or digests; Publish*)
(* implements it.                                                          *)
(***************************************************************************)
EXTENDS Integers

VARIABLES
  policy,   (* which steps are declared manual                              *)
  head,     (* commits of the branch                                        *)
  remote,   (* how many of them the remote has                              *)
  open,     (* the open pull requests                                       *)
  opened,   (* how many were ever opened                                    *)
  row,      (* the pull request in the Goal's row                           *)
  way,      (* how far this round has come                                  *)
  verdict,  (* what was said last                                           *)
  closed,   (* the Goal is at its end                                       *)
  admitted  (* somebody is in, or about to begin, who found it open         *)

world == << head, remote, open, opened >>
goal  == << verdict, closed, admitted >>
vars  == << policy, world, row, way, goal >>

Init ==
  /\ policy \in [ push : { "auto", "manual" }, open : { "auto", "manual" } ]
  /\ head = 0 /\ remote = 0 /\ open = {} /\ opened = 0
  /\ row = 0 /\ way = "begun" /\ verdict = "going on"
  /\ closed = FALSE /\ admitted = FALSE

Enter ==
  /\ ~closed /\ admitted' = TRUE
  /\ UNCHANGED << policy, world, row, way, verdict, closed >>

(* What is ahead of the base is sent, all of it.                           *)
Push ==
  /\ admitted /\ way = "begun" /\ policy.push = "auto" /\ head > 0
  /\ remote' = head /\ way' = "sent"
  /\ UNCHANGED << policy, head, open, opened, row, goal >>

NoDiff ==
  /\ admitted /\ way = "begun" /\ head = 0
  /\ way' = "no_diff"
  /\ UNCHANGED << policy, world, row, goal >>

OpenOne == open = {} /\ opened' = opened + 1 /\ open' = { opened' }

(* The answer may be lost, and the round then counts as failed.            *)
Open ==
  /\ admitted /\ way = "sent" /\ policy.open = "auto"
  /\ OpenOne
  /\ way' \in { "sent", "failed" }
  /\ UNCHANGED << policy, head, remote, row, goal >>

(* A call fails; a push perhaps only after it was done.                    *)
Fail ==
  /\ admitted /\ way \in { "begun", "sent" }
  /\ way' = "failed"
  /\ remote' = remote \/ (way = "begun" /\ policy.push = "auto" /\ remote' = head)
  /\ UNCHANGED << policy, head, open, opened, row, goal >>

(* The row names pull requests that exist, or none.                        *)
Name ==
  /\ row' \in 0..opened
  /\ UNCHANGED << policy, world, way, goal >>

Say(v) ==
  /\ admitted /\ verdict' = v /\ way' = "said"
  /\ UNCHANGED << policy, world, row, closed, admitted >>

Finish == Say("complete") /\ (way \in { "no_diff", "failed" } \/ (way = "sent" /\ opened > 0))

AskToPush == Say("push_branch") /\ policy.push = "manual" /\ way = "begun"

AskToOpen == Say("open_pull_request") /\ policy.open = "manual" /\ way = "sent"

GoOn == Say("going on") /\ way # "said"

(* Others may still be there.                                              *)
Over ==
  /\ admitted /\ admitted' \in BOOLEAN /\ way' = "begun"
  /\ UNCHANGED << policy, world, row, verdict >>

Settle == Over /\ way = "said" /\ closed' = (verdict = "complete")

(* The process dies, or is not let in: what was said and written stands.   *)
Leave == Over /\ closed' = closed

Commit ==
  /\ head' = head + 1
  /\ UNCHANGED << policy, remote, open, opened, row, way, goal >>

HumanOpens ==
  /\ policy.open = "manual" /\ remote > 0
  /\ OpenOne
  /\ UNCHANGED << policy, head, remote, row, way, goal >>

HumanCloses ==
  /\ \E p \in open : open' = open \ { p }
  /\ UNCHANGED << policy, head, remote, opened, row, way, goal >>

Next ==
  \/ Enter \/ Push \/ NoDiff \/ Open \/ Fail \/ Name
  \/ Finish \/ AskToPush \/ AskToOpen \/ GoOn \/ Settle \/ Leave
  \/ Commit \/ HumanOpens \/ HumanCloses

Spec == Init /\ [][Next]_vars
=============================================================================
