---------------------------- MODULE ReconcileLog ----------------------------
(***************************************************************************)
(* What the tables snapshots, verifications and decisions promise about a  *)
(* Goal (docs/design.md: at most one reconcile at a time per Goal): they   *)
(* are the log of a single process, although many processes write them.    *)
(* A round begins with a snapshot, is verified and then decided at most    *)
(* once, both on that very observation, and is never touched again once    *)
(* the next round has begun.  A process that dies leaves its round as it   *)
(* is.  Nothing here knows of leases, processes or clocks; LeasedTick      *)
(* implements it.                                                          *)
(***************************************************************************)
EXTENDS Integers, Sequences

CONSTANTS Digests, Actions

VARIABLES snapshots, rounds, decisions
log == << snapshots, rounds, decisions >>

Current  == Len(snapshots)
Verified == \E i \in DOMAIN rounds : rounds[i].seq = Current
Decided  == \E i \in DOMAIN decisions : decisions[i].seq = Current

Init == snapshots = <<>> /\ rounds = <<>> /\ decisions = <<>>

Begin(d) ==
  /\ snapshots' = Append(snapshots, d)
  /\ UNCHANGED << rounds, decisions >>

Verify ==
  /\ Current > 0 /\ ~Verified /\ ~Decided
  /\ rounds' = Append(rounds, [seq |-> Current, digest |-> snapshots[Current]])
  /\ UNCHANGED << snapshots, decisions >>

Decide(a) ==
  /\ Verified /\ ~Decided
  /\ decisions' = Append(decisions, [seq |-> Current, digest |-> snapshots[Current], action |-> a])
  /\ UNCHANGED << snapshots, rounds >>

Next ==
  \/ \E d \in Digests : Begin(d)
  \/ Verify
  \/ \E a \in Actions : Decide(a)

Spec == Init /\ [][Next]_log
=============================================================================
