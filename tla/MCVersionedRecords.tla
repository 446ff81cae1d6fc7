-------------------------- MODULE MCVersionedRecords --------------------------
(***************************************************************************)
(* Two processes and two terms, within a few ticks of the clock.           *)
(***************************************************************************)
EXTENDS VersionedRecords, TLC

CONSTANTS p1, p2, t1, t2

Symmetry == Permutations(Procs) \cup Permutations(Terms)

\* A version with a time that its caller claims it was known at, recorded or not yet.
ClaimMade ==
  \/ \E rows \in {versions, audited} : \E i \in DOMAIN rows : rows[i].known.claimed
  \/ \E p \in Procs : pc[p] \in {"policy", "audited"} /\ want[p].known.claimed

\* No action reads one record to write another, and what is promised of overlapping
\* calls is the numbering of policy versions.  So runs go on only where the audited
\* record stands alone, and behind an overlap where nothing but the policy has been
\* written; what does not touch the audited record is looked at once.  Answers and
\* claims are followed as long as something is promised of them.
Explored ==
  /\ audited # <<>> => Len(versions) = 1 /\ transitions = <<>> /\ ~overlapped
  /\ overlapped => transitions = <<>>
  /\ kind # "accounting" => Len(versions) = 1 /\ transitions = <<>> /\ ~overlapped
  /\ ClaimMade => transitions = <<>> /\ ~overlapped /\ ~setback
  /\ answer # <<>> => ~overlapped /\ ~setback
=============================================================================
