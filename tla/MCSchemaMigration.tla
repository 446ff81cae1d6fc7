-------------------------- MODULE MCSchemaMigration --------------------------
(***************************************************************************)
(* Three programs and migrations of two statements: the oldest knows one   *)
(* migration less, and one of the others has another SQL for the last.     *)
(***************************************************************************)
EXTENDS SchemaMigration

CONSTANTS old, new, other, ours, theirs

MCSupports == [p \in Openers |-> IF p = old THEN 2 ELSE 3]
MCContract ==
  [p \in Openers |->
    [v \in 1..MCSupports[p] |-> IF p = other /\ v = 3 THEN theirs ELSE ours]]
=============================================================================
