--------------------------- MODULE MCBackupRestore ---------------------------
(***************************************************************************)
(* Three processes, two contents, and a bundle and a database from other   *)
(* homes.                                                                  *)
(***************************************************************************)
EXTENDS BackupRestore, TLC

CONSTANTS p1, p2, p3, d1, d2

\* The bundle of a home with two artifacts.
MCForeign == {[db |-> [cites |-> {d1, d2}, log |-> <<d1, d2>>], files |-> {d1, d2}]}

\* A database with an artifact that is not beside it.
MCSaved == {[cites |-> {d2}, log |-> <<d2>>]}

\* Nothing is claimed of a home in which a restore was disturbed, and what was
\* disturbed stays so: TLC need not go on from there.  It looks at a kill, at
\* another home's database and at the home's own copy one at a time.
Explored ==
  /\ ~crowded
  /\ killed => ~bare /\ copy = None
  /\ bare => copy = None

\* A state without what no process will read again.
Relevant ==
  LET busy(labels, f) == [p \in Procs |-> IF pc[p] \in labels THEN f[p] ELSE None]
  IN  <<home, bundle, copy, pc, draft, busy({"collect", "zip"}, path), busy({"cite", "writing"}, item),
        crowded, killed, bare>>

ProcSymmetry == Permutations(Procs)
=============================================================================
