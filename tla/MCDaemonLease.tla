--------------------------- MODULE MCDaemonLease ---------------------------
(***************************************************************************)
(* Instances of DaemonLease for TLC.  Four inodes let three processes have *)
(* three different ones open while the path names a fourth.                *)
(***************************************************************************)
EXTENDS DaemonLease, TLC

LeaseSymmetry == Permutations(Daemons) \cup Permutations(Inodes)
=============================================================================
