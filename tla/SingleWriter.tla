----------------------------- MODULE SingleWriter -----------------------------
(***************************************************************************)
(* What the daemon lease promises: at any time at most one process is the  *)
(* writer of a home, and a new writer takes over only after the previous   *)
(* one has given up or died.                                               *)
(***************************************************************************)
CONSTANTS Procs, NoProc

VARIABLE writer

Init == writer = NoProc

TakeOver(p) == writer = NoProc /\ writer' = p

GiveUp(p) == writer = p /\ writer' = NoProc

Next == \E p \in Procs : TakeOver(p) \/ GiveUp(p)

Spec == Init /\ [][Next]_writer

=============================================================================
