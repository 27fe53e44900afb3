------------------------------ MODULE MCRunLock ------------------------------
(* Instances of RunLock for TLC: model values for the pids and the runs. *)
EXTENDS RunLock

CONSTANTS p1, p2, r1, r2

TwoPids == {p1, p2}
TwoRuns == {r1, r2}
OneForcer == {p1}
TwoForcers == {p1, p2}
=============================================================================
