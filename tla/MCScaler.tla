------------------------------ MODULE MCScaler ------------------------------
(* Scaler on a small instance: counts of a window on both sides of each     *)
(* threshold.                                                               *)
EXTENDS Scaler

\* Nothing, a third, just under 98% of 4 a second, target, half as much again
MCRequests == {0, 3, 7, 8, 12}
=============================================================================
