--------------------------- MODULE MCCancelLatency ---------------------------
(***************************************************************************)
(* A small instance of CancelLatency for TLC.                              *)
(***************************************************************************)
EXTENDS CancelLatency, TLC

CONSTANTS w1, w2, p1, nopath

TwoWorkers == {w1, w2}
OnePath == {p1}

\* Two values, so that a second late report would be seen.
TwoReports == {40, 140}

SymWorkers == Permutations(TwoWorkers)
=============================================================================
