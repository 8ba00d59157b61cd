---------------------------- MODULE MCWorkerPool ----------------------------
(***************************************************************************)
(* Small instances of WorkerPool for TLC.                                  *)
(***************************************************************************)
EXTENDS WorkerPoolProperties, TLC

CONSTANTS w1, w2, p1, nopath

TwoWorkers == {w1, w2}
OneWorker == {w1}
OnePath == {p1}

\* Above 100 (clamped), and something in between.
OverReport == {140}
SomeReport == {40}
TwoReports == {40, 140}

\* Threads are interchangeable.
SymWorkers == Permutations(TwoWorkers)
=============================================================================
