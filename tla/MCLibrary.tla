------------------------------ MODULE MCLibrary ------------------------------
(***************************************************************************)
(* Small instances of Library for TLC.                                     *)
(***************************************************************************)
EXTENDS Library, TLC

CONSTANTS w1, w2, p1, nopath, r1, r2

OneWorker == {w1}
TwoWorkers == {w1, w2}
OnePath == {p1}
OverReport == {140}
OneRequest == {r1}
TwoRequests == {r1, r2}
=============================================================================
