----------------------------- MODULE MCQueuePage -----------------------------
(***************************************************************************)
(* Small instances of QueuePage for TLC.                                   *)
(***************************************************************************)
EXTENDS QueuePage

CONSTANTS nopath

NoReports == {0}
NoPaths == {}
=============================================================================
