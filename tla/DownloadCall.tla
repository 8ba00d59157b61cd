---------------------------- MODULE DownloadCall ----------------------------
(***************************************************************************)
(* What run_download promises its caller, and what WorkerPool takes a call *)
(* for: it reports progress, ends once, in one of three ways, and obeys    *)
(* its cancel flag ("calling the hook raises DownloadCancelled",           *)
(* app/services/downloader.py).  The hook looks at the flag and takes the  *)
(* progress in two transactions: once the flag is up, the call that had    *)
(* looked before takes one more value, and no other call takes any.        *)
(* Nobody is told of a cancellation who did not ask for it.                *)
(***************************************************************************)
EXTENDS Integers

CONSTANT None    \* no progress yet

VARIABLES
  status,    \* "none" while the call runs, then how it ended
  asked,     \* is the cancel flag up?
  percent,   \* the progress taken last
  late       \* how many values were taken with the flag up

callVars == <<status, asked, percent, late>>

CallInit == status = "none" /\ asked = FALSE /\ percent = None /\ late = 0

Ask ==
  /\ status = "none" /\ ~asked
  /\ asked' = TRUE
  /\ UNCHANGED <<status, percent, late>>

Progress ==
  /\ status = "none" /\ late = 0
  /\ percent' \in 0 .. 100
  /\ late' = IF asked THEN 1 ELSE 0
  /\ UNCHANGED <<status, asked>>

End ==
  /\ status = "none"
  /\ \/ status' \in {"done", "error"}
     \/ status' = "cancelled" /\ asked
  /\ UNCHANGED <<asked, percent, late>>

CallSpec == CallInit /\ [][Ask \/ Progress \/ End]_callVars
=============================================================================
