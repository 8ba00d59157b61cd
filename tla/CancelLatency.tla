---------------------------- MODULE CancelLatency ----------------------------
(***************************************************************************)
(* How late does a cancel request take effect?  The hook polls the flag in *)
(* one transaction and writes the progress in a later one                  *)
(* (YtdlpProgress.__call__), so a request may land in between.  One        *)
(* history variable counts the progress a job still makes after the        *)
(* request was committed; the other knows the jobs a restart put back into *)
(* the queue after it.                                                     *)
(***************************************************************************)
EXTENDS WorkerPoolProperties

VARIABLES
  late,     \* id -> progress stored after the cancel request
  doomed    \* requeued by a restart with a cancel request on them

lateVars == <<vars, late, doomed>>

LateInit == Init /\ late = [j \in Ids |-> 0] /\ doomed = {}

ProgressMoves(j) == downloads'[j].progress # downloads[j].progress

PutBack(j) == downloads[j].status = "active" /\ downloads'[j].status = "queued"

LateNext ==
  /\ Next
  /\ late' = [j \in Ids |-> IF IsCancelRequested(j) /\ ProgressMoves(j)
                            THEN late[j] + 1 ELSE late[j]]
  /\ doomed' = doomed \cup {j \in Ids : IsCancelRequested(j) /\ PutBack(j)}

LateSpec == LateInit /\ [][LateNext]_lateVars

(***************************************************************************)
(* At most one progress value is stored for a job after its cancellation   *)
(* was requested: the hook call that had polled before.  The thread of a   *)
(* reaped job cannot store anything either.                                *)
(***************************************************************************)
AtMostOneLateWrite == \A j \in Ids : late[j] <= 1

(***************************************************************************)
(* The request outlives a restart: requeue_active_on_startup keeps         *)
(* cancel_requested, so that the second attempt of a job whose             *)
(* cancellation was requested in the first stores no progress at all,      *)
(* whoever claims it and whenever; its first hook call ends it.            *)
(***************************************************************************)
RequestSurvivesRestart == [][\A j \in doomed : ~ProgressMoves(j)]_lateVars

(***************************************************************************)
(* Why: late progress is that of a requested job, and a thread that has    *)
(* polled and not yet written works on a job without late progress, and    *)
(* never on one that was put back with its request.                        *)
(***************************************************************************)
LateIsRequested == \A j \in Ids : late[j] # 0 => IsCancelRequested(j)

PollersAreFirst == \A w \in Workers : pc[w] = "polled" => late[job[w]] = 0

DoomedAreRequested == \A j \in doomed : IsCancelRequested(j)

NobodyPolledTheDoomed == \A w \in Workers : pc[w] = "polled" => job[w] \notin doomed

LateInv ==
  /\ late \in [Ids -> 0 .. 1]
  /\ LateIsRequested
  /\ PollersAreFirst

DoomedInv ==
  /\ doomed \subseteq Ids
  /\ DoomedAreRequested
  /\ NobodyPolledTheDoomed
=============================================================================
