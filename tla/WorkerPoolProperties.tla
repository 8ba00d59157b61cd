------------------------ MODULE WorkerPoolProperties ------------------------
(***************************************************************************)
(* What the queue and its pool of threads must guarantee, and the fairness *)
(* under which jobs make progress.                                         *)
(***************************************************************************)
EXTENDS WorkerPool

Holds(w, j) == pc[w] \in Holding /\ job[w] = j

-----------------------------------------------------------------------------
(***************************************************************************)
(* A job is in the hands of one thread at a time, whatever claims, reaps,  *)
(* cancels and restarts came before (claim_next: "only one row is claimed, *)
(* even under concurrency").  A thread whose job was reaped goes on with   *)
(* it, so this also says that a reaped job is not handed out again.        *)
(***************************************************************************)
ExclusiveClaim ==
  \A v, w \in Workers, j \in Ids : Holds(v, j) /\ Holds(w, j) => v = w

(***************************************************************************)
(* While the process lives, a row stays active with no thread working on   *)
(* it only because a thread died, and each death strands one row at most   *)
(* (run_claimed_job: every way a download can end releases the job).       *)
(***************************************************************************)
Stranded ==
  {j \in Ids : downloads[j].status = "active" /\ \A w \in Workers : ~Holds(w, j)}

DeathStrandsOneJob ==
  Alive => Cardinality(Stranded) <= Cardinality({w \in Workers : pc[w] = "dead"})

(***************************************************************************)
(* A row that ended never changes again: not its status, nor the progress, *)
(* error or file it ended with.  The thread of a reaped job still reports  *)
(* progress and a result; release_job and update_progress must drop them.  *)
(***************************************************************************)
TerminalFrozen ==
  [][\A j \in Ids : downloads[j].status \in Terminal
                      => downloads'[j] = downloads[j]]_vars

(***************************************************************************)
(* The server implements the documented life of a job: see JobLifecycle.   *)
(* In particular jobs start in the order of their ids although claim_next  *)
(* sorts by created_at first, and a job that ran is cancelled only on      *)
(* request.                                                                *)
(***************************************************************************)
Lifecycle == INSTANCE JobLifecycle WITH
  Jobs  <- Ids,
  state <- [j \in Ids |-> downloads[j].status],
  asked <- [j \in Ids |-> IsCancelRequested(j)]

KeepsLifecycle == Lifecycle!JobSpec

-----------------------------------------------------------------------------
(***************************************************************************)
(* The inductive invariant behind the properties above.  A thread holds a  *)
(* job in the phases that say so; the row of a held job is active, or was  *)
(* reaped; a thread that saw a cancel request saw it in its row; only a    *)
(* finished download carries a path; and no thread outlives the process.   *)
(***************************************************************************)
JobsHeld == \A w \in Workers : job[w] # 0 <=> pc[w] \in Holding

HeldRows ==
  \A w \in Workers :
    pc[w] \in Holding => downloads[job[w]].status \in {"active", "error"}

CancelSeen ==
  \A w \in Workers : pc[w] = "cancelled" => downloads[job[w]].cancel_requested

PathsFinished == \A w \in Workers : result[w] # NoPath => pc[w] = "finished"

ThreadsOfProcess == ~Alive => \A w \in Workers : pc[w] = "off"

PoolInv ==
  /\ TypeOK
  /\ TableInv
  /\ JobsHeld
  /\ HeldRows
  /\ CancelSeen
  /\ PathsFinished
  /\ ThreadsOfProcess
  /\ ExclusiveClaim

\* For DeathStrandsOneJob: between recovery and the start of the pool no row
\* is active, so that none is stranded when the threads start.
RecoveredIsIdle ==
  server = "recovered" => \A j \in Ids : downloads[j].status # "active"

StrandInv == RecoveredIsIdle /\ DeathStrandsOneJob

-----------------------------------------------------------------------------
(***************************************************************************)
(* Fairness.  The process is restarted when it goes away and its start-up  *)
(* goes on.  What a property needs beyond that is a premise of its own.    *)
(***************************************************************************)
ProcessFair ==
  WF_vars(Recover) /\ WF_vars(StartPool) /\ WF_vars(Exit)

\* The clock and the stale-check thread run.
ReaperFair == WF_vars(Tick) /\ WF_vars(Reap)

\* A thread takes its next step: yt-dlp calls its hook again or ends.
WorkerFair(w) == WF_vars(WorkerSteps(w))
WorkersFair == \A w \in Workers : WorkerFair(w)

\* A download does not report progress for ever.
DownloadEnds(w) == DownloadFails(w) \/ DownloadFinishes(w)
DownloadEndsFair(w) == SF_vars(DownloadEnds(w))
DownloadsEnd == \A w \in Workers : DownloadEndsFair(w)

\* No call outside the try block raises.
NobodyIsDead == \A w \in Workers : pc[w] # "dead"
NobodyDies == []NobodyIsDead

\* The process comes back; everything else a property needs, it says itself.
LiveSpec == Spec /\ ProcessFair

(***************************************************************************)
(* Nothing in the server is stuck: whatever was cancelled, reaped or       *)
(* requeued meanwhile, a thread that lives can take a step in every phase, *)
(* a download can end at every hook call, a running claim can grow older   *)
(* and a stale one can be reaped, and a process that is gone can start.    *)
(***************************************************************************)
CanStep(w) == ENABLED <<WorkerSteps(w)>>_vars
CanEnd(w) == ENABLED <<DownloadEnds(w)>>_vars

NothingStuck ==
  /\ \A w \in Workers :
       /\ pc[w] \notin {"off", "dead"} => CanStep(w)
       /\ pc[w] = "running" => CanEnd(w)
  /\ (\E j \in Ids : Growing(downloads[j])) => ENABLED <<Tick>>_vars
  /\ Alive /\ (\E j \in Ids : IsStale(downloads[j])) => ENABLED <<Reap>>_vars
  /\ server = "down" => ENABLED <<Recover>>_vars

(***************************************************************************)
(* No row is active for ever, not even when its thread died or hangs: the  *)
(* reaper fails it, or a restart queues it again.  Nothing is asked of the *)
(* workers: they may hang, die or download for ever.                       *)
(***************************************************************************)
NoClaimForEver ==
  ReaperFair =>
    \A j \in Ids :
      downloads[j].status = "active" ~> downloads[j].status # "active"

(***************************************************************************)
(* A cancel request reaches the thread at its next hook call, across       *)
(* restarts too, without help from the reaper and however long the         *)
(* download would have run.                                                *)
(***************************************************************************)
CancelEndsClaim ==
  WorkersFair /\ NobodyDies =>
    \A j \in Ids :
      downloads[j].status = "active" /\ downloads[j].cancel_requested
        ~> downloads[j].status # "active"

(***************************************************************************)
(* Every job that was queued ends, across cancels, reaps and restarts, if  *)
(* no call raises outside its try block and no download goes on for ever.  *)
(***************************************************************************)
EveryJobEnds ==
  WorkersFair /\ DownloadsEnd /\ NobodyDies =>
    \A j \in Ids :
      downloads[j].status = "queued" ~> downloads[j].status \in Terminal

-----------------------------------------------------------------------------
(***************************************************************************)
(* What the documentation says and the code does not do.                   *)
(***************************************************************************)

\* "reap rows left active by a crashed or hung worker" (app/main.py): a
\* thread that brought its download to an end had neither crashed nor hung,
\* so its row was not reaped.
OnlyLostWorkersAreReaped ==
  \A w \in Workers :
    pc[w] = "finished" => downloads[job[w]].error_code # "stale_worker"
=============================================================================
