------------------------------ MODULE WorkerPool ------------------------------
(***************************************************************************)
(* The server process around the queue: the lifespan that recovers the     *)
(* table and starts the pool, the worker threads that claim jobs and run   *)
(* them (app/main.py, app/services/job_runner.py), the stale-check thread, *)
(* and the users who enqueue and cancel (app/routes/pages.py).             *)
(*                                                                         *)
(* A step is one committed transaction, or one point at which a thread can *)
(* be overtaken: between a claim and the first read of the job, between    *)
(* the cancel poll and the progress write of one hook call, and between    *)
(* the end of a download and the transaction that records it.              *)
(***************************************************************************)
EXTENDS DownloadTable, FiniteSets

CONSTANTS
  Workers,         \* the threads a pool can be made of
  WorkersEnabled,  \* YT_WORKERS_ENABLED
  Faults,          \* may a database or file-system call raise?
  MaxStops         \* bound: how often the process goes away

ASSUME WorkersAssumption == IsFiniteSet(Workers)
ASSUME WorkersEnabledAssumption == WorkersEnabled \in BOOLEAN
ASSUME FaultsAssumption == Faults \in BOOLEAN
ASSUME MaxStopsAssumption == MaxStops \in Nat

VARIABLES
  server,   \* the process: "down", "recovered", "serving", "stopping"
  pc,       \* where each worker thread is
  job,      \* the id each worker holds, 0 for none
  result,   \* the path a finished download reports
  stops     \* how often the process went away (bounded by MaxStops)

threads == <<pc, job, result>>
vars == <<downloads, server, pc, job, result, stops>>

(***************************************************************************)
(*   off       no thread            loop      about to test the stop event *)
(*   claiming  about to claim       claimed   holds an id, job not yet read *)
(*   running   inside yt-dlp        polled    in the hook, not cancelled   *)
(*   cancelled, failed, finished    the download ended, not yet recorded   *)
(*   dead      an exception ended the thread                               *)
(***************************************************************************)
Ended == {"cancelled", "failed", "finished"}
Holding == {"claimed", "running", "polled"} \cup Ended
Phases == {"off", "loop", "claiming", "dead"} \cup Holding

\* Typing: the shape of every variable (progress within 0..100 included).
TypeOK ==
  /\ TableOK
  /\ server \in {"down", "recovered", "serving", "stopping"}
  /\ pc \in [Workers -> Phases]
  /\ job \in [Workers -> Ids \cup {0}]
  /\ result \in [Workers -> Paths \cup {NoPath}]
  /\ stops \in Nat

NoThreads ==
  /\ pc = [w \in Workers |-> "off"]
  /\ job = [w \in Workers |-> 0]
  /\ result = [w \in Workers |-> NoPath]

Init ==
  /\ TableInit
  /\ server = "down"
  /\ NoThreads
  /\ stops = 0

-----------------------------------------------------------------------------
(***************************************************************************)
(* The process.  Lifespan: requeue what the last process left active, then *)
(* make the downloads directory (which may fail), then start the pool.     *)
(***************************************************************************)
Recover ==
  /\ server = "down"
  /\ server' = "recovered"
  /\ RequeueActiveOnStartup
  /\ UNCHANGED <<threads, stops>>

StartPool ==
  /\ server = "recovered"
  /\ server' = "serving"
  /\ \E pool \in (SUBSET Workers) \ {{}} :
       pc' = [w \in Workers |->
                IF WorkersEnabled /\ w \in pool THEN "loop" ELSE "off"]
  /\ UNCHANGED <<downloads, job, result, stops>>

\* A graceful stop: requests are over, pool.stop() sets the stop event.
Stop ==
  /\ server = "serving"
  /\ stops < MaxStops
  /\ server' = "stopping"
  /\ stops' = stops + 1
  /\ UNCHANGED <<downloads, threads>>

\* pool.stop() joins each daemon thread for at most 5 s, then the process
\* ends and takes the threads that are still running with it.
ThreadsVanish ==
  /\ server' = "down"
  /\ pc' = [w \in Workers |-> "off"]
  /\ job' = [w \in Workers |-> 0]
  /\ result' = [w \in Workers |-> NoPath]
  /\ UNCHANGED downloads

Exit == server = "stopping" /\ ThreadsVanish /\ UNCHANGED stops

\* The process is killed, or the start-up fails on the downloads directory.
Crash ==
  /\ server # "down"
  /\ stops < MaxStops
  /\ stops' = stops + 1
  /\ ThreadsVanish

-----------------------------------------------------------------------------
(***************************************************************************)
(* Users.  A batch enqueue is one such transaction per item.               *)
(***************************************************************************)
Enqueue(j, t) ==
  /\ server = "serving"
  /\ EnqueueDownload(j, t)
  /\ UNCHANGED <<server, threads, stops>>

Cancel(j) ==
  /\ server = "serving"
  /\ CancelJob(j)
  /\ UNCHANGED <<server, threads, stops>>

-----------------------------------------------------------------------------
(***************************************************************************)
(* A worker thread.                                                        *)
(***************************************************************************)
Alive == server \in {"serving", "stopping"}

Goes(w, from, to) == Alive /\ pc[w] = from /\ pc' = [pc EXCEPT ![w] = to]

LoopTest(w) ==
  /\ Goes(w, "loop", IF server = "stopping" THEN "off" ELSE "claiming")
  /\ UNCHANGED <<downloads, server, job, result, stops>>

Claim(w, j) ==
  /\ Goes(w, "claiming", "claimed")
  /\ ClaimNext(j)
  /\ job' = [job EXCEPT ![w] = j]
  /\ UNCHANGED <<server, result, stops>>

ClaimNothingReturns(w) ==   \* mutant: `return' for `continue'
  /\ Goes(w, "claiming", "off")
  /\ NothingToClaim
  /\ UNCHANGED <<downloads, server, job, result, stops>>

ClaimNothing(w) ==     \* waits a second and tests the stop event again
  /\ Goes(w, "claiming", "loop")
  /\ NothingToClaim
  /\ UNCHANGED <<downloads, server, job, result, stops>>

ReadJob(w) ==
  /\ Goes(w, "claimed", IF Exists(job[w]) THEN "running" ELSE "loop")
  /\ job' = IF Exists(job[w]) THEN job ELSE [job EXCEPT ![w] = 0]
  /\ UNCHANGED <<downloads, server, result, stops>>

HookPollsOnce(w) ==     \* mutant: no poll once some progress is stored
  /\ Goes(w, "running",
          IF IsCancelRequested(job[w]) /\ downloads[job[w]].progress = 0
          THEN "cancelled" ELSE "polled")
  /\ UNCHANGED <<downloads, server, job, result, stops>>

HookPoll(w) ==
  /\ Goes(w, "running",
          IF IsCancelRequested(job[w]) THEN "cancelled" ELSE "polled")
  /\ UNCHANGED <<downloads, server, job, result, stops>>

HookReport(w) ==       \* no write when the percent string does not parse
  /\ Goes(w, "polled", "running")
  /\ \/ \E p \in Reported : UpdateProgress(job[w], p)
     \/ UNCHANGED downloads
  /\ UNCHANGED <<server, job, result, stops>>

\* yt-dlp or the transcript pass raised, or the hook's write of progress.
DownloadFails(w) ==
  /\ \/ Goes(w, "running", "failed")
     \/ Faults /\ Goes(w, "polled", "failed")
  /\ UNCHANGED <<downloads, server, job, result, stops>>

\* The path is NULL when no "finished" hook named a file.
DownloadFinishes(w) ==
  /\ Goes(w, "running", "finished")
  /\ \E path \in Paths \cup {NoPath} : result' = [result EXCEPT ![w] = path]
  /\ UNCHANGED <<downloads, server, job, stops>>

Outcome(phase) ==
  CASE phase = "cancelled" -> "cancelled"
    [] phase = "failed" -> "error"
    [] phase = "finished" -> "done"

LetsGo(w) ==           \* the thread gives its job up
  /\ job' = [job EXCEPT ![w] = 0]
  /\ result' = [result EXCEPT ![w] = NoPath]
  /\ UNCHANGED <<server, stops>>

ReleaseSkipsCancelled(w) ==   \* mutant: a cancelled download is not recorded
  /\ \E phase \in Ended : Goes(w, phase, "loop")
  /\ IF pc[w] = "cancelled" THEN UNCHANGED downloads
     ELSE ReleaseJob(job[w], Outcome(pc[w]), result[w])
  /\ LetsGo(w)

ReleaseHeldOnly(w) ==       \* mutant: waits for a row that somebody else ended
  /\ \E phase \in Ended : Goes(w, phase, "loop")
  /\ Releasable(downloads[job[w]])
  /\ ReleaseJob(job[w], Outcome(pc[w]), result[w])
  /\ LetsGo(w)

Release(w) ==
  /\ \E phase \in Ended : Goes(w, phase, "loop")
  /\ ReleaseJob(job[w], Outcome(pc[w]), result[w])
  /\ LetsGo(w)

\* A call outside the try block raises (claim_next, the settings and the
\* downloads directory, release_job): nothing catches it and the thread ends.
ThreadDies(w) ==
  /\ Faults
  /\ \E phase \in {"claiming", "claimed"} \cup Ended : Goes(w, phase, "dead")
  /\ LetsGo(w)
  /\ UNCHANGED downloads

-----------------------------------------------------------------------------
(***************************************************************************)
(* The stale-check thread: it survives its own exceptions.                 *)
(***************************************************************************)
Reap ==
  /\ WorkersEnabled
  /\ Alive
  /\ DetectStaleJobs
  /\ UNCHANGED <<server, threads, stops>>

Tick ==
  /\ TimePasses
  /\ UNCHANGED <<server, threads, stops>>

WorkerSteps(w) ==
  \/ LoopTest(w) \/ ClaimNothing(w) \/ (\E j \in Ids : Claim(w, j))
  \/ ReadJob(w) \/ HookPoll(w) \/ HookReport(w)
  \/ DownloadFails(w) \/ DownloadFinishes(w)
  \/ Release(w)

Next ==
  \/ Recover \/ StartPool \/ Stop \/ Exit \/ Crash
  \/ \E j \in Ids, t \in Stamps : Enqueue(j, t)
  \/ \E j \in Ids : Cancel(j)
  \/ \E w \in Workers : WorkerSteps(w) \/ ThreadDies(w)
  \/ Reap
  \/ Tick

Spec == Init /\ [][Next]_vars
=============================================================================
