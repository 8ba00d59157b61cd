---------------------------- MODULE DownloadTable ----------------------------
(***************************************************************************)
(* The "downloads" table and the queue service that owns its lifecycle     *)
(* (app/models.py, app/services/queue.py).                                 *)
(*                                                                         *)
(* Every operator below that primes `downloads' is ONE committed SQLite    *)
(* transaction of app/services/queue.py.  The default database is a SQLite *)
(* file: the first UPDATE of a transaction takes the write lock even when  *)
(* it matches no row, so the two UPDATEs of cancel_job are atomic too.     *)
(* Who calls the operators, and when, is the business of WorkerPool.       *)
(*                                                                         *)
(* What the properties do not tell apart is left out: the descriptive      *)
(* columns (url, title, formats...), updated_at, and the text of messages. *)
(* Timestamps are kept as far as they decide something: created_at orders  *)
(* claims, claimed_at is kept as the AGE of the claim (the reaper compares *)
(* it with now), finished_at as "is it set".                               *)
(***************************************************************************)
EXTENDS Integers

CONSTANTS
  MaxId,         \* bound: ids the table hands out are 1..MaxId
  MaxStamp,      \* bound: created_at seconds seen in one behaviour
  StaleTimeout,  \* age, in ticks, a claim may reach before it is stale
  Reported,      \* percentages yt-dlp may report, not yet clamped
  Paths,         \* output files a finished download may name
  NoPath         \* the NULL of file_path

ASSUME MaxIdAssumption == MaxId \in Nat
ASSUME MaxStampAssumption == MaxStamp \in Nat
ASSUME StaleTimeoutAssumption == StaleTimeout \in Nat
ASSUME ReportedAssumption == Reported \subseteq Int
ASSUME PathAssumption == NoPath \notin Paths

VARIABLE downloads   \* the table: id -> row, or Absent

Ids == 1 .. MaxId
Stamps == 0 .. MaxStamp
NULL == -1
Terminal == {"done", "error", "cancelled"}
Statuses == {"queued", "active"} \cup Terminal

\* An age beyond StaleTimeout + 1 is no different from it.
Ages == 0 .. (StaleTimeout + 1)

Row == [status : Statuses,
        created_at : Stamps,
        claimed_at : Ages \cup {NULL},
        cancel_requested : BOOLEAN,
        progress : 0 .. 100,
        error_code : {"none", "ytdlp_error", "stale_worker"},
        finished_at : BOOLEAN,
        file_path : Paths \cup {NoPath}]

Absent == [status |-> "absent"]

Exists(j) == downloads[j].status # "absent"

TableOK == downloads \in [Ids -> Row \cup {Absent}]

TableInit == downloads = [j \in Ids |-> Absent]

-----------------------------------------------------------------------------
(***************************************************************************)
(* enqueue_download.  SQLite gives a new row of an INTEGER PRIMARY KEY the *)
(* id "largest + 1": the id of a deleted last row is handed out again.     *)
(* created_at is CURRENT_TIMESTAMP, whole seconds of a clock that does not *)
(* step back: two rows may share it.                                       *)
(***************************************************************************)
NewRow(t) ==
  [status |-> "queued", created_at |-> t, claimed_at |-> NULL,
   cancel_requested |-> FALSE, progress |-> 0, error_code |-> "none",
   finished_at |-> FALSE, file_path |-> NoPath]

IsNextId(j) ==
  /\ \A k \in Ids : Exists(k) => k < j
  /\ j = 1 \/ (j - 1 \in Ids /\ Exists(j - 1))

EnqueueDownload(j, t) ==
  /\ IsNextId(j)
  /\ \A k \in Ids : Exists(k) => downloads[k].created_at <= t
  /\ downloads' = [downloads EXCEPT ![j] = NewRow(t)]

(***************************************************************************)
(* claim_next: the first queued row by (created_at, id), in one            *)
(* conditional UPDATE ... RETURNING.                                       *)
(***************************************************************************)
ClaimedNewestFirst(j, k) ==       \* mutant: ORDER BY created_at DESC
  \/ downloads[j].created_at > downloads[k].created_at
  \/ downloads[j].created_at = downloads[k].created_at /\ j < k

ClaimedBefore(j, k) ==
  \/ downloads[j].created_at < downloads[k].created_at
  \/ downloads[j].created_at = downloads[k].created_at /\ j < k

Claimable(r) == r.status = "queued"

ClaimNext(j) ==
  /\ Claimable(downloads[j])
  /\ \A k \in Ids \ {j} : Claimable(downloads[k]) => ClaimedBefore(j, k)
  /\ downloads' = [downloads EXCEPT ![j] =
                     [@ EXCEPT !.status = "active", !.claimed_at = 0]]

NothingToClaim == \A j \in Ids : ~Claimable(downloads[j])

(***************************************************************************)
(* update_progress.  parse_percent clamps the reported value the same way  *)
(* before it gets here; clamping twice is clamping once.                   *)
(***************************************************************************)
ClampedBelow(p) == IF p < 0 THEN 0 ELSE p      \* mutant: no upper clamp

Clamped(p) == IF p < 0 THEN 0 ELSE IF p > 100 THEN 100 ELSE p

UpdateProgress(j, p) ==
  downloads' = IF downloads[j].status = "active"
               THEN [downloads EXCEPT ![j] = [@ EXCEPT !.progress = Clamped(p)]]
               ELSE downloads

\* is_cancel_requested: NULL, hence false, when the row is gone.
IsCancelRequested(j) == Exists(j) /\ downloads[j].cancel_requested

(***************************************************************************)
(* release_job: only an active row is moved to its terminal state.  A NULL *)
(* argument leaves its column alone.                                       *)
(***************************************************************************)
ReleasableAlways(r) == r.status # "absent"     \* mutant: UPDATE ... WHERE id

Releasable(r) == r.status = "active"

ReleaseJob(j, outcome, path) ==
  downloads' =
    IF Releasable(downloads[j])
    THEN [downloads EXCEPT ![j] =
            [downloads[j] EXCEPT
               !.status = outcome,
               !.finished_at = TRUE,
               !.error_code = IF outcome = "error" THEN "ytdlp_error" ELSE @,
               !.file_path = IF path = NoPath THEN @ ELSE path]]
    ELSE downloads

(***************************************************************************)
(* cancel_job: queued -> cancelled; active -> flagged; otherwise a no-op.  *)
(***************************************************************************)
CancelJob(j) ==
  downloads' =
    CASE downloads[j].status = "queued" ->
           [downloads EXCEPT ![j] =
              [@ EXCEPT !.status = "cancelled", !.finished_at = TRUE]]
      [] downloads[j].status = "active" ->
           [downloads EXCEPT ![j] = [@ EXCEPT !.cancel_requested = TRUE]]
      [] OTHER -> downloads

(***************************************************************************)
(* detect_stale_jobs: every active row whose claim is too old is failed.   *)
(***************************************************************************)
StaleIfUnclaimed(r) ==            \* mutant: claimed_at IS NULL
  r.status = "active" /\ r.claimed_at = NULL

IsStale(r) ==
  r.status = "active" /\ r.claimed_at # NULL /\ r.claimed_at > StaleTimeout

DetectStaleRequeues ==            \* mutant: a stale row is retried
  downloads' =
    [j \in Ids |->
       IF IsStale(downloads[j])
       THEN [downloads[j] EXCEPT !.status = "queued", !.claimed_at = NULL]
       ELSE downloads[j]]

DetectStaleJobs ==
  downloads' =
    [j \in Ids |->
       IF IsStale(downloads[j])
       THEN [downloads[j] EXCEPT !.status = "error",
                                 !.error_code = "stale_worker",
                                 !.finished_at = TRUE]
       ELSE downloads[j]]

(***************************************************************************)
(* requeue_active_on_startup: cancel_requested and progress are kept.      *)
(***************************************************************************)
RequeueKeepsClaim ==              \* mutant: claimed_at is not cleared
  downloads' = [j \in Ids |->
                  IF downloads[j].status = "active"
                  THEN [downloads[j] EXCEPT !.status = "queued"]
                  ELSE downloads[j]]

RequeueForgetsRequest ==          \* mutant: the request goes with the claim
  downloads' = [j \in Ids |->
                  IF downloads[j].status = "active"
                  THEN [downloads[j] EXCEPT !.status = "queued",
                                            !.claimed_at = NULL,
                                            !.cancel_requested = FALSE]
                  ELSE downloads[j]]

RequeueActiveOnStartup ==
  downloads' = [j \in Ids |->
                  IF downloads[j].status = "active"
                  THEN [downloads[j] EXCEPT !.status = "queued",
                                            !.claimed_at = NULL]
                  ELSE downloads[j]]

(***************************************************************************)
(* Time passes: running claims grow older.  (The age of a claim that has   *)
(* ended is never read again and stays what it was.)                       *)
(***************************************************************************)
Growing(r) == r.status = "active" /\ r.claimed_at \in 0 .. StaleTimeout

TimePasses ==
  /\ \E j \in Ids : Growing(downloads[j])
  /\ downloads' = [j \in Ids |->
                     IF Growing(downloads[j])
                     THEN [downloads[j] EXCEPT !.claimed_at = @ + 1]
                     ELSE downloads[j]]

-----------------------------------------------------------------------------
(***************************************************************************)
(* The columns of a row agree with its status (what the pages and          *)
(* detect_stale_jobs read them for): a queued row has no claim, an active  *)
(* one has a claim the reaper can time, finished_at is set exactly on      *)
(* ended rows, an error code means an error, a file means a done row.      *)
(***************************************************************************)
RowConsistent(r) ==
  /\ r.status = "queued" => r.claimed_at = NULL
  /\ r.status = "active" => r.claimed_at # NULL
  /\ r.finished_at <=> r.status \in Terminal
  /\ r.error_code # "none" <=> r.status = "error"
  /\ r.file_path # NoPath => r.status = "done"

RowsConsistent == \A j \in Ids : Exists(j) => RowConsistent(downloads[j])

\* Ids are handed out in the order of time: sorting by (created_at, id), as
\* claim_next does, is sorting by id.
StampsFollowIds ==
  \A j, k \in Ids :
    Exists(j) /\ Exists(k) /\ j < k
      => downloads[j].created_at <= downloads[k].created_at

TableInv == TableOK /\ RowsConsistent /\ StampsFollowIds
=============================================================================
