------------------------ MODULE DownloadTableProofs ------------------------
(***************************************************************************)
(* Every transaction of the queue service keeps the table's invariant and  *)
(* leaves the rows that ended as they are, for any number of ids, stamps,  *)
(* reported values and paths, and any timeout.                             *)
(***************************************************************************)
EXTENDS DownloadTable, TLAPS

\* Rows that ended stay as they are.
EndedRowsKept ==
  \A k \in Ids : downloads[k].status \in Terminal => downloads'[k] = downloads[k]

\* The row of a job some thread works on: still active, or reaped meanwhile.
HeldStatuses == {"active", "error"}

HoldKept(r, s) ==
  r.status \in HeldStatuses
    => /\ s.status \in HeldStatuses
       /\ r.cancel_requested => s.cancel_requested

HeldRowsKept == \A k \in Ids : HoldKept(downloads[k], downloads'[k])

LEMMA ClampedInRange ==
  ASSUME NEW p \in Int PROVE Clamped(p) \in 0 .. 100
BY DEF Clamped

LEMMA TableInitInv == TableInit => TableInv
BY DEF TableInit, TableInv, TableOK, RowsConsistent, StampsFollowIds, Exists,
       Absent

LEMMA RowFields ==
  ASSUME TableOK, NEW j \in Ids, Exists(j)
  PROVE  downloads[j] \in Row
BY DEF TableOK, Exists, Absent

LEMMA EnqueueInv ==
  ASSUME TableInv, NEW j \in Ids, NEW t \in Stamps, EnqueueDownload(j, t)
  PROVE  TableInv' /\ EndedRowsKept /\ HeldRowsKept
<1>1. NewRow(t) \in Row
  BY DEF NewRow, Row, Statuses, NULL, Ages
<1>2. TableOK'
  BY <1>1 DEF TableInv, TableOK, EnqueueDownload
<1>3. RowsConsistent'
  <2>1. RowConsistent(NewRow(t))
    BY DEF RowConsistent, NewRow, Terminal
  <2>2. \A k \in Ids : Exists(k)' => RowConsistent(downloads'[k])
    BY <2>1 DEF TableInv, TableOK, EnqueueDownload, RowsConsistent, Exists
  <2> QED BY <2>2 DEF RowsConsistent, RowConsistent
<1>4. StampsFollowIds'
  BY DEF TableInv, TableOK, EnqueueDownload, StampsFollowIds, Exists, NewRow,
         IsNextId, Ids, Stamps, Row, Absent
<1>5. EndedRowsKept
  BY DEF TableInv, TableOK, EndedRowsKept, EnqueueDownload, IsNextId, Exists,
         Ids, Terminal
<1>6. HeldRowsKept
  BY DEF TableInv, TableOK, HeldRowsKept, HoldKept, HeldStatuses,
         EnqueueDownload, IsNextId, Exists, Ids
<1> QED BY <1>2, <1>3, <1>4, <1>5, <1>6 DEF TableInv

(***************************************************************************)
(* All the other operations rewrite rows and add none.  It is enough that  *)
(* each new row is typed, consistent, as old as before, present exactly if *)
(* it was, and the same if the row had ended.                              *)
(***************************************************************************)
Rewrites(r, s) ==
  /\ s \in Row
  /\ RowConsistent(s)
  /\ s.created_at = r.created_at
  /\ r.status \in Terminal => s = r

LEMMA RewriteInv ==
  ASSUME TableInv,
         downloads' \in [Ids -> Row \cup {Absent}],
         \A k \in Ids : \/ downloads'[k] = downloads[k]
                        \/ Exists(k) /\ Rewrites(downloads[k], downloads'[k])
  PROVE  TableInv' /\ EndedRowsKept
<1>1. \A k \in Ids : Exists(k)' <=> Exists(k)
  BY DEF TableInv, TableOK, Exists, Rewrites, Row, Statuses, Terminal, Absent
<1>2. RowsConsistent'
  <2>1. \A k \in Ids : Exists(k)' => RowConsistent(downloads'[k])
    BY <1>1 DEF TableInv, RowsConsistent, Rewrites
  <2> QED BY <2>1 DEF RowsConsistent, RowConsistent
<1>3. \A k \in Ids : Exists(k) => downloads'[k].created_at = downloads[k].created_at
  BY DEF Rewrites
<1>4. StampsFollowIds'
  BY <1>1, <1>3 DEF TableInv, StampsFollowIds
<1>5. EndedRowsKept
  BY DEF EndedRowsKept, Rewrites
<1> QED BY <1>2, <1>4, <1>5 DEF TableInv, TableOK

LEMMA OneRowInv ==
  ASSUME TableInv, NEW j \in Ids, Exists(j),
         NEW s, Rewrites(downloads[j], s), downloads' = [downloads EXCEPT ![j] = s]
  PROVE  /\ TableInv' /\ EndedRowsKept
         /\ downloads'[j] = s
         /\ \A k \in Ids \ {j} : downloads'[k] = downloads[k]
         /\ HoldKept(downloads[j], s) => HeldRowsKept
<1>1. downloads' \in [Ids -> Row \cup {Absent}] /\ downloads'[j] = s
  BY DEF TableInv, TableOK, Rewrites
<1>2. \A k \in Ids \ {j} : downloads'[k] = downloads[k]
  BY DEF TableInv, TableOK
<1>3. HoldKept(downloads[j], s) => HeldRowsKept
  BY <1>1, <1>2 DEF HeldRowsKept, HoldKept
<1> QED BY <1>1, <1>2, <1>3, RewriteInv

LEMMA NothingWrittenInv ==
  ASSUME TableInv, downloads' = downloads
  PROVE  TableInv' /\ EndedRowsKept /\ HeldRowsKept
BY RewriteInv DEF TableInv, TableOK, HeldRowsKept, HoldKept

LEMMA ExistingRow ==
  ASSUME TableInv, NEW j \in Ids, downloads[j].status \in Statuses
  PROVE  /\ Exists(j)
         /\ downloads[j] \in Row
         /\ RowConsistent(downloads[j])
BY RowFields DEF TableInv, RowsConsistent, Exists, Statuses, Terminal

LEMMA FreshClaim == 0 \in Ages /\ NULL # 0
BY StaleTimeoutAssumption DEF Ages, NULL

LEMMA ClaimInv ==
  ASSUME TableInv, NEW j \in Ids, ClaimNext(j)
  PROVE  /\ TableInv' /\ EndedRowsKept /\ HeldRowsKept
         /\ downloads[j].status = "queued" /\ downloads'[j].status = "active"
         /\ \A k \in Ids \ {j} : downloads'[k] = downloads[k]
<1>1. Exists(j) /\ downloads[j] \in Row /\ RowConsistent(downloads[j])
  BY ExistingRow DEF ClaimNext, Claimable, Statuses
<1>2. ASSUME NEW r \in Row, RowConsistent(r), r.status = "queued",
             NEW s, s = [r EXCEPT !.status = "active", !.claimed_at = 0]
      PROVE  Rewrites(r, s) /\ HoldKept(r, s) /\ s.status = "active"
  <2>1. s \in Row
    BY <1>2, FreshClaim DEF Row, Statuses
  <2>2. RowConsistent(s)
    BY <1>2, FreshClaim DEF Row, RowConsistent, Terminal
  <2> QED BY <1>2, <2>1, <2>2 DEF Rewrites, HoldKept, HeldStatuses, Row, Terminal
<1> DEFINE s == [downloads[j] EXCEPT !.status = "active", !.claimed_at = 0]
<1>3. downloads' = [downloads EXCEPT ![j] = s] /\ downloads[j].status = "queued"
  BY DEF ClaimNext, Claimable
<1>4. /\ Rewrites(downloads[j], s)
      /\ HoldKept(downloads[j], s)
      /\ s.status = "active"
  BY <1>1, <1>2, <1>3
<1> HIDE DEF s
<1> QED BY <1>1, <1>3, <1>4, OneRowInv

LEMMA ProgressInv ==
  ASSUME TableInv, NEW j \in Ids, NEW p \in Int, UpdateProgress(j, p)
  PROVE  TableInv' /\ EndedRowsKept /\ HeldRowsKept
<1>1. CASE downloads[j].status # "active"
  BY <1>1, NothingWrittenInv DEF UpdateProgress
<1>2. CASE downloads[j].status = "active"
  <2>1. Exists(j) /\ downloads[j] \in Row /\ RowConsistent(downloads[j])
    BY <1>2, ExistingRow DEF Statuses
  <2>2. ASSUME NEW r \in Row, RowConsistent(r), r.status = "active"
        PROVE  /\ Rewrites(r, [r EXCEPT !.progress = Clamped(p)])
               /\ HoldKept(r, [r EXCEPT !.progress = Clamped(p)])
    BY <2>2, ClampedInRange
       DEF Rewrites, HoldKept, HeldStatuses, Row, RowConsistent, Terminal
  <2> QED BY <1>2, <2>1, <2>2, OneRowInv DEF UpdateProgress
<1> QED BY <1>1, <1>2

\* Only a finished download has a file to record.
LEMMA ReleaseInv ==
  ASSUME TableInv, NEW j \in Ids, NEW outcome \in Terminal,
         NEW path \in Paths \cup {NoPath}, path # NoPath => outcome = "done",
         ReleaseJob(j, outcome, path)
  PROVE  /\ TableInv' /\ EndedRowsKept
         /\ \A k \in Ids \ {j} : downloads'[k] = downloads[k]
<1>1. CASE ~Releasable(downloads[j])
  BY <1>1, NothingWrittenInv DEF ReleaseJob
<1>2. CASE Releasable(downloads[j])
  <2>1. Exists(j) /\ downloads[j] \in Row /\ RowConsistent(downloads[j])
    BY <1>2, ExistingRow DEF Statuses, Releasable
  <2>2. ASSUME NEW r \in Row, RowConsistent(r), r.status = "active"
        PROVE  Rewrites(r, [r EXCEPT
                 !.status = outcome,
                 !.finished_at = TRUE,
                 !.error_code = IF outcome = "error" THEN "ytdlp_error" ELSE @,
                 !.file_path = IF path = NoPath THEN @ ELSE path])
    BY <2>2 DEF Rewrites, Row, RowConsistent, Statuses, Terminal
  <2> QED BY <1>2, <2>1, <2>2, OneRowInv DEF ReleaseJob, Releasable
<1> QED BY <1>1, <1>2

LEMMA CancelInv ==
  ASSUME TableInv, NEW j \in Ids, CancelJob(j)
  PROVE  TableInv' /\ EndedRowsKept /\ HeldRowsKept
<1>1. CASE downloads[j].status = "queued"
  <2>1. Exists(j) /\ downloads[j] \in Row /\ RowConsistent(downloads[j])
    BY <1>1, ExistingRow DEF Statuses
  <2>2. ASSUME NEW r \in Row, RowConsistent(r), r.status = "queued"
        PROVE  /\ Rewrites(r, [r EXCEPT !.status = "cancelled",
                                        !.finished_at = TRUE])
               /\ HoldKept(r, [r EXCEPT !.status = "cancelled",
                                        !.finished_at = TRUE])
    BY <2>2 DEF Rewrites, HoldKept, HeldStatuses, Row, RowConsistent, Statuses,
                Terminal
  <2> QED BY <1>1, <2>1, <2>2, OneRowInv DEF CancelJob
<1>2. CASE downloads[j].status = "active"
  <2>1. Exists(j) /\ downloads[j] \in Row /\ RowConsistent(downloads[j])
    BY <1>2, ExistingRow DEF Statuses
  <2>2. ASSUME NEW r \in Row, RowConsistent(r), r.status = "active"
        PROVE  /\ Rewrites(r, [r EXCEPT !.cancel_requested = TRUE])
               /\ HoldKept(r, [r EXCEPT !.cancel_requested = TRUE])
    BY <2>2 DEF Rewrites, HoldKept, HeldStatuses, Row, RowConsistent, Terminal
  <2> QED BY <1>2, <2>1, <2>2, OneRowInv DEF CancelJob
<1>3. CASE downloads[j].status \notin {"queued", "active"}
  BY <1>3, NothingWrittenInv DEF CancelJob
<1> QED BY <1>1, <1>2, <1>3

LEMMA ReapInv ==
  ASSUME TableInv, DetectStaleJobs
  PROVE  TableInv' /\ EndedRowsKept /\ HeldRowsKept
<1>1. ASSUME NEW r \in Row, RowConsistent(r), r.status = "active",
             NEW s, s = [r EXCEPT !.status = "error",
                                  !.error_code = "stale_worker",
                                  !.finished_at = TRUE]
      PROVE  Rewrites(r, s) /\ HoldKept(r, s)
  BY <1>1 DEF Rewrites, HoldKept, HeldStatuses, Row, RowConsistent, Statuses,
              Terminal
<1>2. ASSUME NEW k \in Ids
      PROVE  \/ downloads'[k] = downloads[k]
             \/ /\ Exists(k)
                /\ Rewrites(downloads[k], downloads'[k])
                /\ HoldKept(downloads[k], downloads'[k])
  BY <1>1, ExistingRow DEF DetectStaleJobs, IsStale, Statuses
<1>3. downloads' \in [Ids -> Row \cup {Absent}]
  BY <1>2 DEF DetectStaleJobs, TableInv, TableOK, Rewrites
<1>4. HeldRowsKept
  BY <1>2 DEF HeldRowsKept, HoldKept
<1> QED BY <1>2, <1>3, <1>4, RewriteInv

LEMMA RequeueInv ==
  ASSUME TableInv, RequeueActiveOnStartup PROVE TableInv' /\ EndedRowsKept
<1>1. ASSUME NEW r \in Row, RowConsistent(r), r.status = "active"
      PROVE  Rewrites(r, [r EXCEPT !.status = "queued", !.claimed_at = NULL])
  BY <1>1 DEF Rewrites, Row, RowConsistent, Statuses, Terminal
<1>2. ASSUME NEW k \in Ids
      PROVE  \/ downloads'[k] = downloads[k]
             \/ Exists(k) /\ Rewrites(downloads[k], downloads'[k])
  BY <1>1, ExistingRow DEF RequeueActiveOnStartup, Statuses
<1>3. downloads' \in [Ids -> Row \cup {Absent}]
  BY <1>2 DEF RequeueActiveOnStartup, TableInv, TableOK, Rewrites
<1> QED BY <1>2, <1>3, RewriteInv

LEMMA TimeInv ==
  ASSUME TableInv, TimePasses
  PROVE  TableInv' /\ EndedRowsKept /\ HeldRowsKept
<1>1. ASSUME NEW r \in Row, RowConsistent(r), Growing(r),
             NEW s, s = [r EXCEPT !.claimed_at = @ + 1]
      PROVE  Rewrites(r, s) /\ HoldKept(r, s)
  <2>1. r.claimed_at + 1 \in Ages /\ r.claimed_at + 1 # NULL
    BY <1>1, StaleTimeoutAssumption DEF Growing, Ages, NULL
  <2>2. s \in Row
    BY <1>1, <2>1 DEF Row
  <2>3. RowConsistent(s)
    BY <1>1, <2>1 DEF Growing, Row, RowConsistent, Terminal
  <2> QED BY <1>1, <2>2, <2>3 DEF Rewrites, HoldKept, Row, Growing, Terminal
<1>2. ASSUME NEW k \in Ids
      PROVE  \/ downloads'[k] = downloads[k]
             \/ /\ Exists(k)
                /\ Rewrites(downloads[k], downloads'[k])
                /\ HoldKept(downloads[k], downloads'[k])
  BY <1>1, ExistingRow DEF TimePasses, Growing, Statuses
<1>3. downloads' \in [Ids -> Row \cup {Absent}]
  BY <1>2 DEF TimePasses, TableInv, TableOK, Rewrites
<1>4. HeldRowsKept
  BY <1>2 DEF HeldRowsKept, HoldKept
<1> QED BY <1>2, <1>3, <1>4, RewriteInv

-----------------------------------------------------------------------------
(***************************************************************************)
(* Only a claim makes a row active, only a report moves the progress of a  *)
(* row, and no transaction loses a row or forgets a cancel request.        *)
(***************************************************************************)
Quiet(r, s) ==
  /\ s.status # "absent"
  /\ s.status = "active" => r.status = "active"
  /\ r.cancel_requested => s.cancel_requested
  /\ s.progress = r.progress

RowsStay ==
  \A k \in Ids : /\ Exists(k) => Exists(k)'
                 /\ IsCancelRequested(k) => IsCancelRequested(k)'

NoneStarted ==
  \A k \in Ids : downloads'[k].status = "active" => downloads[k].status = "active"

NoneProgresses ==
  \A k \in Ids : IsCancelRequested(k) => downloads'[k].progress = downloads[k].progress

QuietStep == RowsStay /\ NoneStarted /\ NoneProgresses

LEMMA QuietRows ==
  ASSUME \A k \in Ids : \/ downloads'[k] = downloads[k]
                        \/ Exists(k) /\ Quiet(downloads[k], downloads'[k])
  PROVE  QuietStep
BY DEF QuietStep, Quiet, RowsStay, NoneStarted, NoneProgresses,
       IsCancelRequested, Exists

LEMMA EnqueueQuiet ==
  ASSUME TableInv, NEW j \in Ids, NEW t \in Stamps, EnqueueDownload(j, t)
  PROVE  QuietStep
<1>1. ~Exists(j) /\ downloads'[j] = NewRow(t)
      /\ \A k \in Ids \ {j} : downloads'[k] = downloads[k]
  BY DEF TableInv, TableOK, EnqueueDownload, IsNextId, Ids
<1>2. downloads'[j].status = "queued"
  BY <1>1 DEF NewRow
<1> QED BY <1>1, <1>2 DEF QuietStep, RowsStay, NoneStarted, NoneProgresses,
           IsCancelRequested, Exists

LEMMA ReleaseQuiet ==
  ASSUME TableInv, NEW j \in Ids, NEW outcome \in Terminal, NEW path,
         ReleaseJob(j, outcome, path)
  PROVE  QuietStep /\ downloads'[j].status # "active"
<1>1. CASE ~Releasable(downloads[j])
  <2>1. downloads' = downloads
    BY <1>1 DEF ReleaseJob
  <2> QED BY <1>1, <2>1, QuietRows DEF Releasable
<1>2. CASE Releasable(downloads[j])
  <2>1. Exists(j) /\ downloads[j] \in Row
    BY <1>2, ExistingRow DEF Statuses, Releasable
  <2>2. ASSUME NEW r \in Row,
               NEW s, s = [r EXCEPT
                 !.status = outcome,
                 !.finished_at = TRUE,
                 !.error_code = IF outcome = "error" THEN "ytdlp_error" ELSE @,
                 !.file_path = IF path = NoPath THEN @ ELSE path]
        PROVE  Quiet(r, s) /\ s.status # "active"
    BY <2>2 DEF Quiet, Row, Terminal
  <2>3. Quiet(downloads[j], downloads'[j]) /\ downloads'[j].status # "active"
    BY <1>2, <2>1, <2>2 DEF ReleaseJob, TableInv, TableOK
  <2>4. \A k \in Ids \ {j} : downloads'[k] = downloads[k]
    BY <1>2 DEF ReleaseJob, TableInv, TableOK
  <2> QED BY <2>1, <2>3, <2>4, QuietRows
<1> QED BY <1>1, <1>2

LEMMA CancelQuiet ==
  ASSUME TableInv, NEW j \in Ids, CancelJob(j)
  PROVE  QuietStep
<1>1. CASE downloads[j].status \in {"queued", "active"}
  <2>1. Exists(j) /\ downloads[j] \in Row
    BY <1>1, ExistingRow DEF Statuses
  <2>2. ASSUME NEW r \in Row
        PROVE  /\ Quiet(r, [r EXCEPT !.status = "cancelled", !.finished_at = TRUE])
               /\ r.status # "absent"
                    => Quiet(r, [r EXCEPT !.cancel_requested = TRUE])
    BY <2>2 DEF Quiet, Row
  <2>3. \A k \in Ids \ {j} : downloads'[k] = downloads[k]
    BY <1>1 DEF CancelJob, TableInv, TableOK
  <2>4. Quiet(downloads[j], downloads'[j])
    BY <1>1, <2>1, <2>2 DEF CancelJob, TableInv, TableOK
  <2> QED BY <2>1, <2>3, <2>4, QuietRows
<1>2. CASE downloads[j].status \notin {"queued", "active"}
  BY <1>2, QuietRows DEF CancelJob
<1> QED BY <1>1, <1>2

LEMMA ReapQuiet ==
  ASSUME TableInv, DetectStaleJobs PROVE QuietStep
<1>1. ASSUME NEW r \in Row
      PROVE  Quiet(r, [r EXCEPT !.status = "error",
                                !.error_code = "stale_worker",
                                !.finished_at = TRUE])
  BY <1>1 DEF Quiet, Row
<1>2. ASSUME NEW k \in Ids
      PROVE  \/ downloads'[k] = downloads[k]
             \/ Exists(k) /\ Quiet(downloads[k], downloads'[k])
  BY <1>1, ExistingRow DEF DetectStaleJobs, IsStale, Statuses
<1> QED BY <1>2, QuietRows

LEMMA TimeQuiet ==
  ASSUME TableInv, TimePasses PROVE QuietStep
<1>1. ASSUME NEW r \in Row, r.status # "absent"
      PROVE  Quiet(r, [r EXCEPT !.claimed_at = @ + 1])
  BY <1>1 DEF Quiet, Row
<1>2. ASSUME NEW k \in Ids
      PROVE  \/ downloads'[k] = downloads[k]
             \/ Exists(k) /\ Quiet(downloads[k], downloads'[k])
  BY <1>1, ExistingRow DEF TimePasses, Growing, Statuses, Exists
<1> QED BY <1>2, QuietRows

\* A start-up leaves no row active.
LEMMA RequeueQuiet ==
  ASSUME TableInv, RequeueActiveOnStartup
  PROVE  QuietStep /\ \A k \in Ids : downloads'[k].status # "active"
<1>1. ASSUME NEW r \in Row,
             NEW s, s = [r EXCEPT !.status = "queued", !.claimed_at = NULL]
      PROVE  Quiet(r, s) /\ s.status # "active"
  BY <1>1 DEF Quiet, Row
<1>2. ASSUME NEW k \in Ids
      PROVE  /\ \/ downloads'[k] = downloads[k]
                \/ Exists(k) /\ Quiet(downloads[k], downloads'[k])
             /\ downloads'[k].status # "active"
  BY <1>1, ExistingRow DEF RequeueActiveOnStartup, Statuses
<1> QED BY <1>2, QuietRows

\* A claim starts one row and is quiet about the rest.
LEMMA ClaimKeepsRows ==
  ASSUME TableInv, NEW j \in Ids, ClaimNext(j)
  PROVE  RowsStay /\ NoneProgresses
<1>1. Exists(j) /\ downloads[j] \in Row
  BY ExistingRow DEF ClaimNext, Claimable, Statuses
<1>2. ASSUME NEW r \in Row,
             NEW s, s = [r EXCEPT !.status = "active", !.claimed_at = 0]
      PROVE  /\ s.status # "absent" /\ s.progress = r.progress
             /\ s.cancel_requested = r.cancel_requested
  BY <1>2 DEF Row
<1>3. /\ downloads'[j].status # "absent"
      /\ downloads'[j].progress = downloads[j].progress
      /\ downloads'[j].cancel_requested = downloads[j].cancel_requested
  BY <1>1, <1>2 DEF ClaimNext, TableInv, TableOK
<1>4. \A k \in Ids \ {j} : downloads'[k] = downloads[k]
  BY DEF ClaimNext, TableInv, TableOK
<1> QED BY <1>3, <1>4 DEF RowsStay, NoneProgresses, IsCancelRequested, Exists

\* A report moves one row and starts none.
LEMMA ProgressKeepsRows ==
  ASSUME TableInv, NEW j \in Ids, NEW p \in Int, UpdateProgress(j, p)
  PROVE  /\ RowsStay /\ NoneStarted
         /\ \A k \in Ids \ {j} : downloads'[k] = downloads[k]
<1>1. CASE downloads[j].status # "active"
  BY <1>1, QuietRows DEF UpdateProgress, QuietStep
<1>2. CASE downloads[j].status = "active"
  <2>1. Exists(j) /\ downloads[j] \in Row
    BY <1>2, ExistingRow DEF Statuses
  <2>2. ASSUME NEW r \in Row, NEW s, s = [r EXCEPT !.progress = Clamped(p)]
        PROVE  s.status = r.status /\ s.cancel_requested = r.cancel_requested
    BY <2>2 DEF Row
  <2>3. /\ downloads'[j].status = downloads[j].status
        /\ downloads'[j].cancel_requested = downloads[j].cancel_requested
    BY <1>2, <2>1, <2>2 DEF UpdateProgress, TableInv, TableOK
  <2>4. \A k \in Ids \ {j} : downloads'[k] = downloads[k]
    BY <1>2 DEF UpdateProgress, TableInv, TableOK
  <2> QED BY <2>3, <2>4 DEF RowsStay, NoneStarted, IsCancelRequested, Exists
<1> QED BY <1>1, <1>2

-----------------------------------------------------------------------------
(***************************************************************************)
(* A claim keeps its time: only the clock makes it older, tick by tick.    *)
(***************************************************************************)
ClaimTimesStay ==
  \A k \in Ids : downloads[k].status = "active" /\ downloads'[k].status = "active"
                   => downloads'[k].claimed_at = downloads[k].claimed_at

LEMMA TransactionsKeepTimes ==
  ASSUME TableInv, NEW j \in Ids,
         \/ \E t \in Stamps : EnqueueDownload(j, t)
         \/ ClaimNext(j) \/ CancelJob(j)
         \/ \E p \in Int : UpdateProgress(j, p)
         \/ \E outcome \in Terminal, path \in Paths \cup {NoPath} :
              ReleaseJob(j, outcome, path)
  PROVE  ClaimTimesStay
<1>1. CASE \E t \in Stamps : EnqueueDownload(j, t)
  BY <1>1 DEF EnqueueDownload, IsNextId, NewRow, TableInv, TableOK, Exists,
     ClaimTimesStay
<1>2. CASE ClaimNext(j)
  BY <1>2, ClaimInv DEF ClaimTimesStay
<1>3. CASE CancelJob(j)
  <2>1. downloads[j].status = "active" => downloads[j] \in Row
    BY ExistingRow DEF Statuses
  <2> QED BY <1>3, <2>1 DEF CancelJob, TableInv, TableOK, Row, ClaimTimesStay
<1>4. ASSUME NEW p \in Int, UpdateProgress(j, p) PROVE ClaimTimesStay
  <2>1. downloads[j].status = "active" => downloads[j] \in Row
    BY ExistingRow DEF Statuses
  <2> QED BY <1>4, <2>1 DEF UpdateProgress, TableInv, TableOK, Row, ClaimTimesStay
<1>5. ASSUME NEW outcome \in Terminal, NEW path \in Paths \cup {NoPath},
             ReleaseJob(j, outcome, path)
      PROVE  ClaimTimesStay
  <2>1. \A k \in Ids \ {j} : downloads'[k] = downloads[k]
    BY <1>5 DEF ReleaseJob, TableInv, TableOK
  <2>2. downloads'[j].status # "active" \/ downloads'[j] = downloads[j]
    BY <1>5, ReleaseQuiet
  <2> QED BY <2>1, <2>2 DEF ClaimTimesStay
<1> QED BY <1>1, <1>2, <1>3, <1>4, <1>5

LEMMA SweepsKeepTimes ==
  ASSUME TableInv, DetectStaleJobs \/ RequeueActiveOnStartup
  PROVE  ClaimTimesStay
<1>1. \A k \in Ids : downloads[k].status = "active" => downloads[k] \in Row
  BY ExistingRow DEF Statuses
<1>2. CASE DetectStaleJobs
  BY <1>1, <1>2 DEF DetectStaleJobs, Row, ClaimTimesStay
<1>3. CASE RequeueActiveOnStartup
  BY <1>3, RequeueQuiet DEF ClaimTimesStay
<1> QED BY <1>2, <1>3

\* A stale row is failed; a tick makes a running claim one older.
LEMMA StaleEnds ==
  ASSUME TableInv, NEW j \in Ids, IsStale(downloads[j]), DetectStaleJobs
  PROVE  downloads'[j].status # "active"
<1>1. downloads[j] \in Row
  BY ExistingRow DEF IsStale, Statuses
<1> QED BY <1>1 DEF DetectStaleJobs, Row

LEMMA TickAges ==
  ASSUME TableInv, NEW j \in Ids, downloads[j].status = "active", TimePasses
  PROVE  /\ downloads'[j].status = "active"
         /\ IF Growing(downloads[j])
            THEN downloads'[j].claimed_at = downloads[j].claimed_at + 1
            ELSE downloads'[j].claimed_at = downloads[j].claimed_at
<1>1. downloads[j] \in Row
  BY ExistingRow DEF Statuses
<1> QED BY <1>1 DEF TimePasses, Row

-----------------------------------------------------------------------------
\* Deleting a row that is done: what is left is consistent, and no held row
\* is touched.
LEMMA DeleteInv ==
  ASSUME TableInv, NEW j \in Ids, downloads[j].status = "done",
         downloads' = [downloads EXCEPT ![j] = Absent]
  PROVE  TableInv' /\ HeldRowsKept
<1>1. downloads'[j] = Absent /\ \A k \in Ids \ {j} : downloads'[k] = downloads[k]
  BY DEF TableInv, TableOK
<1>2. TableOK'
  BY DEF TableInv, TableOK
<1>3. ~Exists(j)'
  BY <1>1 DEF Exists, Absent
<1>4. RowsConsistent' /\ StampsFollowIds'
  BY <1>1, <1>3 DEF TableInv, RowsConsistent, RowConsistent, StampsFollowIds, Exists
<1>5. HeldRowsKept
  BY <1>1 DEF HeldRowsKept, HoldKept, HeldStatuses
<1> QED BY <1>2, <1>4, <1>5 DEF TableInv
=============================================================================
