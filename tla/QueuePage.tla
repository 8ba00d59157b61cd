------------------------------ MODULE QueuePage ------------------------------
(***************************************************************************)
(* One browser tab on the queue page (app/templates/pages/queue.html) next *)
(* to the table it watches (get_recent_completed_jobs, queue_page,         *)
(* queue_rows).  The page and every poll carry completion markers: the ids *)
(* of the `Limit' done rows that finished last.  The tab shows a toast for *)
(* a marker it has not seen, and remembers what it saw BY ID, in memory    *)
(* and in sessionStorage, which survives a reload.                         *)
(*                                                                         *)
(* The pool is reduced to claims and releases: markers depend on nothing   *)
(* else.  Dismissing a toast changes nothing that is read again.           *)
(***************************************************************************)
EXTENDS DownloadTable, FiniteSets

CONSTANT Limit   \* completion markers in one reply (20 in the code)

ASSUME LimitAssumption == Limit \in Nat \ {0}

VARIABLES
  now,        \* the clock of the server, in seconds
  finished,   \* finished_at of each done row, in seconds; else 0
  open,       \* is the queue page shown in the tab?
  seen,       \* seenCompletedJobs of the page, in memory
  stored,     \* its copy in sessionStorage
  rendered,   \* the page on its way to the tab, or Nothing
  polled,     \* the poll reply on its way to the tab, or Nothing
  toasts,     \* history: toasts shown for each id since its row was enqueued
  before,     \* history: rows done when the page was rendered, until the
              \* next deletion
  freed       \* history: ids whose row was deleted at some time

tableVars == <<downloads, now, finished, freed>>
tabVars == <<open, seen, stored, rendered, polled>>
pageVars == <<tableVars, tabVars, toasts, before>>

Nothing == [markers |-> {}, done |-> {}, sent |-> FALSE]

AllEnded ==           \* mutant: finished_at is set, whatever the status
  {j \in Ids : downloads[j].status \in Terminal}

Done == {j \in Ids : downloads[j].status = "done"}

FinishedBefore(j, k) ==
  \/ finished[j] < finished[k]
  \/ finished[j] = finished[k] /\ j < k

OldestMarkers ==      \* mutant: ORDER BY finished_at ASC
  {j \in Done : Cardinality({k \in Done : FinishedBefore(k, j)}) < Limit}

AllMarkers == Done    \* mutant: no LIMIT

Markers ==
  {j \in Done : Cardinality({k \in Done : FinishedBefore(j, k)}) < Limit}

Reply == [markers |-> Markers, done |-> Done, sent |-> TRUE]

Replies == [markers : {m \in SUBSET Ids : Cardinality(m) <= Limit},
            done : SUBSET Ids, sent : BOOLEAN]

PageTypeOK ==
  /\ TableOK
  /\ now \in Stamps /\ finished \in [Ids -> Stamps]
  /\ open \in BOOLEAN
  /\ seen \subseteq Ids /\ stored \subseteq Ids
  /\ rendered \in Replies /\ polled \in Replies
  /\ toasts \in [Ids -> 0 .. 2] /\ before \subseteq Ids /\ freed \subseteq Ids

PageInit ==
  /\ TableInit /\ now = 0 /\ finished = [j \in Ids |-> 0]
  /\ open = FALSE /\ seen = {} /\ stored = {}
  /\ rendered = Nothing /\ polled = Nothing
  /\ toasts = [j \in Ids |-> 0] /\ before = {} /\ freed = {}

-----------------------------------------------------------------------------
(* The table meanwhile. *)

Second ==
  /\ now < MaxStamp /\ now' = now + 1
  /\ UNCHANGED <<downloads, finished, tabVars, toasts, before, freed>>

Enqueued(j) ==
  /\ EnqueueDownload(j, now)
  /\ toasts' = [toasts EXCEPT ![j] = 0]
  /\ UNCHANGED <<now, finished, tabVars, before, freed>>

Claimed(j) ==
  /\ ClaimNext(j)
  /\ UNCHANGED <<now, finished, tabVars, toasts, before, freed>>

Released(j, outcome) ==
  /\ Releasable(downloads[j])
  /\ ReleaseJob(j, outcome, NoPath)
  /\ finished' = [finished EXCEPT ![j] = IF outcome = "done" THEN now ELSE 0]
  /\ UNCHANGED <<now, tabVars, toasts, before, freed>>

Deleted(j) ==
  /\ j \in Done
  /\ downloads' = [downloads EXCEPT ![j] = Absent]
  /\ finished' = [finished EXCEPT ![j] = 0]
  /\ rendered' = [rendered EXCEPT !.done = {}] /\ before' = {}
  /\ freed' = freed \cup {j}
  /\ UNCHANGED <<now, open, seen, stored, polled, toasts>>

-----------------------------------------------------------------------------
(* The tab. *)

(***************************************************************************)
(* scan: ids not seen before are remembered, in memory and in the storage, *)
(* and shown unless the scan is silent (the one at boot is).               *)
(***************************************************************************)
ScanInMemoryOnly(known, markers, silent) ==   \* mutant: no persistSeen
  /\ seen' = known \cup markers
  /\ stored' = stored
  /\ toasts' = [j \in Ids |-> IF ~silent /\ j \in markers \ known
                              THEN toasts[j] + 1 ELSE toasts[j]]

Scan(known, markers, silent) ==
  /\ seen' = known \cup markers
  /\ stored' = seen'
  /\ toasts' = [j \in Ids |-> IF ~silent /\ j \in markers \ known
                              THEN toasts[j] + 1 ELSE toasts[j]]

\* GET /queue, the first time or again.  A page that is shown stays until
\* the new one arrives.
AskForPage ==
  /\ ~rendered.sent
  /\ rendered' = Reply
  /\ UNCHANGED <<tableVars, open, seen, stored, polled, toasts, before>>

BootLoud ==           \* mutant: boot does not scan silently
  /\ rendered.sent
  /\ open' = TRUE /\ rendered' = Nothing /\ polled' = Nothing
  /\ Scan(stored, rendered.markers, FALSE)
  /\ before' = rendered.done
  /\ UNCHANGED tableVars

Boot ==
  /\ rendered.sent
  /\ open' = TRUE /\ rendered' = Nothing /\ polled' = Nothing
  /\ Scan(stored, rendered.markers, TRUE)
  /\ before' = rendered.done
  /\ UNCHANGED tableVars

\* hx-trigger="every 2s"; the element has one request in flight at a time.
Poll ==
  /\ open /\ ~polled.sent
  /\ polled' = Reply
  /\ UNCHANGED <<tableVars, open, seen, stored, rendered, toasts, before>>

Swap ==
  /\ polled.sent
  /\ polled' = Nothing
  /\ Scan(seen, polled.markers, FALSE)
  /\ UNCHANGED <<tableVars, open, rendered, before>>

\* The reply of POST /queue/cancel/{id} carries no markers, so that swapping
\* it in scans nothing: only its transaction is left.
CancelClicked(j) ==
  /\ open
  /\ CancelJob(j)
  /\ UNCHANGED <<now, finished, tabVars, toasts, before, freed>>

\* To another page of the site: memory goes, sessionStorage stays.
Leave ==
  /\ open
  /\ open' = FALSE /\ seen' = {} /\ rendered' = Nothing /\ polled' = Nothing
  /\ UNCHANGED <<tableVars, stored, toasts, before>>

Meanwhile ==
  \/ Second
  \/ \E j \in Ids : Enqueued(j) \/ Claimed(j) \/ Deleted(j)
  \/ \E j \in Ids, outcome \in {"done", "error", "cancelled"} :
       Released(j, outcome)

PageNext ==
  \/ Meanwhile
  \/ AskForPage \/ Boot \/ Poll \/ Swap \/ Leave
  \/ \E j \in Ids : CancelClicked(j)

PageSpec == PageInit /\ [][PageNext]_pageVars

\* htmx polls every two seconds, and its requests are answered.
PollingSpec == PageSpec /\ WF_pageVars(Poll) /\ WF_pageVars(Swap)

-----------------------------------------------------------------------------
(***************************************************************************)
(* A completion is announced once in a tab, although its marker comes with *)
(* every poll, leaves the reply as others finish and returns as they are   *)
(* deleted, and although the page is reloaded and left in between.         *)
(***************************************************************************)
AnnouncedOnce == \A j \in Ids : toasts[j] <= 1

(***************************************************************************)
(* The tab remembers nobody else's id: an id in its memory or its storage  *)
(* is that of a download that is done, or it was freed by a deletion since *)
(* (a row that takes it over is then remembered before it completes, and   *)
(* its toast is swallowed: the price of remembering ids, paid only then).  *)
(***************************************************************************)
RememberedIsDone ==
  \A j \in seen \cup stored : downloads[j].status = "done" \/ j \in freed

(***************************************************************************)
(* The download that finished last reaches an open page, in spite of the   *)
(* limit and of reloads that throw poll replies away: it is seen unless    *)
(* another one finishes, it is deleted, or the page is left.               *)
(***************************************************************************)
FinishedLast(j) ==
  j \in Done /\ \A k \in Done \ {j} :
    finished[k] < finished[j] \/ (finished[k] = finished[j] /\ k < j)

LastIsSeen ==
  \A j \in Ids :
    open /\ FinishedLast(j) ~> j \in seen \/ ~FinishedLast(j) \/ ~open

(***************************************************************************)
(* Toasts are news: a download that was done when the page was rendered    *)
(* gets none ("The client deduplicates toasts via a sessionStorage set, so *)
(* the server only needs to bound the result size", queue.py), although    *)
(* the limit hides older rows from the silent scan at boot.  It holds      *)
(* until something is deleted from the library: that moves an older row    *)
(* back within the limit, and the page does announce it.                   *)
(***************************************************************************)
ToastsAreNews ==
  [][\A j \in Ids : toasts'[j] > toasts[j] => j \notin before']_pageVars

-----------------------------------------------------------------------------
(***************************************************************************)
(* The inductive invariant.  The tab's memory and its copy agree while the *)
(* page is shown, and what was announced is in the copy; every marker that *)
(* is remembered or under way is that of a done row or a freed id; and a   *)
(* row that was done when the page was rendered is either remembered or    *)
(* hidden by the limit, from where only a deletion could bring it back.    *)
(***************************************************************************)
TabOK ==
  /\ open => seen = stored
  /\ polled.sent => open
  /\ \A j \in Ids : toasts[j] > 0 => j \in stored

MarkersAreDone ==
  \A j \in seen \cup stored \cup rendered.markers \cup polled.markers :
    downloads[j].status = "done" \/ j \in freed

Hidden(j) ==
  j \in Done /\ Cardinality({k \in Done : FinishedBefore(j, k)}) >= Limit

OldIsKnown ==
  /\ rendered.sent => \A j \in rendered.done : j \in rendered.markers \/ Hidden(j)
  /\ open => \A j \in before : j \in seen \/ Hidden(j)
  /\ polled.sent => polled.markers \cap before \subseteq seen

PageInv ==
  /\ TableInv
  /\ PageTypeOK
  /\ AnnouncedOnce
  /\ TabOK
  /\ MarkersAreDone
  /\ OldIsKnown
=============================================================================
