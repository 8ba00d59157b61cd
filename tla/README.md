# YourTube: a verification project

YourTube is a single-process FastAPI server that downloads videos with yt-dlp.
Users enqueue downloads, a pool of worker threads runs them, a third kind of
thread reaps the ones that take too long, and the pages show queue, library and
settings. All of them meet in one SQLite table. This directory holds TLA+
modules that model that system, TLC configurations that check them on small
instances, and theorems that TLAPS proves for every instance.

## 1. Inventory

| Component | State it keeps | Operations | Hard behaviour | What makes it correct |
|---|---|---|---|---|
| Table and queue service (`app/models.py`, `app/services/queue.py`) | one row per download: status, claim time, cancel flag, progress, outcome | enqueue, claim, progress, cancel, release, reap, requeue at start-up | claims of several threads; conditional updates by threads whose row has moved on; ids handed out again | a row has one owner, its columns agree, an end is final, order is first come first served |
| Worker pool and job runner (`app/main.py`, `app/services/job_runner.py`) | threads, stop event, the job each thread holds | start, claim loop, run a job, stop, reap loop | a thread can be overtaken between any two of its transactions; exceptions outside the try block; crash and restart; a clock | every job ends, no row stays active for ever, a cancel takes effect |
| Downloader (`app/services/downloader.py`) | per run: last percent, captured path | formats, selector, options, run, hook, transcript, metadata | external hook calls, their order, post-processing, files left by earlier runs, formats that change between preview and download | cancels, bounded progress, the right streams, the right output path |
| Library (`app/services/library.py`) | done rows and files on disk | list, search, delete | check, file removal and row deletion are separate; two requests at once | only done rows go; a cut-short deletion can be completed |
| Settings (`app/services/settings.py`, `app/config.py`) | key-value table, environment | get, set, batch, reset, resolve | concurrent saves; what takes effect when | a save is all or nothing; documented precedence |
| Batch preview (`app/services/batch_preview.py`, `preview.py`) | none (request-scoped) | parse sources, expand playlists, page | remote content changes between pages | no duplicates, pages partition the items |
| Intake (`app/services/enqueue_intake.py`, `stream_selection.py`, the cards and the picker) | per tab: what is picked on each card | form to payloads, one insert per payload | four shapes of form, partial failure of a batch, other requests and workers in between | the payloads are the selection, in order, together; replies are true |
| Error mapping (`app/services/error_mapper.py`) | none | text to code | several rules match one text | the code names the cause |
| Queue page (`templates/pages/queue.html`) | per tab: seen ids, toasts | poll, scan, dismiss | polling, limited result, reused ids | one toast per completed download |
| Pages and routes (`app/routes/pages.py`) | none | glue | async handlers on one event loop, sync ones in a thread pool | as their services |
| Engine, migrations, diagnostics, static assets | configuration, text | | | not modelled, see section 5 |

Interaction: routes and threads call the services; every service call is a
short session of its own. The table is the only shared state, plus the stop
event of the pool and the files on disk. There are no callbacks except yt-dlp's
progress hook, which polls the cancel flag and writes the progress.

The hazards this code is exposed to, each at its line, are listed in
`PROJECT.json` ("hazards") with the properties that cover them.

## 2. Modules

| Module | Models | Kind |
|---|---|---|
| `DownloadTable` | the table and each transaction of `queue.py` | operators |
| `WorkerPool` | process, worker threads, reaper, users; EXTENDS `DownloadTable` | specification |
| `JobLifecycle` | the documented life of a download | abstract specification |
| `WorkerPoolProperties` | invariants, action properties, liveness, fairness, refinement | properties |
| `CancelLatency` | `WorkerPool` with two history variables | specification |
| `Library` | delete requests and files, composed with `WorkerPool` | specification |
| `QueuePage` | one browser tab, its polls and toasts; EXTENDS `DownloadTable` | specification |
| `Settings` | the settings table, concurrent saves and resets, resolution | specification |
| `BatchPreview` | sources, playlists, pages of cards | specification |
| `StreamPicker` | formats, the picker of a card, the expected container, the selector | operators |
| `Intake` | cards, forms, enqueue requests, a worker that runs the rows; EXTENDS `DownloadTable`, `StreamPicker` | specification |
| `Downloader` | one call of `run_download`, with yt-dlp's side of it | specification |
| `DownloadCall` | what a call promises its caller: progress, a cancel flag it obeys, one end; `Downloader` is shown to implement it | specification |
| `Transcript` | `render_transcript_text` as a recursive function, used by `Downloader` | operators |
| `ErrorMapper` | the ordered rules of `friendly_ytdlp_error`, used by `Downloader` | operators |
| `MC...` | instances | instances for TLC |
| `DownloadTableProofs` | lemmas about each operation of the table | proofs |
| `WorkerPoolProofs` | the pool, its refinement of `JobLifecycle`, deaths and late writes, and the library composed with it | proofs |
| `RecursionLemmas` | recursive functions on numbers, induction, flattening; used for the loops of `BatchPreview` and `Transcript` | proofs |
| `QueuePageProofs`, `IntakeProofs`, `SettingsProofs`, `DownloaderProofs`, `BatchPreviewProofs` | the component each is named for | proofs |

### How the model corresponds to the code

*One transaction, one step.* Each function of `queue.py` opens a session,
executes one conditional UPDATE (two in `cancel_job`) and commits. SQLite
serialises writers from the first UPDATE on, so each is one atomic step, an
operator of `DownloadTable`. What the row is afterwards, and when nothing is
written, comes from the WHERE clause and the values of the statement.

*A thread is overtaken between transactions.* The phases of a worker (`pc`) are
the points of `_worker_loop` and `run_claimed_job` between two transactions:

| `pc` | Code |
|---|---|
| `loop` | about to test the stop event |
| `claiming` | about to run `claim_next` |
| `claimed` | has an id, has not read the row (settings, directory, `session.get`) |
| `running` | inside yt-dlp, about to be called by the hook or to end |
| `polled` | in the hook, cancel flag read as false, progress not written |
| `cancelled`, `failed`, `finished` | the download is over, `release_job` has not run |
| `dead` | an exception left the loop |

*Data kept and left out.* Columns that decide something are kept; url, title,
formats, messages and `updated_at` are not. `claimed_at` is the age of the claim
in ticks and `finished_at` is whether it is set, because the code only compares
the first with now and tests the second for NULL. The reaper's comparison of
whole seconds with a fractional cutoff can strike up to a second early; the
model does not resolve that second. Progress is a whole percentage.

*The clock.* `Tick` ages every running claim. Ages stop at `StaleTimeout + 1`:
past the timeout, older is no different.

*Faults.* With `Faults`, any database or file-system call of a worker may raise.
Inside `run_download` that fails the job; outside the try block it ends the
thread (`ThreadDies`). The reaper's loop catches its exceptions, so there a fault
is only a step not taken.

*The process.* `Crash` covers a kill at any moment and a start-up that fails
when the downloads directory cannot be made. `Stop` and `Exit` are the graceful
end: after five seconds per thread the process ends and daemon threads with it.

*Library.* A delete request loads the row, removes the file, deletes by id. A
SELECT holds no lock (the driver begins a transaction at the first write), so
anything may happen in between.

*The queue page.* `AskForPage` and `Poll` are GET requests; the reply is made
when the server reads the table and is in flight until `Boot` or `Swap`. A reply
carries the markers (`get_recent_completed_jobs`). `Scan` is the scan of
`queue.html`: the set in memory, its copy in `sessionStorage`, toasts for new
ids unless silent. `before` and `toasts` are history variables. The pool is
reduced to claims and releases and the clock to seconds.

*Settings.* A request begins, loads row after row (`Load`, one `session.get`
each) and commits. `Save` begins only when no other save is between its reads
and its commit: the PUT handler is `async` and awaits nothing after the form,
so it holds the event loop. `Reset` is a plain function in a worker thread and
has no such guard. `Commit` writes what differs from what was *read*, as
SQLAlchemy's unit of work does; `Collides` is the IntegrityError of two INSERTs
for one key. The resolution operators (`MaxConcurrent`, `PlaylistPageSize`,
`TextSetting`) have the clamps of `resolve_runtime_settings`. A text is a value
of a small set with, where it stands for an integer, that integer; `" 2"` is
one to `int()` but not to `isdecimal`.

*Batch preview.* A browser posts the list of sources with each request; the
server computes `Page` from scratch with the playlists and page size of the
moment. Which look-ups succeed is chosen anew each time (`found`).

*Formats and streams.* A format is its id, codecs and extension; every
selectable one has an extension. `ExpectedContainerByPair` is the table that
`build_stream_picker_payload` sends to the card, `ExpectedContainer` the card's
look-up in it. `Selector` is the `format` expression as a sequence of
alternatives, each the set of selections that would satisfy it with the formats
there are; `Selections` takes the first that is not empty, as yt-dlp does.

*Intake.* A tab has the cards of one preview; only ready ones have fields, and
these are numbered by the card's place among all cards (from 1 here, from 0 in
the template). `Handle` is a handler up to the point where all payloads are
built: `int()` of a broken duration or an empty URL of a single form ends it
there. `Insert` is one `enqueue_download`, a commit of its own; `InsertFails`
is an exception of the commit or of the refresh after it; `Answer` is the reply.
`LoopFree` is the event loop: both handlers are `async` and await nothing after
the form, so no other one starts before the reply; threads of the pool run in
between. `Restart` is a kill and the start-up after it: a request in flight gets
no answer. `origin` (which request a row is due to, and what was asked for) and
`took` (the streams of the last download) are history variables. The `Scripts`
are clients that post the shapes of a batch form which no template sends any
more (a text of sources, repeated fields) or an index that is no number.

*Downloader.* `todo` is what yt-dlp downloads, in its order: subtitles, then one
stream or two. A hook call is two steps, as it is two transactions: `HookPoll`
captures a finished file and polls the cancel flag, `HookReport` takes the
progress; between them (phase `polled`) the user may ask to cancel, and
`HookFails` is a transaction that raises. `late` counts the progress taken after
the request. `Merge` is yt-dlp's own step and calls no hook.
`Leftovers` are files of this title from an earlier call: yt-dlp removes those
subtitles and fetches them again, skips the streams of a merged file, and calls
the hook at once for a single one. `WriteSidecar` takes one entry of `requested_subtitles`;
its transcript is `Kept` of a file with the captions `spoken` (the same for
every language), SRT or VTT: `Cues` after a header, each with its lead. Reading or
writing one fails with an `OSError`, which the code turns into an error of its
own, or a `UnicodeDecodeError`, which it does not catch there. `outcome` is what
`run_claimed_job` passes to `release_job`. Seen through `asked`, `percent`, `late`
and the status of `outcome`, a call is a `DownloadCall`: after a request it takes
at most one more value of progress. A text of an exception is the set of the
phrases in it that some rule of `ErrorMapper` looks for; the error of a file names
the file, hence the title, and a decode error has a position in it.

*Facts about the libraries.* SQLite hands out the largest id plus one for an
INTEGER PRIMARY KEY without AUTOINCREMENT; SQLAlchemy deletes a loaded row by
its key and only warns when no row matched; its UPDATEs name net changes only;
the SQLite driver begins no transaction for a SELECT; a FormData keeps repeated
fields in order; yt-dlp tries the alternatives of a `format` expression in order
and raises when none can be satisfied; it calls the hook from
the thread that downloads and lets the hook's exceptions through, downloads
subtitles first, and merges two streams into a third file, removing both;
htmx has one polling request of an element in flight at a time.

## 3. Properties and runs

| Run | Bounds | What it shows |
|---|---|---|
| `pool_safety` | 2 threads, 2 jobs, 2 stamps, 2 percentages, 1 stop or crash, faults | `ExclusiveClaim`: one thread per job, also after reaps. `RowsConsistent`: the columns agree. `DeathStrandsOneJob`: an active row without a thread is due to a thread that died, one row each. `AtMostOneLateWrite`: progress after a cancel request; `RequestSurvivesRestart`: none at all for a job that a restart put back with its request. `TerminalFrozen`: nothing writes an ended row. `KeepsLifecycle`: refinement of `JobLifecycle` |
| `pool_liveness` | 2 threads, 2 jobs, 1 stop or crash, faults | `NothingStuck`: every live thread can take a step in every phase, whatever became of its row. `NoClaimForEver`, whatever the workers do; `CancelEndsClaim`, although no download would end, and `EveryJobEnds`, if no thread dies |
| `library` | 1 thread, 2 ids, 1 request at a time, faults | `OnlyDoneRowsDeleted`, `FilesGoWithTheirRows`, `ReusedIdsAreFree`, `DeletionCompletes` |
| `queue_page` | 2 ids, 1 marker per reply, 2 seconds | `AnnouncedOnce`, `RememberedIsDone`, `LastIsSeen`, `ToastsAreNews` |
| `settings` | 1 client, 3 keys, 6 texts, resets | `SettingsTypeOK` (only valid values), `SavesAreAtomic` |
| `batch_preview` | 2 videos, 1 playlist, 2 sources of up to 2 entries, pages of 1 or 2, 2 changes | `WalkShowsAll`, `NoDeadEnd`, `OfferedOnce` |
| `intake` | 2 videos, 3 formats, 3 rows, one request of a tab and one of another client, 1 change of formats, 1 crash | `DownloadedAsPicked`: the streams picked for this video, or an error. `RepliesAreTrue`: "Added" means all, in order; otherwise a first part, or nothing if the form was in error. `BatchesStayTogether`. `ContainerIsAnnounced` for every sequence of clicks |
| `downloader` | 1 or 2 streams, 2 languages, 2 formats of subtitles, 2 cues of 2 lines, any leftovers | `SinglePathIsOutput`, `TranscriptsComplete`, `CaptionsKept`, `CodeNamesCause`, `KeepsCall` (refinement of `DownloadCall`) |
| `reap_healthy` | violation | a healthy thread's row is reaped |
| `library_race` | 2 requests, violation | a queued row is deleted |
| `settings_race` | 2 requests, violation | a save and a reset mix |
| `downloader_merge` | no leftovers, no captions, violation | the path of a removed part |

Why the bounds are enough. *Pool:* the rules for a row do not depend on other
rows except for the order of claims, which compares pairs; two jobs and two
threads give every conflict over one row (owner, former owner, next owner). One
stop or crash gives a second process, and with it every way in which the first
one's rows are met again; the requeue keeps no trace of how often it happened.
Two stamps give rows created in the same second and in different ones.
`StaleTimeout = 1` gives a claim that is fresh, old and stale (0 where age does
not matter). *Queue page:* with one marker per reply, the second completion
already pushes the first out of it and a deletion brings it back; two ids, handed
out again, give the page rows it has seen under the same id. *Settings:* the
steps treat keys alike; three keys have the three kinds of rule, and the proofs
cover any number of clients. *Batch preview:* two sources of two entries give up
to four, on pages of one and two: a full last page and a partial one, a
playlist repeated, and one that overlaps a video. *Intake:* one page has a card
that may fail before one that does not; two requests are enough for one to come
while the other is open, and three ids for a row between two of one batch, with
ids handed out again. The cards are settled before the first request: what is
picked does not depend on the queue. *Downloader:* a call's files
are independent; two languages give an entry without a file before and after
one that has it, and two lines a caption that is a number before and after text.
`MaxId`, `MaxStamp`, `MaxStops`, `MaxSources`, `MaxEntries`, `MaxEdits`,
`MaxChanges`, `MaxCrashes`, `MaxCues` and `MaxCaption` are bounds of the model, not of the code.

Symmetry of the threads is used in `pool_safety` only, where nothing is
temporal but boxes. Deadlock is checked everywhere except in the downloader's
runs: one call of `run_download` does stop.

### Fairness and why the code justifies it

- `ProcessFair`: the deployment restarts the process (`restart` policy of the
  container) and its start-up code runs on. It is the only fairness `LiveSpec`
  assumes; what follows are premises of the formulas, so that each one says
  itself what it needs.
- `ReaperFair` (`NoClaimForEver`): time passes, and the stale-check loop runs
  every 60 seconds and survives its own exceptions.
- `WorkersFair` and `NobodyDies` (`CancelEndsClaim`, `EveryJobEnds`): a thread
  that can take a step takes one, the loop is not blocked, yt-dlp either calls
  its hook again or ends, and no call outside the try block raises. A hang
  inside yt-dlp is excluded here, and only here.
- `DownloadsEnd` (`EveryJobEnds`): a download that is polled again and again
  ends some time (strong fairness, since the hook interrupts it again and again).
- `AskedAgain` (library): the user repeats a deletion that did not succeed, and
  the file system and the commit do not fail every time.
- `PollingSpec` (queue page): htmx polls every two seconds and its requests are
  answered; nothing is said of loading, leaving or anybody else.

### Findings

1. *The reaper does not tell long from lost* (`reap_healthy`). `claimed_at` is
   not refreshed by progress, so a download of more than ten minutes becomes
   `stale_worker`; its thread goes on, and its result is dropped.
2. *A concurrent deletion can hit another row* (`library_race`). Status check
   and `DELETE ... WHERE id` are apart, and SQLite reuses the id.
3. *A save and a reset mix* (`settings_race`). The save writes only the keys in
   which its form differs from the rows it had read; for the others the reset's
   values stay, and the user is told the settings were saved.
4. *The path of a merged download is that of a part* (`downloader_merge`). The
   captured path is that of the last `finished` hook call, and of two streams
   this is the one downloaded last, which the merge removes. With the merged
   file there from an earlier attempt no hook is called for it at all, and the
   finished row has no path, or that of a subtitle.

Met while modelling and left without a run:

- A worker that dies is not replaced: `_worker_loop` has no handler, and
  `claim_next`, `resolve_runtime_settings`, the `mkdir` of the downloads
  directory and `release_job` are outside every try block
  (`ThreadDies`; `DeathStrandsOneJob` bounds what it costs).
- A deletion moves an older completion back within the limit of 20 markers, and
  an open page announces it as new. `ToastsAreNews` therefore holds until
  something is deleted.
- The tab remembers ids, and SQLite hands the id of a deleted last row out
  again: the new download's toast is then swallowed.
- For the same reason a click on a page that is out of date (cancel on the queue
  page, delete in the library) can meet a new row under the old id.
- The default output template has only the title: a second video with the same
  title finds the first one's file and is "done" without a download.
- `subtitlesformat` is `srt/best`, which prefers SRT and converts nothing,
  although the docstring of `build_ytdlp_options` says the files are normalised.
  From VTT the transcript keeps the header and the timestamps (`CaptionsKept`
  says that it loses nothing).
- An `OSError` names the file, so a title with "private", "403" or "timed out"
  in it decides the error code (`CodeNamesCause` excepts such titles).
- A subtitle that is not UTF-8 fails a finished download: `UnicodeDecodeError` is
  no `OSError`, so it reaches the mapper as yt-dlp's errors do. It is an unknown
  error there, or, at position 403 of the file, an HTTP 403 (`CodeNamesCause`
  allows exactly these two).
- With a bitrate, a missing stream makes the selector fall back to audio alone
  (`DownloadedAsPicked` allows exactly that).
- `int(duration)` of one item of a batch form raises for the whole batch; yt-dlp
  reports fractions for some sites.
- An empty stored `proxy_url` resolves to the environment's, although the
  docstring of `resolve_runtime_settings` says it resolves to None.
- `YT_WORKERS` of the repository's README is read nowhere; the size of the pool
  is `max_concurrent`, taken when the process starts.

## 4. Proofs

Every theorem holds for any value of the constants: any set of threads, any ids,
stamps and bounds, any videos, playlists, formats, languages, forms and texts,
with or without faults, under the named assumptions below.

| Theorem | Statement |
|---|---|
| `PoolInvariant` | `Spec => []PoolInv` |
| `ClaimsAreExclusive` | `Spec => []ExclusiveClaim` |
| `PoolTypes` | `Spec => []TypeOK` |
| `TableIsConsistent` | `Spec => []RowsConsistent` |
| `EndedRowsAreFrozen` | `Spec => TerminalFrozen` |
| `ServerKeepsLifecycle` | `Spec => KeepsLifecycle` (refinement of `JobLifecycle`) |
| `DeathsStrandNoMore` | `Spec => []DeathStrandsOneJob` |
| `OneLateWrite` | `LateSpec => []AtMostOneLateWrite` |
| `RequestsAreRemembered` | `LateSpec => RequestSurvivesRestart` |
| `RequestsEndClaims` | `LiveSpec /\ []NothingStuck => CancelEndsClaim` (liveness) |
| `ClaimedJobsEnd` | `Working /\ DownloadsEnd =>` every active row leaves the active state (liveness) |
| `QueueMoves` | with a pool, `Working /\ DownloadsEnd =>` the first queued job is taken up, or the server stops serving (liveness) |
| `ClaimsGrowOldAndEnd` | `LiveSpec /\ []NothingStuck /\ ReaperFair =>` a claim of age n becomes one of age n + 1 or ends; one past the timeout ends (liveness) |
| `RepeatedDeletionsComplete` | with at least one request, `LibrarySpec /\ AllRepeat /\ []<>(server = "serving") => DeletionCompletes` (liveness) |
| `LibraryKeepsPool` | with one delete request at a time, `LibrarySpec => [](LibraryInv /\ LibraryTypeOK)`, `PoolInv` included |
| `DoneRowsAreDeleted` | with one delete request at a time, `LibrarySpec => OnlyDoneRowsDeleted` |
| `FilesFollowRows` | with one delete request at a time, `LibrarySpec => FilesGoWithTheirRows` |
| `FreedIdsAreFree` | with one delete request at a time, `LibrarySpec => ReusedIdsAreFree` |
| `PageTypes` | `PageSpec => []PageTypeOK` |
| `AnnouncedAtMostOnce` | `PageSpec => []AnnouncedOnce` |
| `LastDownloadIsSeen` | `PageSpec /\ PollsGoOn => LastIsSeen` (liveness) |
| `OnlyDoneIsRemembered` | `PageSpec => []RememberedIsDone` |
| `OldNewsIsNotShown` | `PageSpec => ToastsAreNews` |
| `CallTypes` | `Spec => []DownloaderTypeOK` |
| `SuccessIsComplete` | `Spec => []SinglePathIsOutput` |
| `NoSubtitleIsPassedOver` | `Spec => []TranscriptsComplete` |
| `ErrorsAreNamed` | `Spec => []CodeNamesCause` |
| `TranscriptsSayWhatWasSaid` | `Spec => []CaptionsKept` |
| `CallImplementsContract` | `Spec => KeepsCall` (refinement of `DownloadCall`) |
| `IntakeTypes` | `IntakeSpec => []IntakeTypeOK` |
| `BatchesAreTogether` | `IntakeSpec => []BatchesStayTogether` |
| `RepliesTellTheTruth` | `IntakeSpec => []RepliesAreTrue` |
| `DownloadsAreAsPicked` | `IntakeSpec => []DownloadedAsPicked` |
| `ContainersAreAnnounced` | `IntakeSpec => []ContainerIsAnnounced` |
| `PreviewTypes` | `PreviewSpec => []PreviewTypeOK` |
| `WalksAreComplete` | `PreviewSpec => []WalkShowsAll` |
| `NoClickIsLost` | `PreviewSpec => []NoDeadEnd` |
| `VideosAreOfferedOnce` | `PreviewSpec => []OfferedOnce` |
| `SettingsAreValid` | `SettingsSpec => []SettingsTypeOK` |
| `SavesDoNotMix` | without resets, `SettingsSpec => SavesAreAtomic` |
| `RuntimeIsBounded` | the resolved pool size is 1 to 5, the page size 1 to 50, whatever the table holds |

### Assumptions

Each is an `ASSUME` with a name in the module that declares the constant, and
TLC evaluates it in every run of that module.

- Bounds of the model are natural numbers; reported percentages are integers.
- The pool has finitely many threads (`WorkersAssumption`; the code clamps the
  number to 5), a call finitely many languages. Both are there for
  cardinalities.
- Values that stand for "none" (`NoPath`, `None`, `NoUrl`, `NotIndex`, `NoRow`,
  `Unset`) are not among the real ones; leftovers are files of the title; a
  listing names videos; a script's form has what its client asks for.
- No format has the extension "unknown", and an id names one format of an offer.
- The settings catalog is a list of the known keys, and its defaults are valid.
- `OneAtATime` is no assumption of a module but a hypothesis of the library's
  theorems: the set of requests has at most one member. It cannot be dropped:
  `library_race` violates `OnlyDoneRowsDeleted` with two. Liveness does not need
  it: `RepeatedDeletionsComplete` is about any number of requests.
- `WorkersEnabled` and `Requests # {}` are hypotheses too: without a pool no job
  is taken up, and without requests nothing is deleted.
- `NothingStuck` is a hypothesis of the pool's liveness theorems, see below, and
  an invariant of the run that checks the same liveness properties.
- `AllRepeat` and `PollsGoOn` are the fairness of the library's and the page's
  liveness theorems, see below.

### The arguments

*The pool.* `ExclusiveClaim` is not inductive: nothing in it says that the
job a thread claims was not held already. `HeldRows` closes the gap: the row of
a held job is active, or ended in error because it was reaped, and so never
queued, and only queued rows are claimed. That in turn needs that the start-up
requeue happens when no thread runs (`ThreadsOfProcess`), that releases hit
only the releasing thread's row (`ExclusiveClaim` itself), and that a phase
tells whether a job is held (`JobsHeld`). `CancelSeen` and
`PathsFinished` carry what a thread learned about its row to the release, for
the refinement ("cancelled only if asked") and for `RowsConsistent` ("a file
means done"). `StampsFollowIds` makes claiming by `(created_at, id)` the same as
claiming by id.

`DownloadTableProofs` shows of every table operation that it keeps the table's
part of the invariant (`TableInv`), the ended rows (`EndedRowsKept`) and what a
thread relies on for its row (`HeldRowsKept`). `WorkerPoolProofs` has four
lemmas for the shapes of a step (threads untouched, no thread runs, a thread
moves and keeps its job, a thread gives up) and applies them action by action.
The refinement maps each table operation to one abstract action.

*Deaths.* `DeathStrandsOneJob` is a count: the rows that are active and in
nobody's hands are at most the threads that are dead. A step leaves both sets
alone, shrinks the first, or adds one row to it and, in the same step, one thread
to the second. `StrandInv` adds what the count starts from: between recovery and
the start of the pool no row is active (`RecoveredIsIdle`).

*Late writes.* Only a thread that has polled before the request can write late.
`PollersAreFirst` says that none whose job has late progress is still in that
phase; it is inductive with exclusive claims, since otherwise a second thread
could be. That a request survives a restart (`RequestsAreRemembered`) is
`DoomedInv`: a job that was put back with its request keeps it
(`DoomedAreRequested`), and so no thread gets past a poll for it
(`NobodyPolledTheDoomed`). The one that might have polled before is excluded by
`HeldRows` after the step: its row is active or ended, and not back in the queue.

*Liveness.* The prover takes `ENABLED A` as an atom it knows nothing about, and
so cannot tell that an action can be taken. For the pool, what the arguments need
to know of it is stated as an invariant: `NothingStuck` names the actions of a
thread, the reaper and the clock and the states in which they can be taken. TLC
checks it; the theorems take it as a hypothesis. For a delete request and the tab
the fairness is stated with the guards written out for `ENABLED` (`AllRepeat` for
`AskedAgain`, `PollsGoOn` for the fairness of `PollingSpec`), and the theorems
have no further hypothesis about it. All else is proved, by the temporal rules for
weak and strong fairness: what a thread, a request or the tab is waiting for,
which steps disturb it (none but those that end the wait), and that the fair
step ends it.

A claim is followed from phase to phase for one thread (`HeldRequestEnds`,
`HeldJobEnds`): at a hook call that finds the flag a cancelled one goes over to
the release, and where downloads end, strong fairness gets one out of the round
of hook calls. No thread can let go of the row otherwise, and if the process
goes away, recovery queues the row again (`DownEnds`). In these theorems `Working`
stands for `LiveSpec` with fair threads none of which dies, and `[]NothingStuck`. An active row is in some
thread's hands when nobody has died: that is `StrandInv` once more. A queued job
which is first stays first until it is claimed or cancelled (`OnlyOneIsFirst`),
and some thread comes back to the loop. For the reaper, only a tick changes an
age (`OnlyTicksAge`), and only to the next one (`AgeStep`). A deletion needs the
shape of a request and nothing of the rest of the invariant: a request that has
begun ends (`BusyEnds`), so one is free again and again, and strong fairness
takes the row's own request through. On the page, replies made before the
download finished may still be under way, one to a poll and one to a reload.
`WaitingStep` shows that each gets in the way at most once: what is asked for
since then knows the download (`PollKnows`, `PageKnows`), and a poll's reply that
knows it is either swapped in or thrown away by a page that knew less, which is
the last such page.

*The library.* `LibraryInv` carries `PoolInv` through the deletions and adds what
a delete request relies on between its transactions: the row it loaded is there,
done, and names the same file (`LoadedIsDone`). One request at a time makes it
inductive: the row has ended, the pool does not write it again, and nobody else
deletes it.

*The queue page.* `PageInv` relates the places an id can be in: a reply in
flight, the memory of the tab, its storage. What was announced is stored
(`TabOK`); every marker under way or remembered is of a done row or a freed id
(`MarkersAreDone`); and a row that was done when the page was rendered is
remembered, or behind as many later ones as the limit lets through (`OldIsKnown`),
where only a deletion could bring it out.

*A call.* `DownloaderInv` has the two facts that turn "the last finished call of
the hook" into "the media file": it comes last in `todo` (`MediaComesLast`), and
of every subtitle with a file either the transcript is written or its turn is
still to come (`NothingPassedOver`). `LateIsLast` is what a request comes down
to: once progress was taken with the flag up, that hook call is over, and the
next one's poll ends the call. The error rules are settled case by case.

*A transcript.* That a transcript is what the loop makes of its file is
inductive by itself (`WrittenAsRead`); what that is, is a fact about `Kept` and
the files. `KeptReads` shows that the loop, which looks up to two lines ahead, is
a function of lines, and gives its equation at every line. `CuesArePlaced` says at
which lines of a file each cue begins and ends. Between them is the point at
which numbers could go wrong: within a caption no line is a timestamp and after it
comes a blank one, so no number in it is taken for the head of a cue, whether it
is the last line or not (`CaptionRead`). Then, by induction over the cues, what is
kept is what the cues so far say and what is kept from the next one on
(`SrtRead`); for VTT it has what they say in order (`VttRead`, `EmbedsGrow`).

*The intake.* That rows of a request are neighbours is not inductive either.
`IntakeInv` adds that a request which may still insert is the last that came
(`OnlyLastIsOpen`, from the guard `LoopFree`), and that rows are due to
requests that came, in their order (`RowsFollowRequests`): a new row has the
largest id and belongs to the last request. What an enqueue, a claim, a
release, a requeue and a deletion do to the rows there are is five lemmas about
`DownloadTable`; every other step follows from two lemmas about steps that add
no row. `PromiseInv` is about what rows and replies say: what a request has
inserted and what it has still to insert are, in this order, what was asked
(`RequestOK`); a row keeps what was asked for it (`ColumnsOK`); the worker's row
stays active, and so is not given out again, until its call is over (`WorkerOK`);
nothing is picked on a card that it does not offer (`PageOK`).

*The batch preview.* What a list stands for is computed by two loops. They are
recursive functions here; `RecursionExists` (`RecursionLemmas`) shows, of a base
and a step in one set, that the function there should be is there, and `Induction`
is the argument of the least counterexample, on sets. Of the deduplicating loop it gives
(`LoopKeeps`) that what is kept after n entries are those of the first places, in
their order; `KeptCount` counts them with an order-preserving bijection. `Paging`
is the arithmetic: page p begins where page p - 1 ends, and only the last one
reaches the total. The inductive invariant `PreviewInv` then says that the walk so
far is the beginning of the entries, up to the end of the page in view.

*The settings.* Values are valid because a request in flight wants only what
was validated or the defaults, and a commit writes only what is wanted. That
saves do not mix follows from two facts: at most one request is between its
reads and its commit (`OneSaveLoads`, from the guard of `Save`), and therefore
what it has read is still what is stored (`ReadIsCurrent`); writing the
differences is then writing everything. With resets the first fact fails, which
is what `settings_race` shows.

### Only model-checked

- `NoClaimForEver` and `EveryJobEnds` as a whole. Their steps are proved
  (`ClaimsGrowOldAndEnd`; `ClaimedJobsEnd`, `QueueMoves`); what is missing is to put
  as many of them together as the timeout has ticks, or as there are jobs before
  one and restarts to come. That is an induction over temporal formulas, which
  the prover does not have.
- `NothingStuck`, which is about ENABLED; and, for the same reason, that
  `RetrySpec` and `PollingSpec` have the fairness that `AllRepeat` and
  `PollsGoOn` state with guards.
- That the server serves again and again under `RetrySpec`, the premise of
  `RepeatedDeletionsComplete`: it follows from the bound on stops, by a count.
  `DeletionCompletes` itself is checked without this premise.
- The four runs that expect a violation, of course.

## 5. Plan

Done: the pool with its table; deletion from the library; settings; the queue
page; the batch preview; the intake with the picker and the selector; one
download with transcripts, leftovers and error codes; proofs of all of them.

Not modelled: `app/db.py` and the migrations (configuration and schema; what
SQLite does is in the facts above), `diagnostics.py` (reads versions and
settings, changes nothing), the listings, the search and the file route of the
library (read-only), static assets.

Left:

1. Whose the files are that a download finds: leftovers of another video with
   the same title, in `Downloader` and `Library`.
2. What the running pool takes up of changed settings, composing `Settings`
   with `WorkerPool`.
