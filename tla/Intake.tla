-------------------------------- MODULE Intake --------------------------------
(***************************************************************************)
(* From a preview to a download: the cards of one browser tab, the forms   *)
(* it and other clients post, the handlers that turn a form into rows      *)
(* (app/services/enqueue_intake.py, stream_selection.py,                   *)
(* app/routes/pages.py), and a worker that runs a row with the streams it  *)
(* names (app/services/job_runner.py).  EXTENDS the table's transactions.  *)
(*                                                                         *)
(* The two handlers are `async' and await nothing after the form: from     *)
(* building the payloads to the reply they hold the event loop, and no     *)
(* other enqueue comes in between.  Threads do: each insert is a commit of *)
(* its own, and the first row of a batch may be claimed before the second  *)
(* is there.  Meanwhile the site goes on changing the formats it offers.   *)
(***************************************************************************)
EXTENDS DownloadTable, StreamPicker, SequencesExt

CONSTANTS
  Videos,       \* URLs
  NoUrl,        \* an empty url field
  Listings,     \* lists of URLs a page of cards may be made for
  Offers,       \* for each video, sets of formats a site may offer
  Scripts,      \* forms posted by clients that are not the page
  NotIndex,     \* a selected_index that is no number
  MaxChanges, MaxCrashes   \* bounds of one behaviour

ASSUME BoundsAssumption == MaxChanges \in Nat /\ MaxCrashes \in Nat
ASSUME ListingsAssumption == Listings \subseteq Seq(Videos)
ASSUME UrlAssumption == NoUrl \notin Videos
ASSUME IndexAssumption == NotIndex \notin Nat

\* External: yt-dlp gives every format an extension, and no two the same id.
ASSUME OffersAssumption ==
  \A u \in Videos : \A formats \in Offers[u] : \A f, g \in formats :
    f.ext # "unknown" /\ (f.id = g.id /\ f.id # NoId => f = g)

VARIABLES
  offered,    \* the formats the site offers for each video now
  page,       \* the cards in the tab, ready ones with what is picked
  requests,   \* enqueue requests in the order they came (see Handle)
  columns,    \* the url and the selection of each row
  worker,     \* the worker thread: its job, and the call it makes for it
  origin,     \* history: for each row, its request and what was asked for
  took,       \* history: what the last download got, until the next claim
  changes, crashes   \* counters of MaxChanges and MaxCrashes

clientVars == <<offered, page, changes>>
serverVars == <<downloads, columns, worker, origin, took, crashes>>
intakeVars == <<clientVars, requests, serverVars>>

NoSelection == [video |-> NoId, audio |-> NoId, bitrate |-> FALSE]

Payload(url, duration, selection) ==
  [url |-> url, duration |-> duration, selection |-> selection]

NoPayload == Payload(NoUrl, "none", NoSelection)
NoOrigin == [request |-> 0, asked |-> NoPayload]

-----------------------------------------------------------------------------
(***************************************************************************)
(* Forms and payloads.  A batch form has fields of three kinds: fields     *)
(* with the index of a card, one text of sources, and repeated fields that *)
(* belong together by position.                                            *)
(***************************************************************************)
EmptyForm == [selected |-> <<>>, cards |-> <<>>, sources |-> <<>>,
              urls |-> <<>>, durations |-> <<>>, videoIds |-> <<>>, audioIds |-> <<>>]

\* A set of numbers in their order, and a sequence without what is elsewhere.
Rank(S, i) == Cardinality({k \in S : k <= i})

InOrder(S) ==
  [n \in 1 .. Cardinality(S) |-> CHOOSE i \in S : Rank(S, i) = n]

Only(s, places) == [n \in 1 .. Cardinality(places) |-> s[InOrder(places)[n]]]

WithoutDuplicates(s) ==
  Only(s, {i \in DOMAIN s : \A k \in 1 .. (i - 1) : s[k] # s[i]})

WithUrl(payloads) == Only(payloads, {n \in DOMAIN payloads : payloads[n].url # NoUrl})

\* _selected_indices, and the cards that have a URL under such an index.
IndexedPayloads(form) ==
  LET once == WithoutDuplicates(form.selected)
      indices == Only(once, {n \in DOMAIN once :
                               once[n] # NotIndex /\ once[n] \in DOMAIN form.cards})
  IN WithUrl([n \in DOMAIN indices |-> form.cards[indices[n]]])

SourcePayloads(form) ==
  LET given == Only(form.sources, {n \in DOMAIN form.sources : form.sources[n] # NoUrl})
      urls == WithoutDuplicates(given)
  IN [n \in DOMAIN urls |-> Payload(urls[n], "none", NoSelection)]

\* zip_longest(..., fillvalue="")
At(s, n, fill) == IF n \in DOMAIN s THEN s[n] ELSE fill

PositionalPayloads(form) ==
  LET rows == [n \in DOMAIN form.urls |->
                 Payload(form.urls[n], At(form.durations, n, "none"),
                         [video |-> At(form.videoIds, n, NoId),
                          audio |-> At(form.audioIds, n, NoId), bitrate |-> FALSE])]
  IN WithUrl(rows)

BatchPayloads(form) ==
  CASE form.selected # <<>> -> IndexedPayloads(form)
    [] form.selected = <<>> /\ SourcePayloads(form) # <<>> -> SourcePayloads(form)
    [] OTHER -> PositionalPayloads(form)

BuildsWithUrl(payloads) ==    \* mutant: the duration is stored as it is
  \A n \in DOMAIN payloads : payloads[n].url # NoUrl

\* int(duration) of a fraction raises; so does a single form without URL.
Builds(payloads) ==
  \A n \in DOMAIN payloads :
    payloads[n].duration # "fraction" /\ payloads[n].url # NoUrl

\* What a client that is not the page asks for is what its form says, in the
\* way of BatchPayloads; it picks no stream as the video and as the audio.
CanAsk(p) ==
  /\ p.url \in Videos /\ p.duration \in {"none", "whole", "fraction"}
  /\ p.selection.bitrate /\ p.selection.video # NoId
       => p.selection.video # p.selection.audio

Asks(s) == s \in Seq({p \in ToSet(s) : CanAsk(p)})

ASSUME ScriptsAssumption ==
  \A script \in Scripts :
    Asks(script.asked) /\ BatchPayloads(script.form) = script.asked

-----------------------------------------------------------------------------
(* The tab: a preview, what is picked on its cards, and its forms. *)

Card(url, duration, formats) ==
  [url |-> url, duration |-> duration, formats |-> formats, selection |-> NoSelection]

\* A look-up that failed: a card without fields.
FailedCard(url) == Card(url, "none", {})

Ready == {i \in DOMAIN page : page[i].formats # {}}

\* Bounds: one request of each client, and a page that is settled before
\* the first of them (what is on it depends on no request).
Settled == requests # <<>>

HasPosted(by) == \E r \in DOMAIN requests : requests[r].by = by

Preview(urls, failed, fractions) ==
  /\ ~Settled
  /\ page' = [i \in DOMAIN urls |->
                IF i \in failed THEN FailedCard(urls[i])
                ELSE Card(urls[i], IF i \in fractions THEN "fraction" ELSE "whole",
                          offered[urls[i]])]
  /\ UNCHANGED <<offered, changes, requests, serverVars>>

Pick(i, selection) ==
  /\ ~Settled
  /\ page' = [page EXCEPT ![i].selection = selection]
  /\ UNCHANGED <<offered, changes, requests, serverVars>>

PickVideo(i) ==
  \E id \in IdsOfKind(page[i].formats, "video") :
    Pick(i, [page[i].selection EXCEPT !.video = Toggle(@, id)])

PickAudio(i) ==
  \E id \in IdsOfKind(page[i].formats, "audio") :
    Pick(i, [page[i].selection EXCEPT !.audio = Toggle(@, id)])

SetBitrate(i) == Pick(i, [page[i].selection EXCEPT !.bitrate = ~@])

Shown(i) == Payload(page[i].url, page[i].duration, page[i].selection)

FieldsByReadyCard(checked) ==     \* mutant: numbered among the ready cards
  LET ready == InOrder(Ready) IN
  [EmptyForm EXCEPT !.selected = InOrder(checked),
                    !.cards = [n \in DOMAIN ready |-> Shown(ready[n])]]

\* Fields are named by the card's place among all cards of the page.
Fields(checked) ==
  [EmptyForm EXCEPT !.selected = InOrder(checked),
                    !.cards = [i \in Ready |-> Shown(i)]]

-----------------------------------------------------------------------------
(***************************************************************************)
(* The handlers.  A request is what its client meant (asked), the payloads *)
(* still to insert, the rows inserted, and its reply once there is one.    *)
(***************************************************************************)
Open(r) == requests[r].reply = "none"

LoopAlwaysFree == TRUE     \* mutant: plain `def' handlers, in threads

LoopFree == \A r \in DOMAIN requests : ~Open(r)

\* All payloads are built before the first is inserted.
Handle(by, payloads, asked) ==
  /\ LoopFree /\ ~HasPosted(by)
  /\ requests' = Append(requests,
                        [by |-> by, asked |-> asked, rows |-> <<>>,
                         todo  |-> IF Builds(payloads) THEN payloads ELSE <<>>,
                         reply |-> IF Builds(payloads) THEN "none" ELSE "error"])
  /\ UNCHANGED <<offered, changes, serverVars>>

\* Bound: the tab is closed with its request.
Post(payloads, asked) ==
  Handle("tab", payloads, asked) /\ page' = <<>>

\* "Add to queue" on one card.
EnqueueOne(i) == Post(<<Shown(i)>>, <<Shown(i)>>)

EnqueueSelected(checked) ==
  Post(BatchPayloads(Fields(checked)),
       [n \in 1 .. Cardinality(checked) |-> Shown(InOrder(checked)[n])])

PostScript(script) ==
  /\ Handle("script", BatchPayloads(script.form), script.asked)
  /\ UNCHANGED page

\* enqueue_download for the next payload: a commit of its own.
Insert(r, j) ==
  LET q == requests[r] IN
  /\ Open(r) /\ q.todo # <<>>
  /\ EnqueueDownload(j, 0)
  /\ columns' = [columns EXCEPT ![j] = Head(q.todo)]
  /\ origin' = [origin EXCEPT ![j] =
                  [request |-> r, asked |-> At(q.asked, Len(q.rows) + 1, NoPayload)]]
  /\ requests' = [requests EXCEPT ![r].todo = Tail(@),
                                  ![r].rows = Append(@, Head(q.todo))]
  /\ UNCHANGED <<clientVars, worker, took, crashes>>

\* A commit raises, or the refresh after it: the client gets an error, the
\* rows committed so far stay.
InsertFails(r) ==
  /\ Open(r) /\ requests[r].todo \o requests[r].rows # <<>>
  /\ requests' = [requests EXCEPT ![r].todo = <<>>, ![r].reply = "error"]
  /\ UNCHANGED <<clientVars, serverVars>>

Answer(r) ==
  /\ Open(r) /\ requests[r].todo = <<>>
  /\ requests' = [requests EXCEPT ![r].reply = "added"]
  /\ UNCHANGED <<clientVars, serverVars>>

-----------------------------------------------------------------------------
(***************************************************************************)
(* The worker, as far as it reads columns; the rest is in WorkerPool.      *)
(***************************************************************************)
Resting == [at |-> "resting", id |-> 0, call |-> NoPayload]

NothingTaken == [id |-> 0, url |-> NoUrl, streams |-> {}]

Claim(j) ==
  /\ worker = Resting
  /\ ClaimNext(j)
  /\ worker' = [Resting EXCEPT !.at = "claimed", !.id = j]
  /\ took' = NothingTaken
  /\ UNCHANGED <<clientVars, requests, columns, origin, crashes>>

ClaimNothing == worker = Resting /\ NothingToClaim /\ UNCHANGED intakeVars

ReadJob ==
  /\ worker.at = "claimed"
  /\ worker' = [worker EXCEPT !.at = "called", !.call = columns[worker.id]]
  /\ UNCHANGED <<clientVars, requests, downloads, columns, origin, took, crashes>>

Download(outcome, streams) ==
  /\ worker.at = "called"
  /\ ReleaseJob(worker.id, outcome, NoPath)
  /\ took' = [id |-> worker.id, url |-> worker.call.url, streams |-> streams]
  /\ worker' = Resting
  /\ UNCHANGED <<clientVars, requests, columns, origin, crashes>>

DownloadFinishes ==
  /\ worker.at = "called"
  /\ \E streams \in Selections(worker.call.selection, offered[worker.call.url]) :
       Download("done", streams)

DownloadFails == Download("error", {})

-----------------------------------------------------------------------------
(* The site, the library, and a process that is killed and starts again. *)

OfferChanges(u, formats) ==
  /\ changes < MaxChanges /\ changes' = changes + 1
  /\ offered[u] # formats
  /\ offered' = [offered EXCEPT ![u] = formats]
  /\ UNCHANGED <<page, requests, serverVars>>

Deleted(j) ==
  /\ downloads[j].status = "done"
  /\ downloads' = [downloads EXCEPT ![j] = Absent]
  /\ columns' = [columns EXCEPT ![j] = NoPayload]
  /\ origin' = [origin EXCEPT ![j] = NoOrigin]
  /\ took' = NothingTaken
  /\ UNCHANGED <<clientVars, requests, worker, crashes>>

Restart ==
  /\ crashes < MaxCrashes /\ crashes' = crashes + 1
  /\ RequeueActiveOnStartup
  /\ worker' = Resting
  /\ requests' = [r \in DOMAIN requests |->
                    IF Open(r) THEN [requests[r] EXCEPT !.todo = <<>>, !.reply = "lost"]
                    ELSE requests[r]]
  /\ UNCHANGED <<clientVars, columns, origin, took>>

IntakeInit ==
  /\ TableInit
  /\ offered \in [Videos -> UNION Range(Offers)]
  /\ \A u \in Videos : offered[u] \in Offers[u]
  /\ page = <<>> /\ requests = <<>>
  /\ columns = [j \in Ids |-> NoPayload] /\ worker = Resting
  /\ origin = [j \in Ids |-> NoOrigin]
  /\ took = NothingTaken
  /\ changes = 0 /\ crashes = 0

Clients ==
  \/ \E urls \in Listings : \E failed, fractions \in SUBSET DOMAIN urls :
       Preview(urls, failed, fractions)
  \/ \E i \in Ready : PickVideo(i) \/ PickAudio(i) \/ SetBitrate(i) \/ EnqueueOne(i)
  \/ \E checked \in SUBSET Ready : EnqueueSelected(checked)
  \/ \E script \in Scripts : PostScript(script)

Handlers ==
  \E r \in DOMAIN requests : InsertFails(r) \/ Answer(r) \/ \E j \in Ids : Insert(r, j)

Worker ==
  \/ (\E j \in Ids : Claim(j)) \/ ClaimNothing
  \/ ReadJob \/ DownloadFinishes \/ DownloadFails

IntakeNext ==
  \/ Clients \/ Handlers \/ Worker \/ Restart
  \/ \E u \in Videos : \E formats \in Offers[u] : OfferChanges(u, formats)
  \/ \E j \in Ids : Deleted(j)

IntakeSpec == IntakeInit /\ [][IntakeNext]_intakeVars

-----------------------------------------------------------------------------
\* What is to be inserted has a URL and a duration the column takes.
IntakeTypeOK ==
  /\ TableOK
  /\ \A u \in Videos : offered[u] \in Offers[u]
  /\ \A i \in Ready : page[i].formats \in Offers[page[i].url]
  /\ \A r \in DOMAIN requests : \A p \in ToSet(requests[r].todo) :
       p.url \in Videos /\ p.duration \in {"none", "whole"}
  /\ worker.id \in Ids \cup {0}
  /\ took.id \in Ids \cup {0} /\ took.url \in Videos \cup {NoUrl}

Picked(p) == {p.selection.video, p.selection.audio} \ {NoId}

(***************************************************************************)
(* A download gets the streams that were picked for it, on the card of its *)
(* own video, or it fails: neither formats that went away since the        *)
(* preview, nor rows requeued by a restart, cards that failed in between   *)
(* or reused ids put others in their place.  The one exception: with a     *)
(* bitrate, two streams may become one of audio only (see Selector).      *)
(***************************************************************************)
DownloadedAsPicked ==
  took.streams # {} =>
    LET asked == origin[took.id].asked IN
    /\ took.url = asked.url
    /\ \/ Picked(asked) = {}
       \/ took.streams = Picked(asked)
       \/ asked.selection.bitrate /\ Cardinality(Picked(asked)) = 2
            /\ Cardinality(took.streams) = 1

(***************************************************************************)
(* The reply tells what happened: "Added" stands for all that was asked    *)
(* for, in its order; after an error or a crash a first part of it is in   *)
(* the queue, and nothing at all if the form itself was in error, however  *)
(* many of its items were good.                                            *)
(***************************************************************************)
RepliesAreTrue ==
  \A r \in DOMAIN requests :
    LET q == requests[r] IN
    /\ q.reply = "added" => q.rows = q.asked
    /\ IsPrefix(q.rows, q.asked)
    /\ ~Builds(q.asked) => q.rows = <<>>

(***************************************************************************)
(* Rows of one batch lie together in the queue: nobody else's row comes in *)
(* between, although each is a commit of its own and other clients post    *)
(* at the same time.                                                       *)
(***************************************************************************)
BatchesStayTogether ==
  \A j, k, l \in Ids :
    j < k /\ k < l /\ Exists(j) /\ Exists(k) /\ Exists(l)
      => (origin[j].request = origin[l].request
            => origin[k].request = origin[j].request)

(***************************************************************************)
(* Whatever is picked and taken back on a card, the container it announces *)
(* is one of the picked streams', or of their merge: "unknown" is left to  *)
(* the card on which nothing is picked.                                    *)
(***************************************************************************)
ContainerIsAnnounced ==
  \A i \in Ready :
    LET s == page[i].selection IN
    ExpectedContainer(page[i].formats, s.video, s.audio) = "unknown"
      <=> s.video = NoId /\ s.audio = NoId

-----------------------------------------------------------------------------
(***************************************************************************)
(* The inductive invariant behind them.  A card offers the formats its     *)
(* preview found and nothing else is picked on it; what a request has      *)
(* inserted and what it has still to insert are, in this order, what was   *)
(* asked; a row keeps what was asked for it; the worker's row is active,   *)
(* and so neither deleted nor given out again, until the call is over.     *)
(***************************************************************************)
CardOK(card) ==
  /\ DOMAIN card = {"url", "duration", "formats", "selection"}
  /\ DOMAIN card.selection = {"video", "audio", "bitrate"}
  /\ card.url \in Videos /\ card.formats \in Offers[card.url]
  /\ card.duration \in {"whole", "fraction"}
  /\ card.selection.video \in IdsOfKind(card.formats, "video") \cup {NoId}
  /\ card.selection.audio \in IdsOfKind(card.formats, "audio") \cup {NoId}

PageOK ==
  /\ DOMAIN page \subseteq Nat /\ IsFiniteSet(DOMAIN page)
  /\ \A i \in Ready : CardOK(page[i])

RequestOK(q) ==
  /\ DOMAIN q = {"by", "asked", "rows", "todo", "reply"}
  /\ Asks(q.asked) /\ Asks(q.rows) /\ Asks(q.todo)
  /\ q.reply # "none" => q.todo = <<>>
  /\ q.reply \in {"none", "added"} => q.rows \o q.todo = q.asked /\ Builds(q.asked)
  /\ q.rows = SubSeq(q.asked, 1, Len(q.rows)) /\ Len(q.rows) <= Len(q.asked)
  /\ ~Builds(q.asked) => q.rows = <<>>

RequestsOK == \A r \in DOMAIN requests : RequestOK(requests[r])

ColumnsOK ==
  /\ DOMAIN columns = Ids /\ DOMAIN origin = Ids
  /\ \A j \in Ids :
       columns[j] = origin[j].asked /\ (Exists(j) => CanAsk(columns[j]))

WorkerOK ==
  /\ DOMAIN worker = {"at", "id", "call"}
  /\ worker.id \in Ids \cup {0}
  /\ worker # Resting => worker.id \in Ids /\ downloads[worker.id].status = "active"
  /\ worker.at = "called" => worker # Resting /\ worker.call = columns[worker.id]

TookOK ==
  /\ took.id \in Ids \cup {0} /\ took.url \in Videos \cup {NoUrl}
  /\ took.streams # {} => took.id \in Ids /\ Exists(took.id)

OfferedOK == DOMAIN offered = Videos /\ \A u \in Videos : offered[u] \in Offers[u]

PromiseInv ==
  /\ OfferedOK /\ PageOK /\ RequestsOK
  /\ ColumnsOK /\ WorkerOK /\ TookOK
  /\ DownloadedAsPicked
=============================================================================
