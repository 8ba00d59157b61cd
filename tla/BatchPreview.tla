---------------------------- MODULE BatchPreview ----------------------------
(***************************************************************************)
(* From a list of sources to pages of cards: the paginated batch preview   *)
(* (app/services/batch_preview.py, preview.py).  What becomes of the cards *)
(* is in Intake.                                                           *)
(*                                                                         *)
(* The server keeps nothing between requests: every page is computed from  *)
(* the posted sources, with the playlists as they are and the page size as *)
(* it is set at that moment.                                               *)
(***************************************************************************)
EXTENDS Integers, Sequences, FiniteSets, SequencesExt

CONSTANTS
  Videos,       \* URLs of single videos
  Playlists,    \* URLs that expand to entries
  Unusable,     \* an entry from which no URL can be made
  Unreadable,   \* "entries" that are no list
  Raises,       \* the look-up of the playlist raises
  NotUrl,       \* a part of the posted text that is no http URL
  PageSizes,    \* values of the setting playlist_page_size
  MaxSources, MaxEntries, MaxEdits    \* bounds: lists, changes per behaviour

ASSUME PageSizesAssumption == PageSizes \subseteq Nat
ASSUME BoundsAssumption ==
  MaxSources \in Nat /\ MaxEntries \in Nat /\ MaxEdits \in Nat

VARIABLES
  content,    \* what each playlist expands to at the moment
  pageSize,   \* the setting at the moment
  sources,    \* the list the browser posts with every page request
  view,       \* the reply shown in the browser
  edits,      \* bound: changes of playlists and setting so far
  walk,       \* history: entries shown since page 1, by Next alone
  steady      \* history: was nothing changed during the walk?

previewVars == <<content, pageSize, sources, view, edits, walk, steady>>

Urls == Videos \cup Playlists

Contents == BoundedSeq(Urls \cup {Unusable}, MaxEntries) \cup {Unreadable, Raises}

-----------------------------------------------------------------------------
(***************************************************************************)
(* resolve_batch_preview: which entries there are, and which of them are   *)
(* on a page.                                                              *)
(***************************************************************************)

ExpandKeepsUnusable(u) ==   \* mutant: an entry without URL goes through
  CASE u \in Videos \/ content[u] = Raises -> <<[url |-> u, ok |-> TRUE]>>
    [] u \notin Videos /\ content[u] = Unreadable -> <<[url |-> u, ok |-> FALSE]>>
    [] OTHER -> [i \in DOMAIN content[u] |-> [url |-> content[u][i], ok |-> TRUE]]

\* expand_playlist_entries; if it raises, the source stands for itself.
Expand(u) ==
  CASE u \in Videos \/ content[u] = Raises -> <<[url |-> u, ok |-> TRUE]>>
    [] u \notin Videos /\ content[u] = Unreadable -> <<[url |-> u, ok |-> FALSE]>>
    [] OTHER -> [i \in DOMAIN content[u] |->
                   IF content[u][i] = Unusable
                   THEN [url |-> u, ok |-> FALSE]
                   ELSE [url |-> content[u][i], ok |-> TRUE]]

\* Of every source in turn; parse_source_urls skips what is no URL.
AllEntries(raw) ==
  FlattenSeq([i \in DOMAIN raw |-> IF raw[i] = NotUrl THEN <<>> ELSE Expand(raw[i])])

Seen(entries) == {e.url : e \in {x \in ToSet(entries) : x.ok}}

AddAlways(entries, e) == Append(entries, e)     \* mutant: no deduplication

\* Invalid entries are all kept, usable URLs once.
Add(entries, e) ==
  IF e.ok /\ e.url \in Seen(entries) THEN entries ELSE Append(entries, e)

Deduplicated(all) ==
  LET upto[n \in 0 .. Len(all)] ==
        IF n = 0 THEN <<>> ELSE Add(upto[n - 1], all[n])
  IN upto[Len(all)]

Expanded(raw) == Deduplicated(AllEntries(raw))

AtLeastOne(n) == IF n < 1 THEN 1 ELSE n

PageCountFloor(total, size) == AtLeastOne(total \div size)   \* mutant

PageCount(total, size) == AtLeastOne((total + size - 1) \div size)

OnlyAtLeastOne(page, pages) == AtLeastOne(page)   \* mutant: no upper clamp

ClampPage(page, pages) ==
  IF AtLeastOne(page) > pages THEN pages ELSE AtLeastOne(page)

(***************************************************************************)
(* One reply.  `found' are the entries whose look-up succeeds; one that    *)
(* turns out to be a playlist is an error as well.                         *)
(***************************************************************************)
Page(raw, page, found) ==
  LET entries == Expanded(raw)
      size == AtLeastOne(pageSize)
      pages == PageCount(Len(entries), size)
      p == ClampPage(page, pages)
      shown == SubSeq(entries, (p - 1) * size + 1,
                      IF p * size < Len(entries) THEN p * size ELSE Len(entries))
  IN [items |-> [i \in DOMAIN shown |->
                   [url |-> shown[i].url,
                    ready |-> shown[i].ok /\ shown[i].url \in found \ Playlists]],
      page |-> p, pages |-> pages, total |-> Len(entries)]

Blank == [items |-> <<>>, page |-> 1, pages |-> 1, total |-> 0]

HasPrevious == view.page > 1
HasNext == view.page < view.pages

-----------------------------------------------------------------------------
\* The cards that can be checked and enqueued.
Ready == {i \in DOMAIN view.items : view.items[i].ready}

-----------------------------------------------------------------------------
PreviewTypeOK ==
  /\ content \in [Playlists -> Contents] /\ pageSize \in PageSizes
  /\ view.pages \in Nat \ {0} /\ view.total \in Nat
  /\ \A i \in DOMAIN view.items : view.items[i].url \in Urls
  /\ edits \in 0 .. MaxEdits /\ steady \in BOOLEAN

PreviewInit ==
  /\ content \in [Playlists -> Contents] /\ pageSize \in PageSizes
  /\ sources = <<>> /\ view = Blank /\ edits = 0
  /\ walk = <<>> /\ steady = FALSE

\* POST /info/batch/form from the home page: page 1 of a new list.
Submit(raw) ==
  /\ sources' = raw
  /\ \E found \in SUBSET Urls : view' = Page(raw, 1, found)
  /\ walk' = view'.items /\ steady' = TRUE
  /\ UNCHANGED <<content, pageSize, edits>>

\* The same form with the list it was made for and another page.
Next ==
  /\ HasNext
  /\ \E found \in SUBSET Urls : view' = Page(sources, view.page + 1, found)
  /\ walk' = IF steady THEN walk \o view'.items ELSE <<>>
  /\ UNCHANGED <<content, pageSize, sources, edits, steady>>

Previous ==
  /\ HasPrevious
  /\ \E found \in SUBSET Urls : view' = Page(sources, view.page - 1, found)
  /\ walk' = <<>> /\ steady' = FALSE
  /\ UNCHANGED <<content, pageSize, sources, edits>>

PlaylistChanges(u, c) ==
  /\ edits < MaxEdits /\ edits' = edits + 1
  /\ content[u] # c /\ content' = [content EXCEPT ![u] = c]
  /\ walk' = <<>> /\ steady' = FALSE
  /\ UNCHANGED <<pageSize, sources, view>>

PageSizeChanges(n) ==
  /\ edits < MaxEdits /\ edits' = edits + 1
  /\ pageSize # n /\ pageSize' = n
  /\ walk' = <<>> /\ steady' = FALSE
  /\ UNCHANGED <<content, sources, view>>

PreviewNext ==
  \/ \E raw \in BoundedSeq(Urls \cup {NotUrl}, MaxSources) : Submit(raw)
  \/ Next \/ Previous
  \/ \E u \in Playlists, c \in Contents : PlaylistChanges(u, c)
  \/ \E n \in PageSizes : PageSizeChanges(n)

PreviewSpec == PreviewInit /\ [][PreviewNext]_previewVars

-----------------------------------------------------------------------------
(***************************************************************************)
(* What a list of sources stands for, without pages and without a loop:    *)
(* every entry of every source in order, a usable one where its URL comes  *)
(* first.                                                                  *)
(***************************************************************************)
IsFirst(all, i) ==
  all[i].ok => \A k \in 1 .. (i - 1) : ~(all[k].ok /\ all[k].url = all[i].url)

FirstPlaces(all) == {i \in DOMAIN all : IsFirst(all, i)}

Rank(S, i) == Cardinality({k \in S : k <= i})

(***************************************************************************)
(* Clicking Next from page 1 to the last page shows every entry exactly    *)
(* once and in order, whatever the sources repeat, however playlists       *)
(* overlap and wherever pages end, if nothing changed on the way           *)
(* ("Paginated YouTube playlist preview", README.md).                      *)
(***************************************************************************)
WalkShowsAll ==
  steady /\ ~HasNext =>
    LET all == AllEntries(sources) IN
    /\ Len(walk) = Cardinality(FirstPlaces(all))
    /\ \A i \in FirstPlaces(all) : walk[Rank(FirstPlaces(all), i)].url = all[i].url

(***************************************************************************)
(* Also when playlists or the page size change between two clicks, a click *)
(* on Next or Previous shows a page that exists then, and an empty one     *)
(* only when there is nothing to show.                                     *)
(***************************************************************************)
NoDeadEnd ==
  view.page \in 1 .. view.pages /\ (view.total > 0 => view.items # <<>>)

\* A video is offered once on a page, so that it cannot be enqueued twice by
\* one click (dedupe across sources and playlists).
OfferedOnce ==
  \A i, k \in Ready : view.items[i].url = view.items[k].url => i = k

-----------------------------------------------------------------------------
(***************************************************************************)
(* The inductive invariant behind them: what was shown on the way is the   *)
(* beginning of the entries, up to the end of the page in view.            *)
(***************************************************************************)
Item == [url : Urls, ready : BOOLEAN]

WalkOK ==
  LET entries == Expanded(sources)
      reached == view.page * AtLeastOne(pageSize)
  IN /\ view.total = Len(entries)
     /\ view.pages = PageCount(Len(entries), AtLeastOne(pageSize))
     /\ Len(walk) = IF reached < Len(entries) THEN reached ELSE Len(entries)
     /\ \A n \in DOMAIN walk : walk[n].url = entries[n].url

PreviewInv ==
  /\ PreviewTypeOK /\ NoDeadEnd /\ OfferedOnce
  /\ sources \in Seq(Urls \cup {NotUrl})
  /\ view.items \in Seq(Item) /\ walk \in Seq(Item)
  /\ steady => WalkOK
=============================================================================
