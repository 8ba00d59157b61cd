--------------------------- MODULE QueuePageProofs ---------------------------
(***************************************************************************)
(* What a tab announces, proved for any number of downloads, any limit of  *)
(* markers and any clock.                                                  *)
(***************************************************************************)
EXTENDS QueuePage, DownloadTableProofs, FiniteSetTheorems

(***************************************************************************)
(* A reply has at most `Limit' markers.  The marker that finished first    *)
(* has all the others behind it, and fewer than `Limit' may be.            *)
(***************************************************************************)
LEMMA LeastNumber ==
  ASSUME NEW S \in SUBSET Nat, S # {}
  PROVE  \E n \in S : \A m \in S : n <= m
<1>1. \E x \in S : \A y \in S : <<y, x>> \notin OpToRel(<, Nat)
  BY NatLessThanWellFounded, WFMin
<1>2. PICK x \in S : \A y \in S : <<y, x>> \notin OpToRel(<, Nat)
  BY <1>1
<1>3. \A y \in S : ~(y < x)
  BY <1>2 DEF OpToRel
<1> QED BY <1>3

LEMMA DoneIsFinite ==
  ASSUME NEW S \in SUBSET Ids
  PROVE  IsFiniteSet(S) /\ Cardinality(S) \in Nat
<1>1. IsFiniteSet(Ids)
  BY FS_Interval, MaxIdAssumption DEF Ids
<1>2. IsFiniteSet(S)
  BY <1>1, FS_Subset
<1> QED BY <1>2, FS_CardinalityType

LEMMA FirstFinished ==
  ASSUME finished \in [Ids -> Stamps], NEW S \in SUBSET Ids, S # {}
  PROVE  \E m \in S : \A k \in S \ {m} : FinishedBefore(m, k)
<1> DEFINE T == {finished[j] : j \in S}
<1>1. T \in SUBSET Nat /\ T # {}
  BY MaxStampAssumption DEF Stamps
<1>2. PICK t \in T : \A u \in T : t <= u
  BY <1>1, LeastNumber
<1> DEFINE E == {j \in S : finished[j] = t}
<1>3. E \in SUBSET Nat /\ E # {}
  BY <1>2 DEF Ids
<1>4. PICK m \in E : \A j \in E : m <= j
  BY <1>3, LeastNumber
<1>5. ASSUME NEW k \in S \ {m} PROVE FinishedBefore(m, k)
  <2>1. finished[m] = t /\ t <= finished[k] /\ t \in Nat /\ finished[k] \in Nat
    BY <1>1, <1>2, <1>4
  <2>2. finished[k] = t => m < k
    BY <1>4 DEF Ids
  <2> QED BY <2>1, <2>2 DEF FinishedBefore
<1> QED BY <1>4, <1>5

LEMMA MarkersAreLimited ==
  ASSUME finished \in [Ids -> Stamps] PROVE Cardinality(Markers) <= Limit
<1>1. Markers \in SUBSET Ids /\ Done \in SUBSET Ids
  BY DEF Markers, Done
<1>2. CASE Markers = {}
  BY <1>2, FS_EmptySet, LimitAssumption
<1>3. CASE Markers # {}
  <2>1. PICK m \in Markers : \A k \in Markers \ {m} : FinishedBefore(m, k)
    BY <1>1, <1>3, FirstFinished
  <2> DEFINE B == {k \in Done : FinishedBefore(m, k)}
  <2>2. Markers \ {m} \in SUBSET B /\ B \in SUBSET Ids
    BY <1>1, <2>1 DEF Markers
  <2>3. Cardinality(B) < Limit
    BY <2>1 DEF Markers
  <2>4. Cardinality(Markers \ {m}) <= Cardinality(B)
    BY <2>2, DoneIsFinite, FS_Subset
  <2>5. Cardinality(Markers \ {m}) = Cardinality(Markers) - 1
    BY <1>1, <2>1, DoneIsFinite, FS_RemoveElement
  <2>6. Cardinality(Markers) \in Nat /\ Cardinality(B) \in Nat
    BY <1>1, <2>2, DoneIsFinite
  <2> HIDE DEF B
  <2> QED BY <2>3, <2>4, <2>5, <2>6, LimitAssumption
<1> QED BY <1>2, <1>3

LEMMA ReplyType ==
  ASSUME finished \in [Ids -> Stamps] PROVE Reply \in Replies
BY MarkersAreLimited DEF Reply, Replies, Markers, Done

LEMMA NothingType == Nothing \in Replies
BY FS_EmptySet, LimitAssumption DEF Nothing, Replies

\* A marker is not hidden.
LEMMA MarkersNotHidden ==
  \A j \in Done : j \in Markers <=> ~Hidden(j)
<1> SUFFICES ASSUME NEW j \in Done PROVE j \in Markers <=> ~Hidden(j)
  OBVIOUS
<1> DEFINE B == {k \in Done : FinishedBefore(j, k)}
<1>1. Cardinality(B) \in Nat
  BY DoneIsFinite DEF Done
<1>2. j \in Markers <=> Cardinality(B) < Limit
  BY DEF Markers
<1>3. Hidden(j) <=> Cardinality(B) >= Limit
  BY DEF Hidden
<1> HIDE DEF B
<1> QED BY <1>1, <1>2, <1>3, LimitAssumption

-----------------------------------------------------------------------------
(***************************************************************************)
(* Steps of the table other than deletions.  Rows that are done stay done, *)
(* and what the limit hides stays hidden.                                  *)
(***************************************************************************)
DoneKept ==
  /\ Done \subseteq Done'
  /\ \A k \in Done : finished'[k] = finished[k]

LEMMA HiddenStays ==
  ASSUME DoneKept, NEW j, Hidden(j) PROVE Hidden(j)'
<1> DEFINE B == {k \in Done : FinishedBefore(j, k)}
           C == {k \in Done' : FinishedBefore(j, k)'}
<1>1. B \in SUBSET C /\ C \in SUBSET Ids /\ B \in SUBSET Ids
  BY DEF DoneKept, Hidden, FinishedBefore, Done
<1>2. Cardinality(B) <= Cardinality(C)
  BY <1>1, DoneIsFinite, FS_Subset
<1>3. Cardinality(B) >= Limit /\ j \in Done'
  BY DEF Hidden, DoneKept
<1>4. Cardinality(B) \in Nat /\ Cardinality(C) \in Nat
  BY <1>1, DoneIsFinite
<1> HIDE DEF B
<1>5. Cardinality(C) >= Limit
  BY <1>2, <1>3, <1>4, LimitAssumption
<1> QED BY <1>3, <1>5 DEF Hidden

LEMMA TabUntouched ==
  ASSUME PageInv, TableInv', DoneKept, now' \in Stamps,
         finished' \in [Ids -> Stamps], UNCHANGED <<tabVars, before, freed>>,
         toasts' \in [Ids -> 0 .. 2],
         \A j \in Ids : toasts'[j] = toasts[j] \/ toasts'[j] = 0
  PROVE  PageInv'
<1>1. PageTypeOK'
  BY DEF PageInv, PageTypeOK, TableInv, tabVars
<1>2. AnnouncedOnce' /\ TabOK'
  BY DEF PageInv, AnnouncedOnce, TabOK, tabVars
<1>3. MarkersAreDone'
  BY DEF PageInv, PageTypeOK, Replies, MarkersAreDone, DoneKept, Done, tabVars
<1>4. OldIsKnown'
  BY HiddenStays DEF PageInv, OldIsKnown, tabVars
<1> QED BY <1>1, <1>2, <1>3, <1>4 DEF PageInv

LEMMA EndedIsDoneKept ==
  ASSUME EndedRowsKept, UNCHANGED finished PROVE DoneKept
BY DEF EndedRowsKept, DoneKept, Done, Terminal

LEMMA ReleasedInv ==
  ASSUME PageInv, NEW j \in Ids, NEW outcome \in Terminal, Released(j, outcome)
  PROVE  PageInv'
<1>1. TableInv' /\ EndedRowsKept
  BY ReleaseInv DEF Released, PageInv
<1>2. j \notin Done
  BY DEF Released, Releasable, Done
<1>3. /\ \A k \in Ids \ {j} : finished'[k] = finished[k]
      /\ finished' \in [Ids -> Stamps]
  BY MaxStampAssumption DEF Released, PageInv, PageTypeOK, Stamps
<1>4. DoneKept
  BY <1>1, <1>2, <1>3 DEF EndedRowsKept, DoneKept, Done, Terminal
<1> QED BY <1>1, <1>3, <1>4, TabUntouched DEF Released, PageInv, PageTypeOK

\* A deletion makes the page forget what it knew to be old.
LEMMA DeletedInv ==
  ASSUME PageInv, NEW j \in Ids, Deleted(j) PROVE PageInv'
<1>1. TableInv'
  BY DeleteInv DEF Deleted, Done, PageInv
<1>2. \A k \in Ids \ {j} : downloads'[k] = downloads[k]
  BY DEF Deleted, PageInv, TableInv, TableOK
<1>3. PageTypeOK'
  BY <1>1, MaxStampAssumption
     DEF Deleted, PageInv, PageTypeOK, TableInv, Replies, Stamps
<1>4. AnnouncedOnce' /\ TabOK'
  BY DEF Deleted, PageInv, AnnouncedOnce, TabOK
<1>5. rendered'.markers = rendered.markers /\ rendered'.done = {}
  BY DEF Deleted, PageInv, PageTypeOK, Replies
<1>6. MarkersAreDone'
  BY <1>2, <1>5 DEF Deleted, PageInv, PageTypeOK, Replies, MarkersAreDone
<1>7. OldIsKnown'
  BY <1>5 DEF Deleted, PageInv, OldIsKnown
<1> QED BY <1>1, <1>3, <1>4, <1>6, <1>7 DEF PageInv

LEMMA MeanwhileInv ==
  ASSUME PageInv, Meanwhile \/ \E j \in Ids : CancelClicked(j) PROVE PageInv'
<1>1. CASE Second
  <2>1. TableInv' /\ EndedRowsKept
    BY <1>1, NothingWrittenInv DEF Second, PageInv
  <2> QED BY <1>1, <2>1, EndedIsDoneKept, TabUntouched, MaxStampAssumption
          DEF Second, PageInv, PageTypeOK, Stamps
<1>2. ASSUME NEW j \in Ids, Enqueued(j) PROVE PageInv'
  <2>1. TableInv' /\ EndedRowsKept
    BY <1>2, EnqueueInv DEF Enqueued, PageInv, PageTypeOK
  <2> QED BY <1>2, <2>1, EndedIsDoneKept, TabUntouched
          DEF Enqueued, PageInv, PageTypeOK
<1>3. ASSUME NEW j \in Ids, Claimed(j) \/ CancelClicked(j) PROVE PageInv'
  <2>1. TableInv' /\ EndedRowsKept
    BY <1>3, ClaimInv, CancelInv DEF Claimed, CancelClicked, PageInv
  <2> QED BY <1>3, <2>1, EndedIsDoneKept, TabUntouched
          DEF Claimed, CancelClicked, PageInv, PageTypeOK
<1> QED BY <1>1, <1>2, <1>3, ReleasedInv, DeletedInv DEF Meanwhile, Terminal

-----------------------------------------------------------------------------
(***************************************************************************)
(* Steps of the tab.  The table does not move, and what is hidden stays.   *)
(***************************************************************************)
LEMMA TableUntouched ==
  ASSUME PageInv, UNCHANGED tableVars
  PROVE  TableInv' /\ \A j : Hidden(j) => Hidden(j)'
<1>1. TableInv'
  BY NothingWrittenInv DEF PageInv, tableVars
<1>2. DoneKept
  BY DEF DoneKept, Done, tableVars
<1> QED BY <1>1, <1>2, HiddenStays

LEMMA AskForPageInv ==
  ASSUME PageInv, AskForPage PROVE PageInv'
<1>1. TableInv' /\ \A j : Hidden(j) => Hidden(j)'
  BY TableUntouched DEF AskForPage
<1>2. PageTypeOK'
  BY <1>1, ReplyType DEF AskForPage, tableVars, PageInv, PageTypeOK, TableInv
<1>3. AnnouncedOnce' /\ TabOK'
  BY DEF AskForPage, PageInv, AnnouncedOnce, TabOK
<1>4. rendered'.markers = Markers /\ rendered'.done = Done
  BY DEF AskForPage, Reply
<1>5. MarkersAreDone'
  BY <1>4 DEF AskForPage, tableVars, PageInv, MarkersAreDone, Markers, Done
<1>6. OldIsKnown'
  BY <1>1, <1>4, MarkersNotHidden DEF AskForPage, PageInv, OldIsKnown
<1> QED BY <1>1, <1>2, <1>3, <1>5, <1>6 DEF PageInv

LEMMA BootInv ==
  ASSUME PageInv, Boot PROVE PageInv'
<1>1. TableInv' /\ \A j : Hidden(j) => Hidden(j)'
  BY TableUntouched DEF Boot
<1>2. /\ rendered' = Nothing /\ polled' = Nothing /\ toasts' = toasts
      /\ seen' = stored \cup rendered.markers /\ stored' = seen'
      /\ open' /\ before' = rendered.done /\ UNCHANGED tableVars
  BY DEF Boot, Scan, PageInv, PageTypeOK
<1>3. rendered.markers \subseteq Ids /\ rendered.done \subseteq Ids
  BY DEF PageInv, PageTypeOK, Replies
<1>4. PageTypeOK'
  BY <1>1, <1>2, <1>3, NothingType DEF Boot, tableVars, PageInv, PageTypeOK, TableInv
<1>5. AnnouncedOnce' /\ TabOK'
  BY <1>2 DEF PageInv, AnnouncedOnce, TabOK, Nothing
<1>6. MarkersAreDone'
  BY <1>2 DEF tableVars, PageInv, MarkersAreDone, Nothing
<1>7. OldIsKnown'
  BY <1>1, <1>2 DEF Boot, PageInv, OldIsKnown, Nothing
<1> QED BY <1>1, <1>4, <1>5, <1>6, <1>7 DEF PageInv

LEMMA PollInv ==
  ASSUME PageInv, Poll PROVE PageInv'
<1>1. TableInv' /\ \A j : Hidden(j) => Hidden(j)'
  BY TableUntouched DEF Poll
<1>2. PageTypeOK'
  BY <1>1, ReplyType DEF Poll, tableVars, PageInv, PageTypeOK, TableInv
<1>3. AnnouncedOnce' /\ TabOK'
  BY DEF Poll, PageInv, AnnouncedOnce, TabOK
<1>4. polled'.markers = Markers /\ open
  BY DEF Poll, Reply
<1>5. MarkersAreDone'
  BY <1>4 DEF Poll, tableVars, PageInv, MarkersAreDone, Markers, Done
<1>6. Markers \cap before \subseteq seen
  BY <1>4, MarkersNotHidden DEF PageInv, OldIsKnown, Markers
<1>7. OldIsKnown'
  BY <1>1, <1>4, <1>6 DEF Poll, PageInv, OldIsKnown
<1> QED BY <1>1, <1>2, <1>3, <1>5, <1>7 DEF PageInv

\* Only this step shows a toast.
LEMMA SwapShows ==
  ASSUME PageInv, Swap
  PROVE  /\ polled' = Nothing /\ UNCHANGED <<tableVars, open, rendered, before>>
         /\ open /\ seen = stored
         /\ seen' = seen \cup polled.markers /\ stored' = seen'
         /\ toasts' \in [Ids -> 0 .. 1]
         /\ \A j \in Ids : IF j \in polled.markers \ seen
                           THEN toasts[j] = 0 /\ toasts'[j] = 1
                           ELSE toasts'[j] = toasts[j]
<1>1. polled.sent /\ open /\ seen = stored
  BY DEF Swap, PageInv, TabOK
<1>2. \A j \in Ids : j \notin seen => toasts[j] = 0
  BY <1>1 DEF PageInv, PageTypeOK, TabOK
<1>3. toasts' = [j \in Ids |-> IF j \in polled.markers \ seen
                              THEN toasts[j] + 1 ELSE toasts[j]]
  BY DEF Swap, Scan
<1>4. \A j \in Ids : toasts[j] \in 0 .. 1
  BY DEF PageInv, PageTypeOK, AnnouncedOnce
<1> QED BY <1>1, <1>2, <1>3, <1>4 DEF Swap, Scan

LEMMA SwapInv ==
  ASSUME PageInv, Swap PROVE PageInv'
<1>1. TableInv' /\ \A j : Hidden(j) => Hidden(j)'
  BY TableUntouched DEF Swap
<1>2. polled.markers \subseteq Ids
  BY DEF PageInv, PageTypeOK, Replies
<1>3. PageTypeOK'
  BY <1>1, <1>2, SwapShows, NothingType DEF tableVars, PageInv, PageTypeOK, TableInv
<1>4. AnnouncedOnce'
  BY SwapShows DEF AnnouncedOnce
<1>5. TabOK'
  BY SwapShows DEF PageInv, TabOK, Nothing
<1>6. MarkersAreDone'
  BY SwapShows DEF tableVars, PageInv, MarkersAreDone, Nothing
<1>7. OldIsKnown'
  BY <1>1, SwapShows DEF PageInv, OldIsKnown, Nothing
<1> QED BY <1>1, <1>3, <1>4, <1>5, <1>6, <1>7 DEF PageInv

LEMMA LeaveInv ==
  ASSUME PageInv, Leave PROVE PageInv'
<1>1. TableInv'
  BY TableUntouched DEF Leave
<1>2. PageTypeOK'
  BY <1>1, NothingType DEF Leave, tableVars, PageInv, PageTypeOK, TableInv
<1>3. AnnouncedOnce' /\ TabOK'
  BY DEF Leave, PageInv, AnnouncedOnce, TabOK, Nothing
<1>4. MarkersAreDone'
  BY DEF Leave, tableVars, PageInv, MarkersAreDone, Nothing
<1>5. OldIsKnown'
  BY DEF Leave, PageInv, OldIsKnown, Nothing
<1> QED BY <1>1, <1>2, <1>3, <1>4, <1>5 DEF PageInv

LEMMA PageInitInv == PageInit => PageInv
<1> SUFFICES ASSUME PageInit PROVE PageInv
  OBVIOUS
<1>1. TableInv
  BY TableInitInv DEF PageInit
<1>2. PageTypeOK
  <2>1. now \in Stamps /\ finished \in [Ids -> Stamps]
    BY MaxStampAssumption DEF PageInit, Stamps
  <2>2. toasts \in [Ids -> 0 .. 2]
    BY DEF PageInit
  <2>3. rendered \in Replies /\ polled \in Replies
    BY NothingType DEF PageInit
  <2> QED BY <1>1, <2>1, <2>2, <2>3 DEF PageInit, PageTypeOK, TableInv
<1>3. AnnouncedOnce
  BY DEF PageInit, AnnouncedOnce
<1>4. TabOK /\ MarkersAreDone /\ OldIsKnown
  BY DEF PageInit, TabOK, MarkersAreDone, OldIsKnown, Nothing
<1> QED BY <1>1, <1>2, <1>3, <1>4 DEF PageInv

LEMMA PageStepInv == PageInv /\ [PageNext]_pageVars => PageInv'
<1> SUFFICES ASSUME PageInv, [PageNext]_pageVars PROVE PageInv'
  OBVIOUS
<1>1. CASE PageNext
  BY <1>1, MeanwhileInv, AskForPageInv, BootInv, PollInv, SwapInv, LeaveInv
     DEF PageNext
<1>2. CASE UNCHANGED pageVars
  <2>1. UNCHANGED <<tableVars, tabVars, before, freed>> /\ toasts' = toasts
    BY <1>2 DEF pageVars, tableVars
  <2>2. TableInv' /\ EndedRowsKept
    BY <2>1, NothingWrittenInv DEF tableVars, PageInv
  <2> QED BY <2>1, <2>2, EndedIsDoneKept, TabUntouched
          DEF tableVars, PageInv, PageTypeOK
<1> QED BY <1>1, <1>2

-----------------------------------------------------------------------------
(***************************************************************************)
(* No completion is announced twice in a tab.                              *)
(***************************************************************************)
THEOREM AnnouncedAtMostOnce == PageSpec => []AnnouncedOnce
<1>1. PageInv => AnnouncedOnce
  BY DEF PageInv
<1> QED BY PageInitInv, PageStepInv, <1>1, PTL DEF PageSpec

(***************************************************************************)
(* Page, polls and memory keep their types: no reply carries more markers  *)
(* than the limit.                                                         *)
(***************************************************************************)
THEOREM PageTypes == PageSpec => []PageTypeOK
<1>1. PageInv => PageTypeOK
  BY DEF PageInv
<1> QED BY PageInitInv, PageStepInv, <1>1, PTL DEF PageSpec

(***************************************************************************)
(* The tab remembers only downloads that are done, and freed ids.          *)
(***************************************************************************)
THEOREM OnlyDoneIsRemembered == PageSpec => []RememberedIsDone
<1>1. PageInv => RememberedIsDone
  BY DEF PageInv, MarkersAreDone, RememberedIsDone
<1> QED BY PageInitInv, PageStepInv, <1>1, PTL DEF PageSpec

(***************************************************************************)
(* While nothing is deleted, a download that was done when the page was    *)
(* rendered is never announced, whatever the limit hid from the first      *)
(* scan: more completions only push it further back.                       *)
(***************************************************************************)
THEOREM OldNewsIsNotShown == PageSpec => ToastsAreNews
<1>1. ASSUME PageInv, [PageNext]_pageVars, NEW j \in Ids, toasts'[j] > toasts[j]
      PROVE  j \notin before'
  <2>1. Swap
    BY <1>1 DEF PageNext, Meanwhile, Second, Enqueued, Claimed, Released, Deleted,
       CancelClicked, AskForPage, Boot, Scan, Poll, Leave, pageVars, PageInv,
       PageTypeOK
  <2>2. j \in polled.markers \ seen /\ before' = before /\ polled.sent
    BY <1>1, <2>1, SwapShows DEF Swap, PageInv, PageTypeOK
  <2> QED BY <1>1, <2>2 DEF PageInv, OldIsKnown
<1>2. PageInv /\ [PageNext]_pageVars
        => [\A j \in Ids : toasts'[j] > toasts[j] => j \notin before']_pageVars
  BY <1>1
<1> QED BY PageInitInv, PageStepInv, <1>2, PTL DEF PageSpec, ToastsAreNews
-----------------------------------------------------------------------------
(***************************************************************************)
(* The download that finished last reaches the page.  What can be lost on  *)
(* the way is a poll reply of before it finished, which is swapped in      *)
(* first, and one that a reload throws away; but a page asked for since    *)
(* then knows the download itself.                                         *)
(***************************************************************************)
Waiting(j) == open /\ FinishedLast(j) /\ j \notin seen

PollKnows(j) == polled.sent => j \in polled.markers
PageKnows(j) == rendered.sent => j \in rendered.markers

LEMMA LastIsMarked ==
  ASSUME PageInv, NEW j \in Ids, FinishedLast(j) PROVE j \in Markers
<1>1. \A k \in Done : ~FinishedBefore(j, k)
  BY MaxStampAssumption
     DEF FinishedLast, FinishedBefore, PageInv, PageTypeOK, Stamps, Done, Ids
<1>2. {k \in Done : FinishedBefore(j, k)} = {}
  BY <1>1
<1>3. Cardinality({k \in Done : FinishedBefore(j, k)}) = 0
  BY <1>2, FS_EmptySet
<1>4. j \in Done
  BY DEF FinishedLast
<1> QED BY <1>3, <1>4, LimitAssumption DEF Markers

LEMMA WaitingStep ==
  ASSUME PageInv, [PageNext]_pageVars, NEW j \in Ids, Waiting(j), Waiting(j)'
  PROVE  /\ PollKnows(j) => PollKnows(j)'
         /\ PageKnows(j) => PageKnows(j)'
         /\ PollKnows(j) /\ polled.sent /\ ~polled.sent'
              => ~PageKnows(j) /\ PageKnows(j)'
         /\ Poll => polled.sent'
         /\ Swap => ~PollKnows(j) /\ PollKnows(j)'
<1>m. j \in Markers
  BY LastIsMarked DEF Waiting
<1>r. Reply.sent /\ Reply.markers = Markers /\ ~Nothing.sent
  BY DEF Reply, Nothing
<1>t. polled \in Replies /\ rendered \in Replies /\ seen = stored
  BY DEF PageInv, PageTypeOK, TabOK, Waiting
<1>p. Poll => ~polled.sent /\ polled'.sent
  BY <1>r DEF Poll
<1>s. Swap => polled.sent /\ ~polled'.sent
  BY <1>r DEF Swap
<1>1. CASE UNCHANGED <<polled, rendered>> \/ \E k \in Ids : Deleted(k)
  <2>1. /\ polled' = polled
        /\ rendered'.markers = rendered.markers /\ rendered'.sent = rendered.sent
    BY <1>1, <1>t DEF Deleted, Replies
  <2>2. ~Poll /\ ~Swap
    BY <1>p, <1>s, <2>1
  <2> QED BY <2>1, <2>2 DEF PollKnows, PageKnows
<1>2. CASE AskForPage
  BY <1>2, <1>m, <1>p, <1>r, <1>s DEF AskForPage, PollKnows, PageKnows
<1>3. CASE Boot
  <2>1. rendered.sent /\ j \notin rendered.markers
    BY <1>3 DEF Boot, Scan, Waiting
  <2>2. ~rendered'.sent /\ ~polled'.sent /\ ~Poll /\ ~Swap
    BY <1>3, <1>r, <1>p DEF Boot, Swap, Nothing
  <2> QED BY <2>1, <2>2 DEF PollKnows, PageKnows
<1>4. CASE Poll
  BY <1>4, <1>m, <1>p, <1>r, <1>s DEF Poll, PollKnows, PageKnows
<1>5. CASE Swap
  <2>1. polled.sent /\ j \notin polled.markers
    BY <1>5 DEF Swap, Scan, Waiting
  <2> QED BY <1>5, <1>p, <1>s, <2>1 DEF Swap, PollKnows, PageKnows
<1>6. CASE Leave
  BY <1>6 DEF Leave, Waiting
<1>7. CASE \/ Second \/ UNCHANGED pageVars
           \/ \E k \in Ids : Enqueued(k) \/ Claimed(k) \/ CancelClicked(k)
           \/ \E k \in Ids, outcome \in {"done", "error", "cancelled"} :
                Released(k, outcome)
  BY <1>1, <1>7 DEF Second, Enqueued, Claimed, Released, CancelClicked, tabVars,
     pageVars
<1> QED BY <1>1, <1>2, <1>3, <1>4, <1>5, <1>6, <1>7 DEF PageNext, Meanwhile

(***************************************************************************)
(* The download that finished last reaches the page, for any number of     *)
(* downloads and any limit, unless another one finishes or it is deleted   *)
(* first.  The fairness is that of PollingSpec with the guards of the two  *)
(* actions written for ENABLED: an open page that has no poll under way    *)
(* sends one, and a reply that is there is swapped in.                     *)
(***************************************************************************)
PollsGoOn ==
  /\ <>[](open /\ ~polled.sent) => []<><<Poll>>_pageVars
  /\ <>[](polled.sent) => []<><<Swap>>_pageVars

THEOREM LastDownloadIsSeen == PageSpec /\ PollsGoOn => LastIsSeen
<1> DEFINE End(j) == j \in seen \/ ~FinishedLast(j) \/ ~open
<1>1. ASSUME NEW j \in Ids
      PROVE  PageSpec /\ PollsGoOn => (open /\ FinishedLast(j) ~> End(j))
  <2>1. PageInv /\ [PageNext]_pageVars /\ Waiting(j) /\ Waiting(j)'
          => /\ PollKnows(j) => PollKnows(j)'
             /\ PageKnows(j) => PageKnows(j)'
             /\ PollKnows(j) /\ polled.sent /\ ~polled.sent'
                  => ~PageKnows(j) /\ PageKnows(j)'
    BY WaitingStep
  <2>2. PageInv /\ [PageNext]_pageVars /\ Waiting(j) /\ Waiting(j)'
          => /\ <<Poll>>_pageVars => polled.sent'
             /\ <<Swap>>_pageVars => ~PollKnows(j) /\ PollKnows(j)'
    BY WaitingStep
  <2>3. Waiting(j) /\ ~polled.sent => open /\ ~polled.sent
    BY DEF Waiting
  <2>4. ~polled.sent => PollKnows(j)
    BY DEF PollKnows
  <2>5. End(j) <=> ~Waiting(j) \/ j \in seen
    BY DEF Waiting
  <2> QED
    BY PageInitInv, PageStepInv, <2>1, <2>2, <2>3, <2>4, <2>5, PTL
       DEF PollsGoOn, PageSpec
<1> QED BY <1>1 DEF LastIsSeen
=============================================================================
