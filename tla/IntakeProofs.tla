----------------------------- MODULE IntakeProofs -----------------------------
(***************************************************************************)
(* What the intake promises, for any number of ids, requests and videos.   *)
(* Batches stay together: the event loop is held by one request at a time, *)
(* and SQLite's ids grow (IntakeInv).  Replies are true and downloads are  *)
(* as picked: what a form means is what its payloads are, and a row keeps  *)
(* it for as long as a worker may read it (PromiseInv).                    *)
(***************************************************************************)
EXTENDS Intake, FiniteSetTheorems, SequenceTheorems, TLAPS

IsSequence(s) == s \in Seq({s[i] : i \in DOMAIN s})

\* The one request that may still insert is the last that came.
OnlyLastIsOpen == \A r \in DOMAIN requests : Open(r) => r = Len(requests)

\* Rows are due to requests that came, in the order in which they came.
RowsFollowRequests ==
  \A j \in Ids : Exists(j) =>
    /\ origin[j].request \in DOMAIN requests
    /\ \A k \in Ids : Exists(k) /\ k < j => origin[k].request <= origin[j].request

OriginOK == DOMAIN origin = Ids

IntakeInv ==
  TableOK /\ IsSequence(requests) /\ OriginOK /\ OnlyLastIsOpen /\ RowsFollowRequests

-----------------------------------------------------------------------------
(* Sequences. *)

LEMMA AnySequence ==
  ASSUME NEW S, NEW t \in Seq(S)
  PROVE  IsSequence(t) /\ Len(t) \in Nat /\ DOMAIN t = 1 .. Len(t)
<1>1. Len(t) \in Nat /\ DOMAIN t = 1 .. Len(t) /\ t \in [1 .. Len(t) -> S]
  BY LenProperties
<1>2. t \in [1 .. Len(t) -> {t[k] : k \in DOMAIN t}]
  BY <1>1
<1>3. t \in Seq({t[k] : k \in DOMAIN t})
  BY <1>1, <1>2
<1> QED BY <1>1, <1>3, Zenon DEF IsSequence

LEMMA AppendIsSequence ==
  ASSUME NEW s, IsSequence(s), NEW e
  PROVE  /\ IsSequence(Append(s, e))
         /\ Len(s) \in Nat /\ DOMAIN s = 1 .. Len(s)
         /\ Len(Append(s, e)) = Len(s) + 1
         /\ DOMAIN Append(s, e) = 1 .. (Len(s) + 1)
         /\ \A i \in DOMAIN s : Append(s, e)[i] = s[i]
<1> DEFINE S == {s[i] : i \in DOMAIN s} \cup {e}
<1>1. s \in Seq(S) /\ e \in S
  BY DEF IsSequence
<1> HIDE DEF S
<1>2. /\ Append(s, e) \in Seq(S) /\ Len(Append(s, e)) = Len(s) + 1
      /\ \A i \in 1 .. Len(s) : Append(s, e)[i] = s[i]
  BY <1>1, AppendProperties
<1> QED BY <1>1, <1>2, AnySequence

LEMMA SameDomain ==
  ASSUME NEW s, IsSequence(s), NEW t, t = [i \in DOMAIN s |-> t[i]]
  PROVE  IsSequence(t) /\ Len(t) = Len(s) /\ DOMAIN t = DOMAIN s
<1>1. Len(s) \in Nat /\ DOMAIN s = 1 .. Len(s)
  BY DEF IsSequence
<1>2. t = [i \in 1 .. Len(s) |-> t[i]]
  BY <1>1
<1>3. \A i \in 1 .. Len(s) : t[i] \in {t[k] : k \in DOMAIN t}
  BY <1>2
<1>4. t \in Seq({t[k] : k \in DOMAIN t}) /\ Len(t) = Len(s)
  BY <1>1, <1>2, <1>3
<1> QED BY <1>1, <1>2, <1>4 DEF IsSequence

-----------------------------------------------------------------------------
(***************************************************************************)
(* The numbers of a finite set in their order: every rank is taken once.   *)
(***************************************************************************)
LEMMA RankType ==
  ASSUME NEW S \in SUBSET Nat, IsFiniteSet(S), NEW i \in S
  PROVE  Rank(S, i) \in 1 .. Cardinality(S)
<1> DEFINE low == {k \in S : k <= i}
<1>1. IsFiniteSet(low) /\ Cardinality(low) <= Cardinality(S)
  BY FS_Subset
<1>2. Cardinality(low) \in Nat /\ Cardinality(S) \in Nat
  BY <1>1, FS_CardinalityType
<1>3. i \in low
  OBVIOUS
<1>4. Cardinality(low) # 0
  BY <1>1, <1>3, FS_EmptySet
<1> QED BY <1>1, <1>2, <1>4 DEF Rank

LEMMA RankGrows ==
  ASSUME NEW S \in SUBSET Nat, IsFiniteSet(S), NEW i \in S, NEW j \in S, i < j
  PROVE  Rank(S, i) < Rank(S, j)
<1> DEFINE low == {k \in S : k <= i}
           high == {k \in S : k <= j}
<1>1. low \in SUBSET high /\ j \in high /\ j \notin low
  <2>1. i \in Nat /\ j \in Nat
    OBVIOUS
  <2>2. \A k \in S : k <= i => k <= j
    BY <2>1
  <2>3. j \in high /\ j \notin low
    BY <2>1
  <2> QED BY <2>2, <2>3
<1>2. IsFiniteSet(high)
  BY FS_Subset
<1> HIDE DEF low, high
<1>3. IsFiniteSet(low) /\ Cardinality(low) <= Cardinality(high)
      /\ Cardinality(low) # Cardinality(high)
  BY <1>1, <1>2, FS_Subset
<1>4. Cardinality(low) \in Nat /\ Cardinality(high) \in Nat
  BY <1>2, <1>3, FS_CardinalityType
<1>5. Cardinality(low) < Cardinality(high)
  BY <1>3, <1>4
<1> QED BY <1>5 DEF Rank, low, high

LEMMA EveryRankIsTaken ==
  ASSUME NEW S \in SUBSET Nat, IsFiniteSet(S), NEW n \in 1 .. Cardinality(S)
  PROVE  \E i \in S : Rank(S, i) = n
<1> DEFINE m == Cardinality(S)
           rank == [i \in S |-> Rank(S, i)]
<1>1. m \in Nat
  BY FS_CardinalityType
<1>2. IsFiniteSet(1 .. m) /\ Cardinality(1 .. m) = m
  BY <1>1, FS_Interval
<1>3. rank \in [S -> 1 .. m]
  BY RankType
<1>4. ASSUME NEW i \in S, NEW j \in S, rank[i] = rank[j] PROVE i = j
  <2>1. Rank(S, i) = Rank(S, j) /\ Rank(S, i) \in Int /\ Rank(S, j) \in Int
    BY <1>1, <1>4, RankType
  <2>2. ~(i < j) /\ ~(j < i)
    BY <2>1, RankGrows
  <2> QED BY <2>2
<1> HIDE DEF rank, m
<1>5. rank \in Injection(S, 1 .. m)
  BY <1>3, <1>4 DEF Injection, IsInjective
<1>6. rank \in Surjection(S, 1 .. m)
  BY <1>2, <1>5, FS_Injection DEF m
<1>7. \E i \in S : rank[i] = n
  BY <1>6 DEF Surjection, m
<1> QED BY <1>7 DEF rank

LEMMA OrderProperties ==
  ASSUME NEW S \in SUBSET Nat, IsFiniteSet(S)
  PROVE  /\ Cardinality(S) \in Nat
         /\ InOrder(S) \in [1 .. Cardinality(S) -> S]
         /\ \A n, k \in 1 .. Cardinality(S) : InOrder(S)[n] = InOrder(S)[k] => n = k
<1> DEFINE Nth(n) == CHOOSE i \in S : Rank(S, i) = n
<1>1. Cardinality(S) \in Nat
  BY FS_CardinalityType
<1>2. ASSUME NEW n \in 1 .. Cardinality(S)
      PROVE  Nth(n) \in S /\ Rank(S, Nth(n)) = n /\ InOrder(S)[n] = Nth(n)
  BY EveryRankIsTaken DEF InOrder
<1> HIDE DEF Nth
<1>3. InOrder(S) = [n \in 1 .. Cardinality(S) |-> Nth(n)]
  BY DEF InOrder, Nth
<1> QED BY <1>1, <1>2, <1>3

\* A sequence without nothing is the sequence.
LEMMA OrderOfAll ==
  ASSUME NEW m \in Nat, NEW n \in 1 .. m
  PROVE  InOrder(1 .. m)[n] = n /\ Cardinality(1 .. m) = m
<1>1. Cardinality(1 .. m) = m
  BY FS_Interval
<1>2. ASSUME NEW i \in 1 .. m PROVE Rank(1 .. m, i) = i
  <2>1. {k \in 1 .. m : k <= i} = 1 .. i
    OBVIOUS
  <2>2. Cardinality(1 .. i) = i
    BY FS_Interval
  <2> QED BY <2>1, <2>2 DEF Rank
<1>3. InOrder(1 .. m)[n] = CHOOSE i \in 1 .. m : Rank(1 .. m, i) = n
  BY <1>1 DEF InOrder
<1>4. (CHOOSE i \in 1 .. m : Rank(1 .. m, i) = n) = n
  <2> DEFINE c == CHOOSE i \in 1 .. m : Rank(1 .. m, i) = n
  <2>1. c \in 1 .. m /\ Rank(1 .. m, c) = n
    BY <1>2
  <2> HIDE DEF c
  <2>2. c = n
    BY <1>2, <2>1
  <2> QED BY <2>2 DEF c
<1> QED BY <1>1, <1>3, <1>4

LEMMA OnlyAll ==
  ASSUME NEW m \in Nat, NEW s, s = [n \in 1 .. m |-> s[n]]
  PROVE  Only(s, 1 .. m) = s
<1>1. Only(s, 1 .. m) = [n \in 1 .. m |-> s[n]]
  BY OrderOfAll, FS_Interval DEF Only
<1> QED BY <1>1

-----------------------------------------------------------------------------
(* What the transactions do to the rows there are. *)

SameRows == \A k \in Ids : Exists(k)' <=> Exists(k)

LEMMA ClaimKeepsRows ==
  ASSUME TableOK, NEW j \in Ids, ClaimNext(j) PROVE TableOK' /\ SameRows
<1> DEFINE new == [downloads[j] EXCEPT !.status = "active", !.claimed_at = 0]
<1>1. downloads[j] \in Row
  BY DEF TableOK, ClaimNext, Claimable, Absent
<1>2. 0 \in Ages
  BY StaleTimeoutAssumption DEF Ages
<1>3. new \in Row /\ new.status = "active"
  BY <1>1, <1>2 DEF Row, Statuses
<1>4. downloads' = [downloads EXCEPT ![j] = new]
  BY Zenon DEF ClaimNext
<1> HIDE DEF new
<1> QED BY <1>1, <1>3, <1>4 DEF TableOK, SameRows, Exists, ClaimNext, Claimable

LEMMA ReleaseKeepsRows ==
  ASSUME TableOK, NEW j, NEW outcome \in {"done", "error"},
         ReleaseJob(j, outcome, NoPath)
  PROVE  TableOK' /\ SameRows
<1>1. CASE j \in Ids /\ Releasable(downloads[j])
  <2>1. downloads[j] \in Row /\ downloads[j].status = "active"
    BY <1>1 DEF TableOK, Releasable, Absent
  <2>2. PICK new \in Row : /\ new.status = outcome
                           /\ downloads' = [downloads EXCEPT ![j] = new]
    <3> DEFINE new == [downloads[j] EXCEPT
                         !.status = outcome,
                         !.finished_at = TRUE,
                         !.error_code = IF outcome = "error" THEN "ytdlp_error" ELSE @,
                         !.file_path = IF NoPath = NoPath THEN @ ELSE NoPath]
    <3>1. new \in Row /\ new.status = outcome
      BY <2>1 DEF Row, Statuses, Terminal
    <3>2. downloads' = [downloads EXCEPT ![j] = new]
      BY <1>1, Zenon DEF ReleaseJob
    <3> QED BY <3>1, <3>2
  <2> QED BY <1>1, <2>1, <2>2 DEF TableOK, SameRows, Exists
<1>2. CASE ~(j \in Ids /\ Releasable(downloads[j]))
  <2>1. downloads' = downloads
    BY <1>2 DEF ReleaseJob, TableOK
  <2> QED BY <2>1 DEF TableOK, SameRows, Exists
<1> QED BY <1>1, <1>2

LEMMA RequeueKeepsRows ==
  ASSUME TableOK, RequeueActiveOnStartup PROVE TableOK' /\ SameRows
<1> DEFINE again(k) == [downloads[k] EXCEPT !.status = "queued", !.claimed_at = NULL]
<1>1. ASSUME NEW k \in Ids, downloads[k].status = "active"
      PROVE  again(k) \in Row /\ again(k).status = "queued"
  <2>1. downloads[k] \in Row
    BY <1>1 DEF TableOK, Absent
  <2> QED BY <2>1 DEF Row, Statuses
<1>2. downloads' = [k \in Ids |-> IF downloads[k].status = "active"
                                  THEN again(k) ELSE downloads[k]]
  BY DEF RequeueActiveOnStartup
<1> HIDE DEF again
<1> QED BY <1>1, <1>2 DEF TableOK, SameRows, Exists

LEMMA DeletionKeepsOthers ==
  ASSUME TableOK, NEW j \in Ids, downloads' = [downloads EXCEPT ![j] = Absent]
  PROVE  TableOK' /\ \A k \in Ids : Exists(k)' <=> k # j /\ Exists(k)
BY DEF TableOK, Exists, Absent

LEMMA EnqueueAddsLast ==
  ASSUME TableOK, NEW j \in Ids, EnqueueDownload(j, 0)
  PROVE  /\ TableOK'
         /\ \A k \in Ids : Exists(k)' <=> k = j \/ Exists(k)
         /\ \A k \in Ids : Exists(k)' => k <= j
<1>1. NewRow(0) \in Row
  BY MaxStampAssumption DEF NewRow, Row, Statuses, NULL, Ages, Stamps
<1>2. TableOK'
  BY <1>1 DEF TableOK, EnqueueDownload
<1>3. \A k \in Ids : Exists(k)' <=> k = j \/ Exists(k)
  BY DEF TableOK, EnqueueDownload, Exists, NewRow
<1> QED BY <1>2, <1>3 DEF EnqueueDownload, IsNextId, Ids

-----------------------------------------------------------------------------
(***************************************************************************)
(* A step that adds no row and gives none another origin.                  *)
(***************************************************************************)
LEMMA NoRowAdded ==
  ASSUME IntakeInv, TableOK', OriginOK', IsSequence(requests'), OnlyLastIsOpen',
         DOMAIN requests \subseteq DOMAIN requests',
         \A k \in Ids : Exists(k)' =>
           Exists(k) /\ origin'[k].request = origin[k].request
  PROVE  IntakeInv'
<1>1. RowsFollowRequests'
  BY DEF IntakeInv, RowsFollowRequests
<1> QED BY <1>1 DEF IntakeInv

\* A request is answered, fails, or loses its reply in a crash.
LEMMA RequestsGoOn ==
  ASSUME IntakeInv,
         requests' = [r \in DOMAIN requests |-> requests'[r]],
         \A r \in DOMAIN requests :
           r = Len(requests) \/ requests'[r] = requests[r]
  PROVE  /\ IsSequence(requests') /\ OnlyLastIsOpen'
         /\ DOMAIN requests' = DOMAIN requests
<1>1. IsSequence(requests') /\ Len(requests') = Len(requests)
        /\ DOMAIN requests' = DOMAIN requests
  BY SameDomain, Zenon DEF IntakeInv
<1> QED BY <1>1 DEF IntakeInv, OnlyLastIsOpen, Open

LEMMA HandleInv ==
  ASSUME IntakeInv, NEW by, NEW payloads, NEW asked, Handle(by, payloads, asked)
  PROVE  IntakeInv'
<1> DEFINE q == [by |-> by, asked |-> asked, rows |-> <<>>,
                 todo  |-> IF Builds(payloads) THEN payloads ELSE <<>>,
                 reply |-> IF Builds(payloads) THEN "none" ELSE "error"]
<1>1. requests' = Append(requests, q)
  BY Zenon DEF Handle
<1> HIDE DEF q
<1>2. /\ IsSequence(requests') /\ Len(requests) \in Nat
      /\ DOMAIN requests = 1 .. Len(requests)
      /\ Len(requests') = Len(requests) + 1
      /\ DOMAIN requests' = 1 .. (Len(requests) + 1)
      /\ \A i \in DOMAIN requests : requests'[i] = requests[i]
  BY <1>1, AppendIsSequence DEF IntakeInv
<1>3. OnlyLastIsOpen'
  BY <1>2 DEF Handle, LoopFree, OnlyLastIsOpen, Open
<1>4. TableOK' /\ OriginOK' /\ \A k \in Ids : Exists(k)' => Exists(k)
  BY DEF IntakeInv, Handle, serverVars, TableOK, OriginOK, Exists
<1>5. \A k \in Ids : origin'[k].request = origin[k].request
  BY DEF Handle, serverVars
<1> QED BY <1>2, <1>3, <1>4, <1>5, NoRowAdded

LEMMA InsertInv ==
  ASSUME IntakeInv, NEW r \in DOMAIN requests, NEW j \in Ids, Insert(r, j)
  PROVE  IntakeInv'
<1>1. r = Len(requests)
  BY DEF Insert, IntakeInv, OnlyLastIsOpen
<1>2. /\ IsSequence(requests') /\ OnlyLastIsOpen'
      /\ DOMAIN requests' = DOMAIN requests
  BY <1>1, RequestsGoOn DEF Insert
<1>3. /\ TableOK'
      /\ \A k \in Ids : Exists(k)' <=> k = j \/ Exists(k)
      /\ \A k \in Ids : Exists(k)' => k <= j
  BY EnqueueAddsLast DEF Insert, IntakeInv
<1>4. OriginOK' /\ origin'[j].request = r
        /\ \A k \in Ids \ {j} : origin'[k] = origin[k]
  BY DEF Insert, IntakeInv, OriginOK
<1>5. Len(requests) \in Nat /\ DOMAIN requests = 1 .. Len(requests)
  BY DEF IntakeInv, IsSequence
<1>6. \A k \in Ids \ {j} : Exists(k)' => origin'[k].request <= r
  BY <1>1, <1>3, <1>4, <1>5 DEF IntakeInv, RowsFollowRequests
<1>7. RowsFollowRequests'
  <2> SUFFICES ASSUME NEW i \in Ids, Exists(i)'
               PROVE  /\ origin'[i].request \in DOMAIN requests'
                      /\ \A k \in Ids : Exists(k)' /\ k < i =>
                            origin'[k].request <= origin'[i].request
    BY DEF RowsFollowRequests
  <2>1. CASE i = j
    BY <2>1, <1>2, <1>4, <1>6 DEF Ids
  <2>2. CASE i # j
    <3>1. Exists(i) /\ i <= j /\ origin'[i] = origin[i]
      BY <2>2, <1>3, <1>4
    <3>2. ASSUME NEW k \in Ids, Exists(k)', k < i
          PROVE  Exists(k) /\ origin'[k] = origin[k]
      BY <3>1, <3>2, <1>3, <1>4 DEF Ids
    <3> QED BY <3>1, <3>2, <1>2 DEF IntakeInv, RowsFollowRequests
  <2> QED BY <2>1, <2>2
<1> QED BY <1>2, <1>3, <1>4, <1>7 DEF IntakeInv

LEMMA HandlersInv ==
  ASSUME IntakeInv, NEW r \in DOMAIN requests, InsertFails(r) \/ Answer(r)
  PROVE  IntakeInv'
<1>1. r = Len(requests)
  BY DEF InsertFails, Answer, IntakeInv, OnlyLastIsOpen
<1>2. /\ IsSequence(requests') /\ OnlyLastIsOpen'
      /\ DOMAIN requests' = DOMAIN requests
  BY <1>1, RequestsGoOn DEF InsertFails, Answer
<1>3. UNCHANGED <<downloads, origin>>
  BY DEF InsertFails, Answer, serverVars
<1>4. TableOK' /\ OriginOK'
        /\ \A k \in Ids : Exists(k)' =>
              Exists(k) /\ origin'[k].request = origin[k].request
  BY <1>3 DEF IntakeInv, TableOK, OriginOK, Exists
<1> QED BY <1>2, <1>4, NoRowAdded

\* A step that leaves the requests alone and adds no row.
LEMMA RequestsAlone ==
  ASSUME IntakeInv, TableOK', OriginOK', UNCHANGED requests,
         \A k \in Ids : Exists(k)' =>
           Exists(k) /\ origin'[k].request = origin[k].request
  PROVE  IntakeInv'
<1>1. IsSequence(requests') /\ DOMAIN requests \subseteq DOMAIN requests'
  BY DEF IntakeInv
<1>2. OnlyLastIsOpen'
  BY DEF IntakeInv, OnlyLastIsOpen, Open
<1> QED BY <1>1, <1>2, NoRowAdded

LEMMA TableAlone ==
  ASSUME IntakeInv, UNCHANGED <<downloads, origin, requests>>
  PROVE  IntakeInv'
<1>1. TableOK' /\ OriginOK'
        /\ \A k \in Ids : Exists(k)' =>
              Exists(k) /\ origin'[k].request = origin[k].request
  BY DEF IntakeInv, TableOK, OriginOK, Exists
<1> QED BY <1>1, RequestsAlone

LEMMA RestartInv == ASSUME IntakeInv, Restart PROVE IntakeInv'
<1>1. requests' = [r \in DOMAIN requests |-> requests'[r]]
  BY DEF Restart
<1>2. \A r \in DOMAIN requests :
        r = Len(requests) \/ requests'[r] = requests[r]
  BY DEF Restart, IntakeInv, OnlyLastIsOpen
<1>3. /\ IsSequence(requests') /\ OnlyLastIsOpen'
      /\ DOMAIN requests' = DOMAIN requests
  BY <1>1, <1>2, RequestsGoOn
<1>4. TableOK' /\ SameRows
  BY RequeueKeepsRows DEF Restart, IntakeInv
<1>5. OriginOK' /\ \A k \in Ids : origin'[k].request = origin[k].request
  BY DEF Restart, IntakeInv, OriginOK
<1> QED BY <1>3, <1>4, <1>5, NoRowAdded DEF SameRows

LEMMA WorkerInv == ASSUME IntakeInv, Worker PROVE IntakeInv'
<1>1. ASSUME NEW j \in Ids, Claim(j) PROVE IntakeInv'
  <2>1. TableOK' /\ SameRows
    BY <1>1, ClaimKeepsRows DEF Claim, IntakeInv
  <2>2. UNCHANGED <<requests, origin>>
    BY <1>1 DEF Claim
  <2> QED BY <2>1, <2>2, RequestsAlone DEF IntakeInv, OriginOK, SameRows
<1>2. ASSUME ClaimNothing \/ ReadJob PROVE IntakeInv'
  BY <1>2, TableAlone DEF ClaimNothing, ReadJob, intakeVars, serverVars
<1>3. ASSUME NEW outcome \in {"done", "error"}, NEW streams,
             Download(outcome, streams)
      PROVE  IntakeInv'
  <2>1. TableOK' /\ SameRows
    BY <1>3, ReleaseKeepsRows DEF Download, IntakeInv
  <2>2. UNCHANGED <<requests, origin>>
    BY <1>3 DEF Download
  <2> QED BY <2>1, <2>2, RequestsAlone DEF IntakeInv, OriginOK, SameRows
<1> QED BY <1>1, <1>2, <1>3 DEF Worker, DownloadFinishes, DownloadFails

LEMMA DeletedInv ==
  ASSUME IntakeInv, NEW j \in Ids, Deleted(j) PROVE IntakeInv'
<1>1. TableOK' /\ \A k \in Ids : Exists(k)' <=> k # j /\ Exists(k)
  BY DeletionKeepsOthers DEF Deleted, IntakeInv
<1>2. OriginOK' /\ \A k \in Ids \ {j} : origin'[k] = origin[k]
  BY DEF Deleted, IntakeInv, OriginOK
<1>3. UNCHANGED requests
  BY DEF Deleted, clientVars
<1> QED BY <1>1, <1>2, <1>3, RequestsAlone

LEMMA ClientsInv == ASSUME IntakeInv, Clients PROVE IntakeInv'
<1>1. ASSUME NEW urls, NEW failed, NEW fractions, Preview(urls, failed, fractions)
      PROVE  IntakeInv'
  BY <1>1, TableAlone DEF Preview, serverVars
<1>2. ASSUME NEW i, PickVideo(i) \/ PickAudio(i) \/ SetBitrate(i)
      PROVE  IntakeInv'
  BY <1>2, TableAlone DEF PickVideo, PickAudio, SetBitrate, Pick, serverVars
<1>3. ASSUME NEW i, EnqueueOne(i) PROVE IntakeInv'
  BY <1>3, HandleInv DEF EnqueueOne, Post
<1>4. ASSUME NEW checked, EnqueueSelected(checked) PROVE IntakeInv'
  BY <1>4, HandleInv DEF EnqueueSelected, Post
<1>5. ASSUME NEW script, PostScript(script) PROVE IntakeInv'
  BY <1>5, HandleInv DEF PostScript
<1> QED BY <1>1, <1>2, <1>3, <1>4, <1>5 DEF Clients

-----------------------------------------------------------------------------
LEMMA IntakeInitInv == IntakeInit => IntakeInv
<1> SUFFICES ASSUME IntakeInit PROVE IntakeInv
  OBVIOUS
<1>1. TableOK /\ \A j \in Ids : ~Exists(j)
  BY DEF IntakeInit, TableInit, TableOK, Exists, Absent
<1>2. IsSequence(requests) /\ DOMAIN requests = {}
  BY DEF IntakeInit, IsSequence
<1>3. OriginOK
  BY DEF IntakeInit, OriginOK
<1> QED BY <1>1, <1>2, <1>3 DEF IntakeInv, OnlyLastIsOpen, RowsFollowRequests

LEMMA IntakeNextInv == IntakeInv /\ [IntakeNext]_intakeVars => IntakeInv'
<1> SUFFICES ASSUME IntakeInv, [IntakeNext]_intakeVars PROVE IntakeInv'
  OBVIOUS
<1>1. CASE Clients
  BY <1>1, ClientsInv
<1>2. CASE Handlers
  BY <1>2, InsertInv, HandlersInv DEF Handlers
<1>3. CASE Worker
  BY <1>3, WorkerInv
<1>4. CASE Restart
  BY <1>4, RestartInv
<1>5. ASSUME NEW u, NEW formats, OfferChanges(u, formats) PROVE IntakeInv'
  BY <1>5, TableAlone DEF OfferChanges, serverVars
<1>6. ASSUME NEW j \in Ids, Deleted(j) PROVE IntakeInv'
  BY <1>6, DeletedInv
<1>7. CASE UNCHANGED intakeVars
  BY <1>7, TableAlone DEF intakeVars, serverVars
<1> QED BY <1>1, <1>2, <1>3, <1>4, <1>5, <1>6, <1>7 DEF IntakeNext

LEMMA OrderIsTogether == IntakeInv => BatchesStayTogether
<1> SUFFICES ASSUME IntakeInv,
                    NEW j \in Ids, NEW k \in Ids, NEW l \in Ids,
                    j < k, k < l, Exists(j), Exists(k), Exists(l),
                    origin[j].request = origin[l].request
             PROVE  origin[k].request = origin[j].request
  BY DEF BatchesStayTogether
<1>1. origin[j].request <= origin[k].request /\ origin[k].request <= origin[l].request
  BY DEF IntakeInv, RowsFollowRequests
<1>2. {origin[j].request, origin[k].request} \subseteq Nat
  BY DEF IntakeInv, RowsFollowRequests, IsSequence
<1> QED BY <1>1, <1>2

(***************************************************************************)
(* Whatever clients post and however often the process goes away, the rows *)
(* of one enqueue request lie together in the queue, although each is a    *)
(* transaction of its own (downloads_batch_form holds the event loop).     *)
(***************************************************************************)
THEOREM BatchesAreTogether == IntakeSpec => []BatchesStayTogether
<1>1. IntakeSpec => []IntakeInv
  BY IntakeInitInv, IntakeNextInv, PTL DEF IntakeSpec
<1> QED BY <1>1, OrderIsTogether, PTL

-----------------------------------------------------------------------------
(***************************************************************************)
(* What is asked for.  The stream picked as the video of a card is not the *)
(* one picked as its audio: they are of different kinds.                   *)
(***************************************************************************)
LEMMA KindsDiffer ==
  ASSUME NEW u \in Videos, NEW formats \in Offers[u],
         NEW v \in IdsOfKind(formats, "video"), NEW a \in IdsOfKind(formats, "audio")
  PROVE  v # a /\ v # NoId /\ a # NoId
<1>1. PICK f \in formats : f.id = v /\ v # NoId /\ StreamKind(f) = "video"
  BY DEF IdsOfKind, Normalized
<1>2. PICK g \in formats : g.id = a /\ a # NoId /\ StreamKind(g) = "audio"
  BY DEF IdsOfKind, Normalized
<1> QED BY <1>1, <1>2, OffersAssumption

LEMMA CardsCanAsk ==
  ASSUME PageOK, NEW i \in Ready
  PROVE  CanAsk(Shown(i)) /\ Shown(i).url # NoUrl
<1>1. CardOK(page[i])
  BY DEF PageOK
<1>2. /\ Shown(i).url = page[i].url /\ Shown(i).duration = page[i].duration
      /\ Shown(i).selection = page[i].selection
  BY DEF Shown, Payload
<1>3. page[i].selection.video # NoId
        => page[i].selection.video # page[i].selection.audio
  BY <1>1, KindsDiffer DEF CardOK
<1> QED BY <1>1, <1>2, <1>3, UrlAssumption DEF CanAsk, CardOK

LEMMA AsksAll ==
  ASSUME NEW S, \A p \in S : CanAsk(p), NEW s \in Seq(S)
  PROVE  Asks(s)
<1>1. Len(s) \in Nat /\ DOMAIN s = 1 .. Len(s) /\ \A n \in 1 .. Len(s) : s[n] \in S
  BY LenProperties, ElementOfSeq
<1> DEFINE A == {p \in ToSet(s) : CanAsk(p)}
<1>2. \A n \in 1 .. Len(s) : s[n] \in A
  BY <1>1 DEF ToSet
<1> HIDE DEF A
<1>3. s \in [1 .. Len(s) -> A]
  BY <1>1, <1>2, LenProperties
<1>4. s \in Seq(A)
  BY <1>1, <1>3, SeqDef
<1> QED BY <1>4 DEF A, Asks

LEMMA NothingLeft == Only(<<>>, {}) = <<>>
<1>1. Cardinality({}) = 0
  BY FS_EmptySet
<1> QED BY <1>1 DEF Only

LEMMA OrderOfNone == InOrder({}) = <<>>
<1>1. Cardinality({}) = 0
  BY FS_EmptySet
<1> QED BY <1>1 DEF InOrder

LEMMA FieldsOfForm ==
  ASSUME NEW checked
  PROVE  /\ Fields(checked).selected = InOrder(checked)
         /\ Fields(checked).cards = [i \in Ready |-> Shown(i)]
         /\ Fields(checked).sources = <<>> /\ Fields(checked).urls = <<>>
BY DEF Fields, EmptyForm

\* Nothing checked, and the fallbacks find nothing either.
LEMMA NothingChecked == BatchPayloads(Fields({})) = <<>>
<1> DEFINE form == Fields({})
<1>1. form.selected = <<>> /\ form.sources = <<>> /\ form.urls = <<>>
  BY FieldsOfForm, OrderOfNone
<1> HIDE DEF form
<1>2. SourcePayloads(form) = <<>>
  <2> DEFINE given == Only(form.sources, {n \in DOMAIN form.sources :
                                           form.sources[n] # NoUrl})
  <2>1. given = <<>>
    BY <1>1, NothingLeft
  <2> HIDE DEF given
  <2> DEFINE urls == WithoutDuplicates(given)
  <2>2. urls = <<>>
    BY <2>1, NothingLeft DEF WithoutDuplicates
  <2> HIDE DEF urls
  <2>3. [n \in DOMAIN urls |-> Payload(urls[n], "none", NoSelection)] = <<>>
    BY <2>2
  <2> QED BY <2>3 DEF SourcePayloads, urls, given
<1>3. PositionalPayloads(form) = <<>>
  <2> DEFINE rows == [n \in DOMAIN form.urls |->
                        Payload(form.urls[n], At(form.durations, n, "none"),
                                [video |-> At(form.videoIds, n, NoId),
                                 audio |-> At(form.audioIds, n, NoId),
                                 bitrate |-> FALSE])]
  <2>1. rows = <<>>
    BY <1>1
  <2> HIDE DEF rows
  <2>2. WithUrl(rows) = <<>>
    BY <2>1, NothingLeft DEF WithUrl
  <2> QED BY <2>2 DEF PositionalPayloads, rows
<1> QED BY <1>1, <1>2, <1>3 DEF BatchPayloads, form

\* The cards that are checked, in their order, and nothing else.
LEMMA CheckedPayloads ==
  ASSUME PageOK, NEW checked \in SUBSET Ready, NEW asked,
         asked = [n \in 1 .. Cardinality(checked) |-> Shown(InOrder(checked)[n])]
  PROVE  BatchPayloads(Fields(checked)) = asked /\ Asks(asked)
<1> DEFINE m == Cardinality(checked)
           s == InOrder(checked)
           form == Fields(checked)
<1>1. checked \in SUBSET Nat /\ IsFiniteSet(checked)
  BY FS_Subset DEF PageOK, Ready
<1>2. /\ m \in Nat /\ s \in [1 .. m -> checked]
      /\ \A n, k \in 1 .. m : s[n] = s[k] => n = k
  BY <1>1, OrderProperties
<1>3. form.selected = s /\ form.cards = [i \in Ready |-> Shown(i)]
  BY FieldsOfForm
<1>4. asked = [n \in 1 .. m |-> Shown(s[n])]
  OBVIOUS
<1>5. m = 0 <=> checked = {}
  BY <1>1, FS_EmptySet
<1> HIDE DEF m, s
<1>6. Asks(asked)
  <2>1. ASSUME NEW n \in 1 .. m PROVE CanAsk(asked[n])
    <3>1. asked[n] = Shown(s[n]) /\ s[n] \in Ready
      BY <1>2, <1>4
    <3> QED BY <3>1, CardsCanAsk
  <2> DEFINE S == {asked[n] : n \in 1 .. m}
  <2>2. asked \in [1 .. m -> S] /\ \A p \in S : CanAsk(p)
    BY <1>4, <2>1
  <2> HIDE DEF S
  <2>3. asked \in Seq(S)
    <3>1. asked \in UNION {[1 .. n -> S] : n \in Nat}
      BY <1>2, <2>2
    <3> QED BY <3>1, SeqDef
  <2> QED BY <2>2, <2>3, AsksAll
<1>7. CASE checked = {}
  <2>1. asked = <<>>
    BY <1>4, <1>5, <1>7
  <2> QED BY <1>6, <1>7, <2>1, NothingChecked
<1>8. CASE checked # {}
  <2> HIDE DEF form
  <2>1. s # <<>>
    BY <1>2, <1>5, <1>8
  <2>2. WithoutDuplicates(s) = s
    <3>1. {i \in DOMAIN s : \A k \in 1 .. (i - 1) : s[k] # s[i]} = 1 .. m
      BY <1>2
    <3> QED BY <1>2, <3>1, OnlyAll DEF WithoutDuplicates
  <2>3. Only(s, {n \in DOMAIN s : s[n] # NotIndex /\ s[n] \in DOMAIN form.cards}) = s
    <3>1. \A n \in 1 .. m : s[n] # NotIndex /\ s[n] \in DOMAIN form.cards
      BY <1>1, <1>2, <1>3, IndexAssumption
    <3>2. {n \in DOMAIN s : s[n] # NotIndex /\ s[n] \in DOMAIN form.cards} = 1 .. m
      BY <1>2, <3>1
    <3> QED BY <1>2, <3>2, OnlyAll
  <2>4. [n \in DOMAIN s |-> form.cards[s[n]]] = asked
    BY <1>2, <1>3, <1>4
  <2>5. WithUrl(asked) = asked
    <3>1. {n \in DOMAIN asked : asked[n].url # NoUrl} = 1 .. m
      BY <1>2, <1>4, CardsCanAsk
    <3> QED BY <1>2, <1>4, <3>1, OnlyAll DEF WithUrl
  <2>6. IndexedPayloads(form) = asked
    <3> DEFINE once == WithoutDuplicates(form.selected)
               indices == Only(once, {n \in DOMAIN once : once[n] # NotIndex
                                        /\ once[n] \in DOMAIN form.cards})
    <3>1. once = s
      BY <1>3, <2>2
    <3>2. indices = s
      BY <3>1, <2>3
    <3> HIDE DEF indices
    <3>3. WithUrl([n \in DOMAIN indices |-> form.cards[indices[n]]]) = asked
      BY <3>2, <2>4, <2>5
    <3> QED BY <3>3 DEF IndexedPayloads, indices
  <2>7. BatchPayloads(form) = asked
    BY <1>3, <2>1, <2>6 DEF BatchPayloads
  <2> QED BY <1>6, <2>7 DEF form
<1> QED BY <1>7, <1>8

-----------------------------------------------------------------------------
(***************************************************************************)
(* What the selector lets yt-dlp take: the picked streams, or with a       *)
(* bitrate one stream of audio in their place.                             *)
(***************************************************************************)
LEMMA FirstUsable ==
  ASSUME NEW alternatives, DOMAIN alternatives \subseteq {1, 2},
         NEW usable, usable = {n \in DOMAIN alternatives : alternatives[n] # {}},
         usable # {}
  PROVE  (CHOOSE n \in usable : \A k \in usable : n <= k) \in usable
<1>1. usable = {1} \/ usable = {2} \/ usable = {1, 2}
  OBVIOUS
<1>2. \E n \in usable : \A k \in usable : n <= k
  BY <1>1
<1> QED BY <1>2

LEMMA SomeAlternative ==
  ASSUME NEW s, NEW formats, DOMAIN Selector(s, formats) \subseteq {1, 2},
         NEW streams \in Selections(s, formats)
  PROVE  \E n \in DOMAIN Selector(s, formats) : streams \in Selector(s, formats)[n]
<1> DEFINE alternatives == Selector(s, formats)
           usable == {n \in DOMAIN alternatives : alternatives[n] # {}}
           first == CHOOSE n \in usable : \A k \in usable : n <= k
<1>1. usable # {} /\ streams \in alternatives[first]
  BY DEF Selections
<1>2. first \in usable
  BY <1>1, FirstUsable
<1> QED BY <1>1, <1>2

LEMMA ExactlyThese ==
  ASSUME NEW ids, NEW formats, NEW streams \in Exactly(ids, formats)
  PROVE  streams = ids
BY DEF Exactly

LEMMA SelectionsArePicked ==
  ASSUME NEW p, CanAsk(p), NEW formats, NEW streams \in Selections(p.selection, formats)
  PROVE  \/ Picked(p) = {} \/ streams = Picked(p)
         \/ p.selection.bitrate /\ Cardinality(Picked(p)) = 2 /\ Cardinality(streams) = 1
<1> DEFINE s == p.selection
           both == s.video # NoId /\ s.audio # NoId
<1>1. CASE s.video = NoId /\ s.audio = NoId
  BY <1>1 DEF Picked
<1>2. CASE both /\ s.bitrate
  <2>1. Selector(s, formats) = <<Exactly({s.video, s.audio}, formats), BestAudio(formats)>>
    BY <1>2 DEF Selector
  <2>2. streams \in Exactly({s.video, s.audio}, formats) \/ streams \in BestAudio(formats)
    BY <2>1, SomeAlternative
  <2>3. Picked(p) = {s.video, s.audio}
    BY <1>2 DEF Picked
  <2>4. CASE streams \in Exactly({s.video, s.audio}, formats)
    BY <2>3, <2>4, ExactlyThese
  <2>5. CASE streams \in BestAudio(formats)
    <3>1. Cardinality(streams) = 1
      BY <2>5, FS_Singleton DEF BestAudio
    <3>2. s.video # s.audio
      BY <1>2 DEF CanAsk
    <3>3. IsFiniteSet({s.video}) /\ Cardinality({s.video}) = 1
      BY FS_Singleton
    <3>4. Cardinality({s.video} \cup {s.audio}) = 2
      BY <3>2, <3>3, FS_AddElement
    <3>5. {s.video} \cup {s.audio} = Picked(p)
      BY <2>3
    <3> QED BY <1>2, <3>1, <3>4, <3>5
  <2> QED BY <2>2, <2>4, <2>5
<1>3. CASE ~(s.video = NoId /\ s.audio = NoId) /\ ~(both /\ s.bitrate)
  <2>1. Selector(s, formats) = <<Exactly({s.video, s.audio} \ {NoId}, formats)>>
    BY <1>3 DEF Selector
  <2>2. streams \in Exactly({s.video, s.audio} \ {NoId}, formats)
    BY <2>1, SomeAlternative
  <2> QED BY <2>2, ExactlyThese DEF Picked
<1> QED BY <1>1, <1>2, <1>3

-----------------------------------------------------------------------------
(***************************************************************************)
(* One request, step by step.                                              *)
(***************************************************************************)
LEMMA AsksType ==
  ASSUME NEW s, Asks(s)
  PROVE  /\ Len(s) \in Nat /\ DOMAIN s = 1 .. Len(s)
         /\ \A n \in 1 .. Len(s) : CanAsk(s[n])
<1>1. \A n \in 1 .. Len(s) : s[n] \in {p \in ToSet(s) : CanAsk(p)}
  BY ElementOfSeq DEF Asks
<1> QED BY <1>1, LenProperties DEF Asks

LEMMA MoveOne ==
  ASSUME NEW S, NEW s \in Seq(S), NEW t \in Seq(S), t # <<>>
  PROVE  /\ Append(s, Head(t)) \in Seq(S) /\ Tail(t) \in Seq(S)
         /\ Append(s, Head(t)) \o Tail(t) = s \o t
         /\ Len(Append(s, Head(t))) = Len(s) + 1
<1>1. t = <<Head(t)>> \o Tail(t) /\ Head(t) \in S /\ Tail(t) \in Seq(S)
  BY HeadTailProperties, HeadTailAppend, ConcatProperties
<1>2. Append(s, Head(t)) = s \o <<Head(t)>> /\ <<Head(t)>> \in Seq(S)
  BY <1>1, AppendIsConcat
<1>3. (s \o <<Head(t)>>) \o Tail(t) = s \o (<<Head(t)>> \o Tail(t))
  BY <1>1, <1>2, ConcatAssociative
<1> QED BY <1>1, <1>2, <1>3, AppendProperties

LEMMA PrefixOfConcat ==
  ASSUME NEW S, NEW s \in Seq(S), NEW t \in Seq(S)
  PROVE  s = SubSeq(s \o t, 1, Len(s)) /\ Len(s) <= Len(s \o t)
<1>1. /\ Len(s) \in Nat /\ Len(t) \in Nat /\ s \o t \in Seq(S)
      /\ Len(s \o t) = Len(s) + Len(t)
      /\ \A i \in 1 .. Len(s) : (s \o t)[i] = s[i] /\ s[i] \in S
  BY LenProperties, ConcatProperties, ElementOfSeq
<1>2. /\ SubSeq(s \o t, 1, Len(s)) \in Seq(S)
      /\ Len(SubSeq(s \o t, 1, Len(s))) = Len(s)
      /\ \A i \in 1 .. Len(s) : SubSeq(s \o t, 1, Len(s))[i] = s[i]
  <2>1. \A i \in 1 .. Len(s) : (s \o t)[i] \in S
    BY <1>1
  <2> QED BY <1>1, <2>1, SubSeqProperties
<1>3. s = SubSeq(s \o t, 1, Len(s))
  BY <1>2, SeqEqual
<1> QED BY <1>1, <1>3

LEMMA FirstOfRest ==
  ASSUME NEW S, NEW s \in Seq(S), NEW t \in Seq(S), t # <<>>
  PROVE  /\ Head(t) \in S /\ Head(t) = (s \o t)[Len(s) + 1]
         /\ Len(s) + 1 \in DOMAIN (s \o t)
<1>1. Len(s) \in Nat /\ Len(t) \in Nat \ {0} /\ Head(t) = t[1] /\ Head(t) \in S
  BY LenProperties, EmptySeq, HeadTailProperties
<1>2. s \o t \in Seq(S) /\ Len(s \o t) = Len(s) + Len(t)
  BY ConcatProperties
<1>3. DOMAIN (s \o t) = 1 .. (Len(s) + Len(t))
  BY <1>2, LenProperties
<1>4. Len(s) + 1 \in 1 .. (Len(s) + Len(t)) /\ Len(s) + 1 - Len(s) = 1
      /\ ~(Len(s) + 1 <= Len(s))
  BY <1>1
<1>5. (s \o t)[Len(s) + 1] = t[1]
  BY <1>4, ConcatProperties
<1> QED BY <1>1, <1>3, <1>4, <1>5

LEMMA CommonSet ==
  ASSUME NEW q, RequestOK(q)
  PROVE  \E S : /\ \A p \in S : CanAsk(p)
                /\ q.asked \in Seq(S) /\ q.rows \in Seq(S) /\ q.todo \in Seq(S)
<1> DEFINE Part(s) == {p \in ToSet(s) : CanAsk(p)}
           S == Part(q.asked) \cup Part(q.rows) \cup Part(q.todo)
<1>1. q.asked \in Seq(Part(q.asked)) /\ q.rows \in Seq(Part(q.rows))
      /\ q.todo \in Seq(Part(q.todo))
  BY DEF RequestOK, Asks
<1>2. \A p \in S : CanAsk(p)
  OBVIOUS
<1>3. Part(q.asked) \subseteq S /\ Part(q.rows) \subseteq S /\ Part(q.todo) \subseteq S
  OBVIOUS
<1> HIDE DEF Part, S
<1>4. q.asked \in Seq(S) /\ q.rows \in Seq(S) /\ q.todo \in Seq(S)
  BY <1>1, <1>3, SeqMonotonic
<1> QED BY <1>2, <1>4

LEMMA NothingAsks == Asks(<<>>) /\ Builds(<<>>)
BY DEF Asks, ToSet, Builds

LEMMA RequestComes ==
  ASSUME NEW by, NEW asked, Asks(asked), NEW q,
         q = [by |-> by, asked |-> asked, rows |-> <<>>,
              todo  |-> IF Builds(asked) THEN asked ELSE <<>>,
              reply |-> IF Builds(asked) THEN "none" ELSE "error"]
  PROVE  RequestOK(q)
<1> DEFINE S == {p \in ToSet(asked) : CanAsk(p)}
<1>1. asked \in Seq(S)
  BY DEF Asks
<1> HIDE DEF S
<1>2. <<>> \o asked = asked /\ <<>> = SubSeq(<<>> \o asked, 1, 0)
      /\ Len(<<>>) = 0 /\ Len(asked) \in Nat
  BY <1>1, ConcatEmptySeq, EmptySeq, PrefixOfConcat, LenProperties
<1>3. CASE Builds(asked)
  BY <1>2, <1>3, NothingAsks DEF RequestOK
<1>4. CASE ~Builds(asked)
  BY <1>2, <1>4, NothingAsks DEF RequestOK
<1> QED BY <1>3, <1>4

LEMMA RequestInserts ==
  ASSUME NEW q, RequestOK(q), q.reply = "none", q.todo # <<>>, NEW new,
         new = [q EXCEPT !.todo = Tail(@), !.rows = Append(@, Head(q.todo))]
  PROVE  /\ RequestOK(new)
         /\ Head(q.todo) = At(q.asked, Len(q.rows) + 1, NoPayload)
         /\ CanAsk(Head(q.todo))
<1>1. PICK S : /\ \A p \in S : CanAsk(p)
               /\ q.asked \in Seq(S) /\ q.rows \in Seq(S) /\ q.todo \in Seq(S)
  BY CommonSet
<1> DEFINE rows == Append(q.rows, Head(q.todo))
<1>2. /\ rows \in Seq(S) /\ Tail(q.todo) \in Seq(S)
      /\ rows \o Tail(q.todo) = q.asked
  BY <1>1, MoveOne DEF RequestOK
<1>3. /\ DOMAIN new = {"by", "asked", "rows", "todo", "reply"}
      /\ new.asked = q.asked /\ new.rows = rows /\ new.todo = Tail(q.todo)
      /\ new.reply = "none"
  BY DEF RequestOK
<1> HIDE DEF rows
<1>4. Asks(rows) /\ Asks(Tail(q.todo)) /\ Asks(q.asked)
  BY <1>1, <1>2, AsksAll
<1>5. rows = SubSeq(q.asked, 1, Len(rows)) /\ Len(rows) <= Len(q.asked)
  BY <1>2, PrefixOfConcat
<1>6. Builds(q.asked)
  BY DEF RequestOK
<1>7. RequestOK(new)
  BY <1>2, <1>3, <1>4, <1>5, <1>6 DEF RequestOK
<1>8. Head(q.todo) = q.asked[Len(q.rows) + 1] /\ Len(q.rows) + 1 \in DOMAIN q.asked
      /\ Head(q.todo) \in S
  <2>1. q.asked = q.rows \o q.todo
    BY DEF RequestOK
  <2> QED BY <1>1, <2>1, FirstOfRest
<1> QED BY <1>1, <1>7, <1>8 DEF At

LEMMA RequestEnds ==
  ASSUME NEW q, RequestOK(q), NEW reply \in {"error", "lost"}, NEW new,
         new = [q EXCEPT !.todo = <<>>, !.reply = reply]
  PROVE  RequestOK(new)
<1>1. /\ DOMAIN new = {"by", "asked", "rows", "todo", "reply"}
      /\ new.asked = q.asked /\ new.rows = q.rows /\ new.todo = <<>>
      /\ new.reply = reply
  BY DEF RequestOK
<1> QED BY <1>1, NothingAsks DEF RequestOK

LEMMA RequestAnswered ==
  ASSUME NEW q, RequestOK(q), q.reply = "none", q.todo = <<>>, NEW new,
         new = [q EXCEPT !.reply = "added"]
  PROVE  RequestOK(new)
<1>1. /\ DOMAIN new = {"by", "asked", "rows", "todo", "reply"}
      /\ new.asked = q.asked /\ new.rows = q.rows /\ new.todo = q.todo
      /\ new.reply = "added"
  BY DEF RequestOK
<1> QED BY <1>1 DEF RequestOK

LEMMA AnswersAreTrue == RequestsOK => RepliesAreTrue
<1> SUFFICES ASSUME RequestsOK, NEW r \in DOMAIN requests, NEW q, q = requests[r]
             PROVE  /\ q.reply = "added" => q.rows = q.asked
                    /\ IsPrefix(q.rows, q.asked)
                    /\ ~Builds(q.asked) => q.rows = <<>>
  BY DEF RepliesAreTrue
<1>1. RequestOK(q)
  BY DEF RequestsOK
<1>2. PICK S : /\ \A p \in S : CanAsk(p)
               /\ q.asked \in Seq(S) /\ q.rows \in Seq(S) /\ q.todo \in Seq(S)
  BY <1>1, CommonSet
<1>3. q.reply = "added" => q.rows = q.asked
  BY <1>1, <1>2, ConcatEmptySeq DEF RequestOK
<1>4. SubSeq(q.rows, 1, Len(q.rows)) = q.rows
  BY <1>2, SubSeqFull
<1>5. IsPrefix(q.rows, q.asked)
  BY <1>1, <1>4 DEF RequestOK, IsPrefix
<1> QED BY <1>1, <1>3, <1>5 DEF RequestOK

-----------------------------------------------------------------------------
(***************************************************************************)
(* The promise, part by part: what each step does to the part it disturbs. *)
(***************************************************************************)
LEMMA PageGoesOn ==
  ASSUME PageOK, UNCHANGED page \/ page' = <<>> PROVE PageOK'
<1>1. CASE UNCHANGED page
  BY <1>1 DEF PageOK, Ready
<1>2. CASE page' = <<>>
  <2>1. DOMAIN page' = {}
    BY <1>2
  <2>2. Ready' = {}
    BY <2>1 DEF Ready
  <2> QED BY <2>1, <2>2, FS_EmptySet DEF PageOK
<1> QED BY <1>1, <1>2

LEMMA PreviewIsOK ==
  ASSUME OfferedOK, NEW urls \in Listings, NEW failed, NEW fractions,
         Preview(urls, failed, fractions)
  PROVE  PageOK'
<1> DEFINE NewCard(i) ==
             IF i \in failed THEN FailedCard(urls[i])
             ELSE Card(urls[i], IF i \in fractions THEN "fraction" ELSE "whole",
                       offered[urls[i]])
<1>1. page' = [i \in DOMAIN urls |-> NewCard(i)]
  BY DEF Preview
<1>2. urls \in Seq(Videos)
  BY ListingsAssumption
<1>3. Len(urls) \in Nat /\ DOMAIN urls = 1 .. Len(urls)
        /\ \A i \in DOMAIN urls : urls[i] \in Videos
  BY <1>2, LenProperties, ElementOfSeq
<1>4. IsFiniteSet(DOMAIN urls) /\ DOMAIN urls \subseteq Nat
  BY <1>3, FS_Interval
<1>5. ASSUME NEW i \in DOMAIN urls, NewCard(i).formats # {} PROVE CardOK(NewCard(i))
  <2>1. i \notin failed
    BY <1>5 DEF FailedCard, Card
  <2>2. PICK duration \in {"whole", "fraction"} :
          NewCard(i) = Card(urls[i], duration, offered[urls[i]])
    BY <2>1
  <2> HIDE DEF NewCard
  <2> QED BY <1>3, <2>2 DEF CardOK, Card, NoSelection, OfferedOK
<1> HIDE DEF NewCard
<1>6. DOMAIN page' = DOMAIN urls /\ \A i \in Ready' : CardOK(page'[i])
  BY <1>1, <1>5 DEF Ready
<1> QED BY <1>4, <1>6 DEF PageOK

\* What Pick puts on a card is of the card's own formats.
LEMMA PickIsOK ==
  ASSUME PageOK, NEW i \in Ready, NEW selection, Pick(i, selection),
         DOMAIN selection = {"video", "audio", "bitrate"},
         selection.video \in IdsOfKind(page[i].formats, "video") \cup {NoId},
         selection.audio \in IdsOfKind(page[i].formats, "audio") \cup {NoId}
  PROVE  PageOK'
<1> DEFINE new == [page[i] EXCEPT !.selection = selection]
<1>1. CardOK(page[i])
  BY DEF PageOK
<1>2. /\ DOMAIN new = DOMAIN page[i] /\ new.selection = selection
      /\ new.url = page[i].url /\ new.formats = page[i].formats
      /\ new.duration = page[i].duration
  BY <1>1 DEF CardOK
<1>3. page' = [page EXCEPT ![i] = new]
  BY Zenon DEF Pick
<1> HIDE DEF new
<1>4. CardOK(new)
  BY <1>1, <1>2 DEF CardOK
<1>5. DOMAIN page' = DOMAIN page
        /\ \A k \in DOMAIN page : page'[k] = IF k = i THEN new ELSE page[k]
  BY <1>3 DEF Ready
<1>6. Ready' = Ready
  BY <1>2, <1>5 DEF Ready
<1> QED BY <1>4, <1>5, <1>6 DEF PageOK, Ready

LEMMA PicksAreOK ==
  ASSUME PageOK, NEW i \in Ready, PickVideo(i) \/ PickAudio(i) \/ SetBitrate(i)
  PROVE  PageOK'
<1> DEFINE s == page[i].selection
<1>1. CardOK(page[i])
  BY DEF PageOK
<1>2. CASE PickVideo(i)
  <2>1. PICK id \in IdsOfKind(page[i].formats, "video") :
          Pick(i, [s EXCEPT !.video = Toggle(@, id)])
    BY <1>2 DEF PickVideo
  <2> DEFINE new == [s EXCEPT !.video = Toggle(@, id)]
  <2>2. /\ DOMAIN new = {"video", "audio", "bitrate"}
        /\ new.video = Toggle(s.video, id) /\ new.audio = s.audio
    BY <1>1 DEF CardOK
  <2>3. Pick(i, new)
    BY <2>1
  <2> HIDE DEF new
  <2> QED BY <1>1, <2>2, <2>3, PickIsOK DEF CardOK, Toggle
<1>3. CASE PickAudio(i)
  <2>1. PICK id \in IdsOfKind(page[i].formats, "audio") :
          Pick(i, [s EXCEPT !.audio = Toggle(@, id)])
    BY <1>3 DEF PickAudio
  <2> DEFINE new == [s EXCEPT !.audio = Toggle(@, id)]
  <2>2. /\ DOMAIN new = {"video", "audio", "bitrate"}
        /\ new.audio = Toggle(s.audio, id) /\ new.video = s.video
    BY <1>1 DEF CardOK
  <2>3. Pick(i, new)
    BY <2>1
  <2> HIDE DEF new
  <2> QED BY <1>1, <2>2, <2>3, PickIsOK DEF CardOK, Toggle
<1>4. CASE SetBitrate(i)
  <2> DEFINE new == [s EXCEPT !.bitrate = ~@]
  <2>1. /\ DOMAIN new = {"video", "audio", "bitrate"}
        /\ new.audio = s.audio /\ new.video = s.video
    BY <1>1 DEF CardOK
  <2>2. Pick(i, new)
    BY <1>4 DEF SetBitrate
  <2> HIDE DEF new
  <2> QED BY <1>1, <2>1, <2>2, PickIsOK DEF CardOK
<1> QED BY <1>2, <1>3, <1>4

-----------------------------------------------------------------------------
LEMMA HandleIsOK ==
  ASSUME IntakeInv, RequestsOK, NEW by, NEW asked, Asks(asked),
         Handle(by, asked, asked)
  PROVE  RequestsOK'
<1> DEFINE q == [by |-> by, asked |-> asked, rows |-> <<>>,
                 todo  |-> IF Builds(asked) THEN asked ELSE <<>>,
                 reply |-> IF Builds(asked) THEN "none" ELSE "error"]
<1>1. requests' = Append(requests, q)
  BY Zenon DEF Handle
<1>2. RequestOK(q)
  BY RequestComes, Zenon
<1> HIDE DEF q
<1>3. /\ IsSequence(requests') /\ Len(requests) \in Nat
      /\ DOMAIN requests = 1 .. Len(requests)
      /\ DOMAIN requests' = 1 .. (Len(requests) + 1)
      /\ \A i \in DOMAIN requests : requests'[i] = requests[i]
  BY <1>1, AppendIsSequence DEF IntakeInv
<1>4. requests'[Len(requests) + 1] = q
  BY <1>1, <1>3, AppendProperties DEF IntakeInv, IsSequence
<1> QED BY <1>2, <1>3, <1>4 DEF RequestsOK

\* One request goes on, the others stay.
LEMMA OneGoesOn ==
  ASSUME RequestsOK, NEW r \in DOMAIN requests, NEW new, RequestOK(new),
         requests' = [requests EXCEPT ![r] = new]
  PROVE  RequestsOK'
BY DEF RequestsOK

-----------------------------------------------------------------------------
(* Rows, what they ask for, the worker's call and what it brought. *)

RowsOK == ColumnsOK /\ WorkerOK /\ TookOK /\ DownloadedAsPicked

LEMMA RowsAlone ==
  ASSUME RowsOK, UNCHANGED <<downloads, columns, worker, origin, took>>
  PROVE  RowsOK'
BY DEF RowsOK, ColumnsOK, WorkerOK, TookOK, DownloadedAsPicked, Exists

LEMMA ColumnsKept ==
  ASSUME ColumnsOK, SameRows, UNCHANGED <<columns, origin>> PROVE ColumnsOK'
BY DEF ColumnsOK, SameRows

LEMMA TookKept ==
  ASSUME TookOK, SameRows, UNCHANGED took PROVE TookOK'
BY DEF TookOK, SameRows

LEMMA NothingTakenOK ==
  ASSUME took' = NothingTaken PROVE TookOK' /\ DownloadedAsPicked'
BY DEF NothingTaken, TookOK, DownloadedAsPicked

LEMMA RestingOK == ASSUME worker' = Resting PROVE WorkerOK'
BY DEF Resting, WorkerOK

LEMMA InsertIsOK ==
  ASSUME TableOK, RequestsOK, RowsOK, NEW r \in DOMAIN requests, NEW j \in Ids,
         Insert(r, j)
  PROVE  RequestsOK' /\ RowsOK'
<1> DEFINE q == requests[r]
           new == [q EXCEPT !.todo = Tail(@), !.rows = Append(@, Head(q.todo))]
           asked == At(q.asked, Len(q.rows) + 1, NoPayload)
<1>1. RequestOK(q) /\ q.reply = "none" /\ q.todo # <<>>
  BY DEF RequestsOK, Insert, Open
<1>2. requests' = [requests EXCEPT ![r] = new]
  BY Zenon DEF Insert
<1>3. RequestOK(new) /\ Head(q.todo) = asked /\ CanAsk(Head(q.todo))
  BY <1>1, RequestInserts, Zenon
<1>4. /\ columns' = [columns EXCEPT ![j] = Head(q.todo)]
      /\ origin' = [origin EXCEPT ![j] = [request |-> r, asked |-> asked]]
      /\ EnqueueDownload(j, 0) /\ UNCHANGED <<worker, took>>
  BY DEF Insert
<1> HIDE DEF q, new, asked
<1>5. RequestsOK'
  BY <1>2, <1>3, OneGoesOn
<1>6. /\ \A k \in Ids : Exists(k)' <=> k = j \/ Exists(k)
      /\ ~Exists(j) /\ \A k \in Ids \ {j} : downloads'[k] = downloads[k]
  <2>1. ~Exists(j)
    BY <1>4 DEF EnqueueDownload, IsNextId, Ids
  <2> QED BY <1>4, <2>1, EnqueueAddsLast DEF EnqueueDownload, TableOK
<1>7. ColumnsOK'
  <2>1. DOMAIN columns' = Ids /\ DOMAIN origin' = Ids
    BY <1>4 DEF RowsOK, ColumnsOK
  <2>2. columns'[j] = asked /\ origin'[j].asked = asked /\ CanAsk(asked)
    BY <1>3, <1>4 DEF RowsOK, ColumnsOK
  <2>3. \A k \in Ids \ {j} : columns'[k] = columns[k] /\ origin'[k] = origin[k]
    BY <1>4 DEF RowsOK, ColumnsOK
  <2> QED BY <1>6, <2>1, <2>2, <2>3 DEF RowsOK, ColumnsOK
<1>8. WorkerOK'
  <2>1. worker # Resting => worker.id # j
    BY <1>6 DEF RowsOK, WorkerOK, Exists
  <2>2. worker # Resting => columns'[worker.id] = columns[worker.id]
                              /\ downloads'[worker.id] = downloads[worker.id]
    BY <1>4, <1>6, <2>1 DEF RowsOK, WorkerOK, ColumnsOK
  <2> QED BY <1>4, <2>2 DEF RowsOK, WorkerOK
<1>9. TookOK' /\ DownloadedAsPicked'
  <2>1. took.streams # {} => took.id # j /\ took.id \in Ids
    BY <1>6 DEF RowsOK, TookOK
  <2>2. took.streams # {} => origin'[took.id] = origin[took.id]
    BY <1>4, <2>1 DEF RowsOK, ColumnsOK
  <2>3. DownloadedAsPicked'
    BY <1>4, <2>2 DEF RowsOK, DownloadedAsPicked
  <2> QED BY <1>4, <1>6, <2>3 DEF RowsOK, TookOK
<1> QED BY <1>5, <1>7, <1>8, <1>9 DEF RowsOK

LEMMA HandlerEndsOK ==
  ASSUME RequestsOK, RowsOK, NEW r \in DOMAIN requests, InsertFails(r) \/ Answer(r)
  PROVE  RequestsOK' /\ RowsOK'
<1> DEFINE q == requests[r]
<1>1. RequestOK(q) /\ q.reply = "none"
  BY DEF RequestsOK, InsertFails, Answer, Open
<1>2. RowsOK'
  BY RowsAlone DEF InsertFails, Answer, serverVars
<1>3. CASE InsertFails(r)
  <2> DEFINE new == [q EXCEPT !.todo = <<>>, !.reply = "error"]
  <2>1. RequestOK(new)
    BY <1>1, RequestEnds, Zenon
  <2>2. requests' = [requests EXCEPT ![r] = new]
    BY <1>3, Zenon DEF InsertFails
  <2> HIDE DEF new
  <2> QED BY <1>2, <2>1, <2>2, OneGoesOn
<1>4. CASE Answer(r)
  <2> DEFINE new == [q EXCEPT !.reply = "added"]
  <2>1. q.todo = <<>>
    BY <1>4 DEF Answer
  <2>2. RequestOK(new)
    BY <1>1, <2>1, RequestAnswered, Zenon
  <2>3. requests' = [requests EXCEPT ![r] = new]
    BY <1>4, Zenon DEF Answer
  <2> HIDE DEF new
  <2> QED BY <1>2, <2>2, <2>3, OneGoesOn
<1> QED BY <1>3, <1>4

LEMMA WorkerIsOK == ASSUME TableOK, RowsOK, Worker PROVE RowsOK'
<1>1. ASSUME NEW j \in Ids, Claim(j) PROVE RowsOK'
  <2>1. SameRows /\ downloads'[j].status = "active"
    <3>1. downloads[j] \in Row
      BY <1>1 DEF TableOK, Claim, ClaimNext, Claimable, Absent
    <3> QED BY <1>1, <3>1, ClaimKeepsRows DEF Claim, ClaimNext, TableOK, Row
  <2>2. worker' = [at |-> "claimed", id |-> j, call |-> NoPayload]
    BY <1>1 DEF Claim, Resting
  <2>3. WorkerOK'
    BY <2>1, <2>2 DEF WorkerOK
  <2> QED BY <1>1, <2>1, <2>3, ColumnsKept, NothingTakenOK DEF RowsOK, Claim
<1>2. CASE ClaimNothing
  BY <1>2, RowsAlone DEF ClaimNothing, intakeVars, serverVars
<1>3. CASE ReadJob
  <2>1. worker # Resting
    BY <1>3 DEF ReadJob, Resting
  <2>2. UNCHANGED <<downloads, columns, origin, took>>
    BY <1>3 DEF ReadJob
  <2>3. /\ DOMAIN worker' = {"at", "id", "call"} /\ worker'.id = worker.id
        /\ worker'.at = "called" /\ worker'.call = columns[worker.id]
    BY <1>3 DEF ReadJob, RowsOK, WorkerOK
  <2>4. worker' # Resting
    BY <2>3 DEF Resting
  <2>5. WorkerOK'
    BY <2>1, <2>2, <2>3, <2>4 DEF RowsOK, WorkerOK
  <2>6. ColumnsOK' /\ TookOK' /\ DownloadedAsPicked'
    BY <2>2 DEF RowsOK, ColumnsOK, TookOK, DownloadedAsPicked, Exists
  <2> QED BY <2>5, <2>6 DEF RowsOK
<1>4. ASSUME NEW outcome \in {"done", "error"}, NEW streams, Download(outcome, streams),
             streams # {} => \E formats :
                               streams \in Selections(worker.call.selection, formats)
      PROVE  RowsOK'
  <2>1. SameRows /\ UNCHANGED <<columns, origin>> /\ worker' = Resting
    BY <1>4, ReleaseKeepsRows DEF Download
  <2>2. /\ took'.id = worker.id /\ took'.url = worker.call.url
        /\ took'.streams = streams
    BY <1>4 DEF Download
  <2>3. /\ worker.id \in Ids /\ Exists(worker.id)
        /\ worker.call = columns[worker.id]
    BY <1>4 DEF Download, RowsOK, WorkerOK, Exists
  <2>4. worker.call = origin[worker.id].asked /\ CanAsk(worker.call)
    BY <2>3 DEF RowsOK, ColumnsOK
  <2>5. TookOK'
    BY <2>1, <2>2, <2>3, <2>4 DEF TookOK, SameRows, CanAsk
  <2>6. DownloadedAsPicked'
    <3> SUFFICES ASSUME streams # {}
                 PROVE  \/ Picked(worker.call) = {} \/ streams = Picked(worker.call)
                        \/ /\ worker.call.selection.bitrate
                           /\ Cardinality(Picked(worker.call)) = 2
                           /\ Cardinality(streams) = 1
      BY <2>1, <2>2, <2>4 DEF DownloadedAsPicked
    <3>1. PICK formats : streams \in Selections(worker.call.selection, formats)
      BY <1>4
    <3> QED BY <2>4, <3>1, SelectionsArePicked
  <2> QED BY <2>1, <2>5, <2>6, ColumnsKept, RestingOK DEF RowsOK
<1> QED BY <1>1, <1>2, <1>3, <1>4 DEF Worker, DownloadFinishes, DownloadFails

\* A row that is deleted is done: it is not the worker's.
LEMMA DeletedIsOK ==
  ASSUME TableOK, RowsOK, NEW j \in Ids, Deleted(j) PROVE RowsOK'
<1>1. /\ downloads[j].status = "done" /\ downloads' = [downloads EXCEPT ![j] = Absent]
      /\ columns' = [columns EXCEPT ![j] = NoPayload]
      /\ origin' = [origin EXCEPT ![j] = NoOrigin]
      /\ took' = NothingTaken /\ UNCHANGED worker
  BY DEF Deleted
<1>2. /\ \A k \in Ids : Exists(k)' <=> k # j /\ Exists(k)
      /\ \A k \in Ids \ {j} : downloads'[k] = downloads[k]
  BY <1>1, DeletionKeepsOthers DEF TableOK
<1>3. /\ DOMAIN columns' = Ids /\ DOMAIN origin' = Ids
      /\ columns'[j] = NoPayload /\ origin'[j].asked = NoPayload
      /\ \A k \in Ids \ {j} : columns'[k] = columns[k] /\ origin'[k] = origin[k]
  BY <1>1 DEF RowsOK, ColumnsOK, NoOrigin
<1>4. ColumnsOK'
  BY <1>2, <1>3 DEF RowsOK, ColumnsOK
<1>5. worker # Resting => worker.id \in Ids \ {j}
  BY <1>1 DEF RowsOK, WorkerOK
<1>6. WorkerOK'
  BY <1>1, <1>2, <1>3, <1>5 DEF RowsOK, WorkerOK
<1> QED BY <1>1, <1>4, <1>6, NothingTakenOK DEF RowsOK

LEMMA RestartIsOK ==
  ASSUME TableOK, RequestsOK, RowsOK, Restart PROVE RequestsOK' /\ RowsOK'
<1>1. SameRows
  BY RequeueKeepsRows DEF Restart
<1>2. UNCHANGED <<columns, origin, took>> /\ worker' = Resting
  BY DEF Restart
<1>3. DownloadedAsPicked'
  BY <1>2 DEF RowsOK, DownloadedAsPicked
<1>4. RowsOK'
  BY <1>1, <1>2, <1>3, ColumnsKept, TookKept, RestingOK DEF RowsOK
<1>5. ASSUME NEW r \in DOMAIN requests, Open(r)
      PROVE  RequestOK([requests[r] EXCEPT !.todo = <<>>, !.reply = "lost"])
  BY <1>5, RequestEnds, Zenon DEF RequestsOK
<1>6. RequestsOK'
  BY <1>5 DEF Restart, RequestsOK
<1> QED BY <1>4, <1>6

LEMMA OfferIsOK ==
  ASSUME OfferedOK, NEW u \in Videos, NEW formats \in Offers[u], OfferChanges(u, formats)
  PROVE  OfferedOK'
BY DEF OfferedOK, OfferChanges

LEMMA ClientsAreOK ==
  ASSUME IntakeInv, OfferedOK, PageOK, RequestsOK, Clients
  PROVE  OfferedOK' /\ PageOK' /\ RequestsOK' /\ UNCHANGED serverVars
<1>1. ASSUME NEW by, NEW asked, NEW payloads, Asks(asked), payloads = asked,
             Handle(by, payloads, asked), UNCHANGED page \/ page' = <<>>
      PROVE  OfferedOK' /\ PageOK' /\ RequestsOK' /\ UNCHANGED serverVars
  <2>1. UNCHANGED offered /\ UNCHANGED serverVars
    BY <1>1 DEF Handle
  <2> QED BY <1>1, <2>1, HandleIsOK, PageGoesOn DEF OfferedOK
<1>2. ASSUME UNCHANGED <<offered, requests, serverVars>>
      PROVE  OfferedOK' /\ RequestsOK' /\ UNCHANGED serverVars
  BY <1>2 DEF OfferedOK, RequestsOK, serverVars
<1>3. ASSUME NEW urls \in Listings, NEW failed, NEW fractions,
             Preview(urls, failed, fractions)
      PROVE  OfferedOK' /\ PageOK' /\ RequestsOK' /\ UNCHANGED serverVars
  <2>1. UNCHANGED <<offered, requests, serverVars>>
    BY <1>3 DEF Preview
  <2> QED BY <1>2, <1>3, <2>1, PreviewIsOK
<1>4. ASSUME NEW i \in Ready, PickVideo(i) \/ PickAudio(i) \/ SetBitrate(i)
      PROVE  OfferedOK' /\ PageOK' /\ RequestsOK' /\ UNCHANGED serverVars
  <2>1. UNCHANGED <<offered, requests, serverVars>>
    BY <1>4 DEF PickVideo, PickAudio, SetBitrate, Pick
  <2> QED BY <1>2, <1>4, <2>1, PicksAreOK
<1>5. ASSUME NEW i \in Ready, EnqueueOne(i)
      PROVE  OfferedOK' /\ PageOK' /\ RequestsOK' /\ UNCHANGED serverVars
  <2>1. Asks(<<Shown(i)>>)
    <3>1. <<Shown(i)>> \in Seq({Shown(i)})
      OBVIOUS
    <3> QED BY <3>1, CardsCanAsk, AsksAll
  <2> QED BY <1>1, <1>5, <2>1 DEF EnqueueOne, Post
<1>6. ASSUME NEW checked \in SUBSET Ready, EnqueueSelected(checked)
      PROVE  OfferedOK' /\ PageOK' /\ RequestsOK' /\ UNCHANGED serverVars
  <2> DEFINE asked == [n \in 1 .. Cardinality(checked) |-> Shown(InOrder(checked)[n])]
  <2>1. BatchPayloads(Fields(checked)) = asked /\ Asks(asked)
    BY CheckedPayloads
  <2>2. Handle("tab", BatchPayloads(Fields(checked)), asked) /\ page' = <<>>
    BY <1>6 DEF EnqueueSelected, Post
  <2> HIDE DEF asked
  <2> QED BY <1>1, <2>1, <2>2
<1>7. ASSUME NEW script \in Scripts, PostScript(script)
      PROVE  OfferedOK' /\ PageOK' /\ RequestsOK' /\ UNCHANGED serverVars
  BY <1>1, <1>7, ScriptsAssumption DEF PostScript
<1> QED BY <1>3, <1>4, <1>5, <1>6, <1>7 DEF Clients

-----------------------------------------------------------------------------
LEMMA PromiseInit == IntakeInit => PromiseInv
<1> SUFFICES ASSUME IntakeInit PROVE PromiseInv
  OBVIOUS
<1>1. OfferedOK
  BY DEF IntakeInit, OfferedOK
<1>2. PageOK
  <2>1. DOMAIN page = {}
    BY DEF IntakeInit
  <2> QED BY <2>1, FS_EmptySet DEF PageOK, Ready
<1>3. RequestsOK
  BY DEF IntakeInit, RequestsOK
<1>4. ColumnsOK
  BY DEF IntakeInit, ColumnsOK, TableInit, Exists, Absent, NoOrigin
<1>5. WorkerOK
  BY DEF IntakeInit, WorkerOK, Resting
<1>6. TookOK /\ DownloadedAsPicked
  BY DEF IntakeInit, TookOK, NothingTaken, DownloadedAsPicked
<1> QED BY <1>1, <1>2, <1>3, <1>4, <1>5, <1>6 DEF PromiseInv

LEMMA PromiseNext ==
  IntakeInv /\ PromiseInv /\ [IntakeNext]_intakeVars => PromiseInv'
<1> SUFFICES ASSUME IntakeInv, PromiseInv, [IntakeNext]_intakeVars PROVE PromiseInv'
  OBVIOUS
<1> DEFINE Kept == OfferedOK' /\ PageOK' /\ RequestsOK' /\ RowsOK'
<1> SUFFICES Kept
  BY DEF PromiseInv, RowsOK
<1>1. TableOK /\ OfferedOK /\ PageOK /\ RequestsOK /\ RowsOK
  BY DEF IntakeInv, PromiseInv, RowsOK
<1>2. UNCHANGED serverVars => RowsOK'
  BY <1>1, RowsAlone DEF serverVars
<1>3. UNCHANGED clientVars => OfferedOK' /\ PageOK'
  BY <1>1, PageGoesOn DEF clientVars, OfferedOK
<1>4. UNCHANGED requests => RequestsOK'
  BY <1>1 DEF RequestsOK
<1>5. CASE Clients
  BY <1>1, <1>2, <1>5, ClientsAreOK
<1>6. CASE Handlers
  <2>1. PICK r \in DOMAIN requests :
          InsertFails(r) \/ Answer(r) \/ \E j \in Ids : Insert(r, j)
    BY <1>6 DEF Handlers
  <2>2. UNCHANGED clientVars
    BY <2>1 DEF InsertFails, Answer, Insert
  <2> QED BY <1>1, <1>3, <2>1, <2>2, InsertIsOK, HandlerEndsOK
<1>7. CASE Worker
  <2>1. UNCHANGED <<clientVars, requests>>
    BY <1>7 DEF Worker, Claim, ClaimNothing, intakeVars, ReadJob,
               DownloadFinishes, DownloadFails, Download
  <2> QED BY <1>1, <1>3, <1>4, <1>7, <2>1, WorkerIsOK
<1>8. CASE Restart
  BY <1>1, <1>3, <1>8, RestartIsOK DEF Restart
<1>9. ASSUME NEW u \in Videos, NEW formats \in Offers[u], OfferChanges(u, formats)
      PROVE  Kept
  <2>1. UNCHANGED <<page, requests, serverVars>>
    BY <1>9 DEF OfferChanges
  <2> QED BY <1>1, <1>2, <1>4, <1>9, <2>1, OfferIsOK, PageGoesOn
<1>10. ASSUME NEW j \in Ids, Deleted(j) PROVE Kept
  <2>1. UNCHANGED <<clientVars, requests>>
    BY <1>10 DEF Deleted
  <2> QED BY <1>1, <1>3, <1>4, <1>10, <2>1, DeletedIsOK
<1>11. CASE UNCHANGED intakeVars
  BY <1>2, <1>3, <1>4, <1>11 DEF intakeVars
<1> QED BY <1>5, <1>6, <1>7, <1>8, <1>9, <1>10, <1>11 DEF IntakeNext

LEMMA PromiseIsKept == IntakeSpec => [](IntakeInv /\ PromiseInv)
BY IntakeInitInv, IntakeNextInv, PromiseInit, PromiseNext, PTL DEF IntakeSpec

(***************************************************************************)
(* "Added" stands for all that was asked for, in its order; after an error *)
(* or a crash a first part of it is in the queue, and nothing if the form  *)
(* was in error (downloads_batch_form, enqueue_intake.py).                 *)
(***************************************************************************)
THEOREM RepliesTellTheTruth == IntakeSpec => []RepliesAreTrue
<1>1. PromiseInv => RepliesAreTrue
  BY AnswersAreTrue DEF PromiseInv
<1> QED BY <1>1, PromiseIsKept, PTL

(***************************************************************************)
(* A download gets the streams that were picked for it, or it fails (or is *)
(* of audio only, with a bitrate): whatever went away in between, however  *)
(* often the process restarts and whichever ids are used again             *)
(* (selector_for, job_runner.py).                                          *)
(***************************************************************************)
THEOREM DownloadsAreAsPicked == IntakeSpec => []DownloadedAsPicked
<1>1. PromiseInv => DownloadedAsPicked
  BY DEF PromiseInv
<1> QED BY <1>1, PromiseIsKept, PTL

-----------------------------------------------------------------------------
LEMMA SomeContainer ==
  ASSUME NEW u \in Videos, NEW formats \in Offers[u], NEW kind,
         NEW id \in IdsOfKind(formats, kind)
  PROVE  /\ id # NoId /\ Format(formats, id).id = id
         /\ Format(formats, id).ext # "unknown"
<1>1. PICK f \in formats : f.id = id /\ id # NoId
  BY DEF IdsOfKind, Normalized
<1>2. Format(formats, id) = CHOOSE g \in formats : g.id = id
  BY <1>1 DEF Format
<1>3. Format(formats, id) \in formats /\ Format(formats, id).id = id
  BY <1>1, <1>2
<1> QED BY <1>1, <1>3, OffersAssumption

LEMMA CardsAnnounce == PageOK => ContainerIsAnnounced
<1> SUFFICES ASSUME PageOK, NEW i \in Ready, NEW formats, formats = page[i].formats,
                    NEW v, v = page[i].selection.video,
                    NEW a, a = page[i].selection.audio
             PROVE  ExpectedContainer(formats, v, a) = "unknown" <=> v = NoId /\ a = NoId
  BY DEF ContainerIsAnnounced
<1> DEFINE videoIds == IdsOfKind(formats, "video")
           audioIds == IdsOfKind(formats, "audio")
           video == Format(formats, v)
           audio == Format(formats, a)
<1>1. /\ v \in videoIds \cup {NoId} /\ a \in audioIds \cup {NoId}
      /\ page[i].url \in Videos /\ formats \in Offers[page[i].url]
  BY DEF PageOK, CardOK
<1>2. ExpectedContainer(formats, v, a) = InferExpectedContainer(video, audio)
  <2>1. <<v, a>> \in DOMAIN ExpectedContainerByPair(formats)
    BY <1>1 DEF ExpectedContainerByPair
  <2>2. ExpectedContainerByPair(formats)[<<v, a>>] = InferExpectedContainer(video, audio)
    BY <1>1 DEF ExpectedContainerByPair
  <2> QED BY <2>1, <2>2 DEF ExpectedContainer
<1>3. v # NoId => video.id = v /\ video.ext # "unknown"
  BY <1>1, SomeContainer
<1>4. a # NoId => audio.id = a /\ audio.ext # "unknown"
  BY <1>1, SomeContainer
<1>5. v = NoId => video.id = NoId
  BY DEF Format, NoFormat
<1>6. a = NoId => audio.id = NoId /\ audio.ext = "unknown"
  BY DEF Format, NoFormat
<1> HIDE DEF video, audio
<1> QED BY <1>2, <1>3, <1>4, <1>5, <1>6 DEF InferExpectedContainer

(***************************************************************************)
(* Whatever is picked and taken back on a card, the container it announces *)
(* is one of the picked streams', or of their merge                        *)
(* (expected_container_by_pair, stream_picker_form.html).                  *)
(***************************************************************************)
THEOREM ContainersAreAnnounced == IntakeSpec => []ContainerIsAnnounced
<1>1. PromiseInv => ContainerIsAnnounced
  BY CardsAnnounce DEF PromiseInv
<1> QED BY <1>1, PromiseIsKept, PTL

-----------------------------------------------------------------------------
\* What a request has still to insert is of a form without a fraction.
LEMMA TodoIsWhole ==
  ASSUME NEW q, RequestOK(q), NEW p \in ToSet(q.todo)
  PROVE  p.url \in Videos /\ p.duration \in {"none", "whole"}
<1>1. PICK S : /\ \A o \in S : CanAsk(o)
               /\ q.asked \in Seq(S) /\ q.rows \in Seq(S) /\ q.todo \in Seq(S)
  BY CommonSet
<1>2. PICK n \in DOMAIN q.todo : p = q.todo[n]
  BY DEF ToSet
<1>3. /\ Len(q.todo) \in Nat /\ Len(q.rows) \in Nat /\ n \in 1 .. Len(q.todo)
      /\ p \in S
  BY <1>1, <1>2, LenProperties, ElementOfSeq
<1>4. q.todo # <<>>
  BY <1>1, <1>3, EmptySeq
<1>5. q.rows \o q.todo = q.asked /\ Builds(q.asked)
  BY <1>4 DEF RequestOK
<1>6. /\ Len(q.rows) + n \in DOMAIN (q.rows \o q.todo)
      /\ (q.rows \o q.todo)[Len(q.rows) + n] = p
  <2>1. /\ Len(q.rows) + n \in 1 .. (Len(q.rows) + Len(q.todo))
        /\ Len(q.rows) + n - Len(q.rows) = n /\ ~(Len(q.rows) + n <= Len(q.rows))
    <3>1. ASSUME NEW a \in Nat, NEW b \in Nat, NEW k \in 1 .. b
          PROVE  a + k \in 1 .. (a + b) /\ a + k - a = k /\ ~(a + k <= a)
      OBVIOUS
    <3> QED BY <1>3, <3>1, Zenon
  <2>2. q.rows \o q.todo \in Seq(S)
        /\ Len(q.rows \o q.todo) = Len(q.rows) + Len(q.todo)
    BY <1>1, ConcatProperties
  <2>3. DOMAIN (q.rows \o q.todo) = 1 .. (Len(q.rows) + Len(q.todo))
    BY <2>2, LenProperties
  <2>4. (q.rows \o q.todo)[Len(q.rows) + n] = q.todo[n]
    BY <1>1, <2>1, ConcatProperties
  <2> QED BY <1>2, <2>1, <2>3, <2>4
<1>7. p.duration # "fraction"
  BY <1>5, <1>6 DEF Builds
<1> QED BY <1>1, <1>3, <1>7 DEF CanAsk

(***************************************************************************)
(* Types: above all, what the handlers are about to insert has a URL and a *)
(* duration that the column takes.                                         *)
(***************************************************************************)
THEOREM IntakeTypes == IntakeSpec => []IntakeTypeOK
<1>1. IntakeInv /\ PromiseInv => IntakeTypeOK
  <2> SUFFICES ASSUME IntakeInv, PromiseInv PROVE IntakeTypeOK
    OBVIOUS
  <2>1. \A r \in DOMAIN requests : \A p \in ToSet(requests[r].todo) :
          p.url \in Videos /\ p.duration \in {"none", "whole"}
    BY TodoIsWhole DEF PromiseInv, RequestsOK
  <2>2. \A i \in Ready : page[i].formats \in Offers[page[i].url]
    BY DEF PromiseInv, PageOK, CardOK
  <2> QED BY <2>1, <2>2
          DEF IntakeTypeOK, IntakeInv, PromiseInv, OfferedOK, WorkerOK, TookOK
<1> QED BY <1>1, PromiseIsKept, PTL
=============================================================================
