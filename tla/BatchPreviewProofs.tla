-------------------------- MODULE BatchPreviewProofs --------------------------
(***************************************************************************)
(* What the pages of a batch preview promise, for any videos, playlists,   *)
(* page sizes and lists of sources.  The loops of the code are recursive   *)
(* functions here; what they compute follows from one lemma that such a    *)
(* function exists, and from the least number for which a claim would be   *)
(* false.                                                                  *)
(***************************************************************************)
EXTENDS BatchPreview, RecursionLemmas, FiniteSetTheorems

-----------------------------------------------------------------------------
(* The loop. *)

Entry == [url : Urls, ok : BOOLEAN]

LEMMA AddType ==
  ASSUME NEW s \in Seq(Entry), NEW e \in Entry PROVE Add(s, e) \in Seq(Entry)
BY AppendProperties DEF Add

\* The loop, up to each entry.
Loops(all, upto) ==
  /\ upto \in [0 .. Len(all) -> Seq(Entry)] /\ upto[0] = <<>>
  /\ \A n \in 1 .. Len(all) : upto[n] = Add(upto[n - 1], all[n])

LEMMA LoopExists ==
  ASSUME NEW all \in Seq(Entry)
  PROVE  \E upto : Loops(all, upto) /\ Deduplicated(all) = upto[Len(all)]
<1> DEFINE m == Len(all)
           upto[n \in 0 .. m] == IF n = 0 THEN <<>> ELSE Add(upto[n - 1], all[n])
           step == [p \in Seq(Entry) \X (1 .. m) |-> Add(p[1], all[p[2]])]
<1>1. m \in Nat /\ \A i \in 1 .. m : all[i] \in Entry
  BY LenProperties, ElementOfSeq
<1>2. Deduplicated(all) = upto[m]
  BY DEF Deduplicated
<1>3. step \in [Seq(Entry) \X (1 .. m) -> Seq(Entry)] /\ <<>> \in Seq(Entry)
  <2>1. ASSUME NEW p \in Seq(Entry) \X (1 .. m)
        PROVE  Add(p[1], all[p[2]]) \in Seq(Entry)
    BY <1>1, AddType
  <2> QED BY <2>1
<1>4. \A s \in Seq(Entry) : \A n \in 1 .. m : step[<<s, n>>] = Add(s, all[n])
  OBVIOUS
<1> HIDE DEF step, m
<1>5. PICK f : Follows(f, m, Seq(Entry), <<>>, step)
  BY <1>1, <1>3, RecursionExists
<1>6. ASSUME NEW n \in 1 .. m PROVE f[n] = Add(f[n - 1], all[n])
  <2>1. f[n] = step[<<f[n - 1], n>>] /\ f[n - 1] \in Seq(Entry)
    BY <1>1, <1>5 DEF Follows
  <2> QED BY <1>4, <2>1
<1>7. f = [n \in 0 .. m |-> IF n = 0 THEN <<>> ELSE Add(f[n - 1], all[n])]
  BY <1>1, <1>5, <1>6 DEF Follows
<1>8. upto = [n \in 0 .. m |-> IF n = 0 THEN <<>> ELSE Add(upto[n - 1], all[n])]
  BY <1>7
<1> HIDE DEF upto
<1>9. upto[0] = <<>> /\ \A n \in 1 .. m : upto[n] = Add(upto[n - 1], all[n])
  BY <1>1, <1>8
<1> DEFINE Typed == {n \in 0 .. m : upto[n] \in Seq(Entry)}
<1>10. 0 \in Typed /\ \A n \in 1 .. m : n - 1 \in Typed => n \in Typed
  <2>1. 0 \in Typed
    <3>1. upto[0] \in Seq(Entry)
      BY <1>3, <1>9, Zenon
    <3>2. 0 \in 0 .. m
      BY <1>1
    <3> QED BY <3>1, <3>2
  <2>2. ASSUME NEW n \in 1 .. m, n - 1 \in Typed PROVE n \in Typed
    <3>1. upto[n - 1] \in Seq(Entry) /\ all[n] \in Entry
      BY <1>1, <2>2
    <3>2. upto[n] \in Seq(Entry)
      BY <1>9, <3>1, AddType
    <3> QED BY <1>1, <3>2
  <2> QED BY <2>1, <2>2
<1> HIDE DEF Typed
<1>11. \A n \in 0 .. m : n \in Typed
  BY <1>1, <1>10, Induction
<1>12. upto \in [0 .. m -> Seq(Entry)]
  BY <1>8, <1>11 DEF Typed
<1> QED BY <1>2, <1>9, <1>12 DEF Loops, m

-----------------------------------------------------------------------------
(***************************************************************************)
(* What the loop has kept after n entries: those of the first places, in   *)
(* their order.                                                            *)
(***************************************************************************)
FirstsUpTo(all, n) == {i \in 1 .. n : IsFirst(all, i)}

Keeps(s, place, all, n) ==
  /\ place \in [1 .. Len(s) -> FirstsUpTo(all, n)]
  /\ \A k \in 1 .. Len(s) : s[k] = all[place[k]]
  /\ \A k, l \in 1 .. Len(s) : k < l => place[k] < place[l]
  /\ \A i \in FirstsUpTo(all, n) : \E k \in 1 .. Len(s) : place[k] = i

\* A URL that came before came first somewhere.
LEMMA FirstOfUrl ==
  ASSUME NEW all \in Seq(Entry), NEW n \in Nat, n <= Len(all), NEW i \in 1 .. n,
         all[i].ok
  PROVE  \E k \in FirstsUpTo(all, n) : all[k].ok /\ all[k].url = all[i].url
<1> DEFINE Same == {k \in 1 .. n : all[k].ok /\ all[k].url = all[i].url}
<1>1. Same \in SUBSET Nat /\ i \in Same
  OBVIOUS
<1>2. PICK k \in Same : \A l \in Same : k <= l
  <2> HIDE DEF Same
  <2> QED BY <1>1, LeastNumber
<1>3. ASSUME NEW l \in 1 .. (k - 1) PROVE ~(all[l].ok /\ all[l].url = all[k].url)
  <2>1. l \in 1 .. n /\ ~(k <= l)
    BY <1>2
  <2>2. l \notin Same
    BY <1>2, <2>1
  <2> QED BY <1>2, <2>1, <2>2
<1> QED BY <1>2, <1>3 DEF FirstsUpTo, IsFirst

LEMMA SeenBefore ==
  ASSUME NEW all \in Seq(Entry), NEW n \in 1 .. Len(all),
         NEW s \in Seq(Entry), NEW place, Keeps(s, place, all, n - 1), all[n].ok
  PROVE  all[n].url \in Seen(s) <=> ~IsFirst(all, n)
<1>1. Len(all) \in Nat /\ Len(s) \in Nat /\ DOMAIN s = 1 .. Len(s)
  BY LenProperties
<1>2. ASSUME all[n].url \in Seen(s) PROVE ~IsFirst(all, n)
  <2>1. PICK k \in 1 .. Len(s) : s[k].ok /\ s[k].url = all[n].url
    BY <1>1, <1>2 DEF Seen, ToSet
  <2>2. place[k] \in 1 .. (n - 1) /\ s[k] = all[place[k]]
    BY <2>1 DEF Keeps, FirstsUpTo
  <2> QED BY <2>1, <2>2 DEF IsFirst
<1>3. ASSUME ~IsFirst(all, n) PROVE all[n].url \in Seen(s)
  <2>1. PICK i \in 1 .. (n - 1) : all[i].ok /\ all[i].url = all[n].url
    BY <1>3 DEF IsFirst
  <2>2. PICK k \in FirstsUpTo(all, n - 1) : all[k].ok /\ all[k].url = all[n].url
    <3>1. n - 1 \in Nat /\ n - 1 <= Len(all)
      BY <1>1
    <3> QED BY <2>1, <3>1, FirstOfUrl
  <2>3. PICK l \in 1 .. Len(s) : place[l] = k
    BY <2>2 DEF Keeps
  <2>4. s[l] = all[k] /\ s[l] \in ToSet(s)
    BY <1>1, <2>3 DEF Keeps, ToSet
  <2> QED BY <2>2, <2>4 DEF Seen
<1> QED BY <1>2, <1>3

LEMMA LoopStep ==
  ASSUME NEW all \in Seq(Entry), NEW n \in 1 .. Len(all),
         NEW s \in Seq(Entry), NEW place, Keeps(s, place, all, n - 1)
  PROVE  \E new : Keeps(Add(s, all[n]), new, all, n)
<1>1. /\ Len(all) \in Nat /\ Len(s) \in Nat /\ all[n] \in Entry
      /\ all[n].ok \in BOOLEAN
  <2>1. Len(all) \in Nat /\ Len(s) \in Nat
    BY LenProperties
  <2>2. all[n] \in Entry
    BY ElementOfSeq
  <2> QED BY <2>1, <2>2 DEF Entry
<1>2. IsFirst(all, n) <=> ~(all[n].ok /\ all[n].url \in Seen(s))
  <2>1. CASE all[n].ok
    BY <2>1, SeenBefore
  <2>2. CASE ~all[n].ok
    BY <2>2 DEF IsFirst
  <2> QED BY <2>1, <2>2
<1>3. CASE ~IsFirst(all, n)
  <2>1. Add(s, all[n]) = s
    BY <1>2, <1>3 DEF Add
  <2>2. FirstsUpTo(all, n) = FirstsUpTo(all, n - 1)
    BY <1>1, <1>3 DEF FirstsUpTo
  <2>3. Keeps(s, place, all, n)
    BY <2>2 DEF Keeps
  <2> QED BY <2>1, <2>3
<1>4. CASE IsFirst(all, n)
  <2> DEFINE m == Len(s)
             t == Append(s, all[n])
             new == [k \in 1 .. (m + 1) |-> IF k = m + 1 THEN n ELSE place[k]]
  <2>1. Add(s, all[n]) = t
    BY <1>2, <1>4 DEF Add
  <2>2. /\ Len(t) = m + 1 /\ t[m + 1] = all[n]
        /\ \A k \in 1 .. m : t[k] = s[k]
    BY <1>1, AppendProperties
  <2>3. FirstsUpTo(all, n) = FirstsUpTo(all, n - 1) \cup {n}
    BY <1>1, <1>4 DEF FirstsUpTo
  <2>4. \A k \in 1 .. m : place[k] \in FirstsUpTo(all, n - 1) /\ place[k] \in 1 .. (n - 1)
    BY DEF Keeps, FirstsUpTo
  <2> HIDE DEF t
  <2>5. /\ new[m + 1] = n /\ \A k \in 1 .. m : new[k] = place[k]
        /\ DOMAIN new = 1 .. (m + 1)
    BY <1>1
  <2>6. new \in [1 .. (m + 1) -> FirstsUpTo(all, n)]
    BY <1>1, <2>3, <2>4
  <2> HIDE DEF new
  <2>7. \A k \in 1 .. (m + 1) : t[k] = all[new[k]]
    BY <1>1, <2>2, <2>5 DEF Keeps
  <2>8. ASSUME NEW k \in 1 .. (m + 1), NEW l \in 1 .. (m + 1), k < l
        PROVE  new[k] < new[l]
    <3>1. k \in 1 .. m /\ new[k] = place[k]
      BY <1>1, <2>5, <2>8
    <3>2. CASE l = m + 1
      BY <2>4, <2>5, <3>1, <3>2
    <3>3. CASE l # m + 1
      BY <1>1, <2>5, <2>8, <3>1, <3>3 DEF Keeps
    <3> QED BY <3>2, <3>3
  <2>9. ASSUME NEW i \in FirstsUpTo(all, n)
        PROVE  \E k \in 1 .. (m + 1) : new[k] = i
    <3>1. CASE i = n
      BY <1>1, <2>5, <3>1
    <3>2. CASE i # n
      <4>1. PICK k \in 1 .. m : place[k] = i
        BY <2>3, <3>2 DEF Keeps
      <4> QED BY <1>1, <2>5, <4>1
    <3> QED BY <3>1, <3>2
  <2>10. Keeps(t, new, all, n)
    BY <2>2, <2>6, <2>7, <2>8, <2>9 DEF Keeps
  <2> QED BY <2>1, <2>10
<1> QED BY <1>3, <1>4

LEMMA LoopKeeps ==
  ASSUME NEW all \in Seq(Entry)
  PROVE  /\ Deduplicated(all) \in Seq(Entry)
         /\ \E place : Keeps(Deduplicated(all), place, all, Len(all))
<1> DEFINE m == Len(all)
<1>1. m \in Nat
  BY LenProperties
<1>2. PICK upto : Loops(all, upto) /\ Deduplicated(all) = upto[m]
  BY LoopExists
<1>3. /\ upto[0] = <<>> /\ \A n \in 0 .. m : upto[n] \in Seq(Entry)
      /\ \A n \in 1 .. m : upto[n] = Add(upto[n - 1], all[n])
  BY <1>2 DEF Loops
<1> HIDE DEF m
<1> DEFINE Good == {n \in 0 .. m : \E place : Keeps(upto[n], place, all, n)}
<1>4. 0 \in Good
  <2>1. Len(upto[0]) = 0 /\ 0 \in 0 .. m
    BY <1>1, <1>3, EmptySeq
  <2>2. Keeps(upto[0], [k \in {} |-> 0], all, 0)
    BY <2>1 DEF Keeps, FirstsUpTo
  <2> QED BY <2>1, <2>2
<1>5. ASSUME NEW n \in 1 .. m, n - 1 \in Good PROVE n \in Good
  <2>1. PICK place : Keeps(upto[n - 1], place, all, n - 1)
    BY <1>5
  <2>2. upto[n - 1] \in Seq(Entry) /\ upto[n] = Add(upto[n - 1], all[n]) /\ n \in 0 .. m
    BY <1>1, <1>3
  <2>3. \E new : Keeps(upto[n], new, all, n)
    BY <2>1, <2>2, LoopStep DEF m
  <2> QED BY <2>2, <2>3
<1> HIDE DEF Good
<1>6. \A n \in 0 .. m : n \in Good
  BY <1>1, <1>4, <1>5, Induction
<1>7. m \in 0 .. m
  BY <1>1
<1> QED BY <1>2, <1>3, <1>6, <1>7 DEF Good, m

-----------------------------------------------------------------------------
(***************************************************************************)
(* How many first places there are, and which one an entry is.             *)
(***************************************************************************)
LEMMA KeptCount ==
  ASSUME NEW all \in Seq(Entry), NEW s \in Seq(Entry), NEW place,
         Keeps(s, place, all, Len(all))
  PROVE  /\ Cardinality(FirstPlaces(all)) = Len(s)
         /\ \A k \in 1 .. Len(s) : Rank(FirstPlaces(all), place[k]) = k
<1> DEFINE F == FirstPlaces(all)
           m == Len(s)
<1>1. m \in Nat /\ DOMAIN all = 1 .. Len(all) /\ Len(all) \in Nat
  BY LenProperties
<1>2. F = FirstsUpTo(all, Len(all)) /\ F \subseteq Nat
  BY <1>1 DEF FirstPlaces, FirstsUpTo
<1>3. /\ place \in [1 .. m -> F]
      /\ \A k, l \in 1 .. m : k < l => place[k] < place[l]
      /\ \A i \in F : \E k \in 1 .. m : place[k] = i
  BY <1>2 DEF Keeps
<1> HIDE DEF F, m
<1>4. \A k, l \in 1 .. m : place[k] <= place[l] <=> k <= l
  <2> SUFFICES ASSUME NEW k \in 1 .. m, NEW l \in 1 .. m
               PROVE  place[k] <= place[l] <=> k <= l
    OBVIOUS
  <2>1. place[k] \in Nat /\ place[l] \in Nat
    BY <1>2, <1>3
  <2>2. k < l \/ l < k \/ k = l
    BY <1>1
  <2> QED BY <1>1, <1>3, <2>1, <2>2
<1>5. ASSUME NEW n \in 0 .. m, NEW T, T = {place[k] : k \in 1 .. n}
      PROVE  Cardinality(T) = n
  <2> DEFINE f == [k \in 1 .. n |-> place[k]]
  <2>1. \A k, l \in 1 .. n : place[k] = place[l] => k = l
    <3> SUFFICES ASSUME NEW k \in 1 .. n, NEW l \in 1 .. n, place[k] = place[l]
                 PROVE  k = l
      OBVIOUS
    <3>1. k \in 1 .. m /\ l \in 1 .. m /\ place[k] \in Nat
      BY <1>1, <1>2, <1>3
    <3> QED BY <1>4, <3>1
  <2>2. f \in Bijection(1 .. n, T)
    BY <1>5, <2>1, Zenon DEF Bijection, Injection, IsInjective, Surjection
  <2>3. IsFiniteSet(1 .. n) /\ Cardinality(1 .. n) = n
    <3>1. n \in Nat
      BY <1>1
    <3> QED BY <3>1, FS_Interval
  <2>4. ExistsBijection(1 .. n, T)
    BY <2>2, Zenon DEF ExistsBijection
  <2> HIDE DEF f
  <2> QED BY <2>3, <2>4, FS_Bijection
<1>6. Cardinality(F) = m
  <2>1. F = {place[k] : k \in 1 .. m} /\ m \in 0 .. m
    BY <1>1, <1>3
  <2> QED BY <1>5, <2>1
<1>7. ASSUME NEW k \in 1 .. m PROVE Rank(F, place[k]) = k
  <2>1. {i \in F : i <= place[k]} = {place[l] : l \in 1 .. k}
    <3>1. ASSUME NEW i \in F, i <= place[k] PROVE \E l \in 1 .. k : i = place[l]
      <4>1. PICK l \in 1 .. m : place[l] = i
        BY <1>3
      <4>2. l \in 1 .. k
        BY <1>1, <1>4, <3>1, <4>1
      <4> QED BY <4>1, <4>2
    <3>2. ASSUME NEW l \in 1 .. k PROVE place[l] \in F /\ place[l] <= place[k]
      BY <1>1, <1>3, <1>4
    <3> QED BY <3>1, <3>2
  <2>2. k \in 0 .. m
    BY <1>1
  <2> QED BY <1>5, <2>1, <2>2 DEF Rank
<1> QED BY <1>6, <1>7 DEF F, m

\* The entries a list stands for: each URL once, and all of the first places.
LEMMA ExpandedProperties ==
  ASSUME NEW raw, AllEntries(raw) \in Seq(Entry), NEW s, s = Expanded(raw)
  PROVE  /\ s \in Seq(Entry)
         /\ \A k, l \in 1 .. Len(s) : s[k].ok /\ s[l].ok /\ s[k].url = s[l].url => k = l
         /\ Len(s) = Cardinality(FirstPlaces(AllEntries(raw)))
         /\ \A i \in FirstPlaces(AllEntries(raw)) :
              LET r == Rank(FirstPlaces(AllEntries(raw)), i)
              IN  r \in 1 .. Len(s) /\ s[r] = AllEntries(raw)[i]
<1> DEFINE all == AllEntries(raw)
<1>1. s \in Seq(Entry) /\ \E place : Keeps(s, place, all, Len(all))
  BY LoopKeeps DEF Expanded
<1>2. PICK place : Keeps(s, place, all, Len(all))
  BY <1>1
<1>3. /\ Cardinality(FirstPlaces(all)) = Len(s)
      /\ \A k \in 1 .. Len(s) : Rank(FirstPlaces(all), place[k]) = k
  BY <1>1, <1>2, KeptCount
<1>4. Len(s) \in Nat /\ Len(all) \in Nat /\ DOMAIN all = 1 .. Len(all)
  BY <1>1, LenProperties
<1> HIDE DEF all
<1>5. FirstPlaces(all) = FirstsUpTo(all, Len(all))
  BY <1>4 DEF FirstPlaces, FirstsUpTo
<1>6. ASSUME NEW k \in 1 .. Len(s), NEW l \in 1 .. Len(s), s[l].ok, s[k].ok,
             s[k].url = s[l].url
      PROVE  ~(k < l)
  <2> SUFFICES ASSUME k < l PROVE FALSE
    OBVIOUS
  <2>1. /\ place[k] \in 1 .. Len(all) /\ place[l] \in 1 .. Len(all)
        /\ place[k] < place[l] /\ IsFirst(all, place[l])
        /\ s[k] = all[place[k]] /\ s[l] = all[place[l]]
    BY <1>2 DEF Keeps, FirstsUpTo
  <2>2. place[k] \in 1 .. (place[l] - 1)
    BY <1>4, <2>1
  <2> QED BY <1>6, <2>1, <2>2 DEF IsFirst
<1>7. ASSUME NEW i \in FirstPlaces(all)
      PROVE  /\ Rank(FirstPlaces(all), i) \in 1 .. Len(s)
             /\ s[Rank(FirstPlaces(all), i)] = all[i]
  <2>1. PICK k \in 1 .. Len(s) : place[k] = i
    BY <1>2, <1>5 DEF Keeps
  <2>2. Rank(FirstPlaces(all), i) = k /\ s[k] = all[place[k]]
    BY <1>2, <1>3, <2>1 DEF Keeps
  <2> QED BY <2>1, <2>2
<1>8. \A k, l \in 1 .. Len(s) : s[k].ok /\ s[l].ok /\ s[k].url = s[l].url => k = l
  BY <1>4, <1>6
<1> QED BY <1>1, <1>3, <1>7, <1>8 DEF all

LEMMA ExpandType ==
  ASSUME content \in [Playlists -> Contents], NEW u \in Urls
  PROVE  Expand(u) \in Seq(Entry)
<1>1. ASSUME NEW ok \in BOOLEAN PROVE <<[url |-> u, ok |-> ok]>> \in Seq(Entry)
  <2>1. [url |-> u, ok |-> ok] \in Entry
    BY DEF Entry
  <2> QED BY <2>1
<1>2. CASE u \in Videos \/ content[u] = Raises
  BY <1>1, <1>2 DEF Expand
<1>3. CASE u \notin Videos /\ content[u] # Raises /\ content[u] = Unreadable
  BY <1>1, <1>3 DEF Expand
<1>4. CASE u \notin Videos /\ content[u] # Raises /\ content[u] # Unreadable
  <2> DEFINE of(e) == IF e = Unusable THEN [url |-> u, ok |-> FALSE]
                      ELSE [url |-> e, ok |-> TRUE]
  <2>1. PICK n \in 0 .. MaxEntries : content[u] \in [1 .. n -> Urls \cup {Unusable}]
    <3>1. content[u] \in BoundedSeq(Urls \cup {Unusable}, MaxEntries)
      BY <1>4 DEF Urls, Contents
    <3> QED BY <3>1 DEF BoundedSeq, SeqOf
  <2>2. Expand(u) = [i \in 1 .. n |-> of(content[u][i])]
    BY <1>4, <2>1 DEF Expand
  <2>3. \A e \in Urls \cup {Unusable} : of(e) \in Entry
    BY DEF Entry
  <2> HIDE DEF of
  <2>4. Expand(u) \in [1 .. n -> Entry] /\ n \in Nat
    BY <2>1, <2>2, <2>3, BoundsAssumption
  <2> QED BY <2>4, SeqDef
<1> QED BY <1>2, <1>3, <1>4

LEMMA AllEntriesType ==
  ASSUME content \in [Playlists -> Contents], NEW raw \in Seq(Urls \cup {NotUrl})
  PROVE  AllEntries(raw) \in Seq(Entry)
<1> DEFINE parts == [i \in DOMAIN raw |-> IF raw[i] = NotUrl THEN <<>> ELSE Expand(raw[i])]
<1>1. /\ Len(raw) \in Nat /\ DOMAIN raw = 1 .. Len(raw)
      /\ \A i \in 1 .. Len(raw) : raw[i] \in Urls \cup {NotUrl}
  BY LenProperties, ElementOfSeq
<1>2. \A i \in 1 .. Len(raw) : parts[i] \in Seq(Entry)
  BY <1>1, ExpandType
<1>3. parts \in [1 .. Len(raw) -> Seq(Entry)]
  BY <1>1, <1>2
<1> HIDE DEF parts
<1>4. parts \in Seq(Seq(Entry))
  <2>1. parts \in UNION {[1 .. n -> Seq(Entry)] : n \in Nat}
    BY <1>1, <1>3
  <2> QED BY <2>1, SeqDef
<1>5. AllEntries(raw) = FlattenSeq(parts)
  BY DEF AllEntries, parts
<1> QED BY <1>4, <1>5, FlattenType

-----------------------------------------------------------------------------
(* Pages. *)

\* Where a page begins and ends.
PageBounds(p, pages, size, total) ==
  /\ pages \in Nat \ {0} /\ (p - 1) * size \in Nat /\ p * size \in Nat
  /\ p * size = (p - 1) * size + size
  /\ (p - 1) * size <= total
  /\ total > 0 => (p - 1) * size < total
  /\ p < pages => p * size < total
  /\ p = pages => total <= p * size

LEMMA Paging ==
  ASSUME NEW total \in Nat, NEW size \in Nat \ {0},
         NEW pages, pages = PageCount(total, size), NEW p \in 1 .. pages
  PROVE  PageBounds(p, pages, size, total)
<1> DEFINE q == (total + size - 1) \div size
<1>1. q \in Nat /\ q * size <= total + size - 1 /\ total + size - 1 < q * size + size
  OBVIOUS
<1> HIDE DEF q
<1>2. pages = IF q < 1 THEN 1 ELSE q
  BY DEF PageCount, AtLeastOne, q
<1>3. p \in Nat /\ p >= 1 /\ pages \in Nat \ {0} /\ p <= pages
  BY <1>1, <1>2
<1>4. \A k \in Nat : k * size \in Nat
  OBVIOUS
<1>5. \A k \in Nat : k >= 1 => k * size = (k - 1) * size + size
  OBVIOUS
<1>6. \A k, l \in Nat : k <= l => k * size <= l * size
  OBVIOUS
<1>7. (p - 1) * size \in Nat /\ p * size \in Nat /\ p * size = (p - 1) * size + size
  BY <1>3, <1>4, <1>5
<1>8. q >= 1 => (q - 1) * size < total
  BY <1>1, <1>4, <1>5
<1>9. p < pages => p * size < total
  <2> SUFFICES ASSUME p < pages PROVE p * size < total
    OBVIOUS
  <2>1. pages = q /\ p <= q - 1 /\ q >= 1 /\ q - 1 \in Nat
    BY <1>1, <1>2, <1>3
  <2>2. p * size <= (q - 1) * size /\ (q - 1) * size \in Nat
    BY <1>3, <1>4, <1>6, <2>1
  <2> QED BY <1>7, <1>8, <2>1, <2>2
<1>10. p = pages => total <= p * size
  BY <1>1, <1>2, <1>4, <1>7
<1>11. (p - 1) * size <= total /\ (total > 0 => (p - 1) * size < total)
  BY <1>1, <1>2, <1>3, <1>7, <1>8, <1>9
<1> QED BY <1>3, <1>7, <1>9, <1>10, <1>11 DEF PageBounds

PageEnd(p, size, total) == IF p * size < total THEN p * size ELSE total

\* A reply to a request for a page: which of the entries are on it.
Shows(v, page, entries, size) ==
  /\ entries \in Seq(Entry) /\ size \in Nat \ {0}
  /\ v.total = Len(entries) /\ v.pages = PageCount(v.total, size)
  /\ v.page = ClampPage(page, v.pages) /\ v.page \in 1 .. v.pages
  /\ v.items \in Seq(Item)
  /\ Len(v.items) = PageEnd(v.page, size, v.total) - (v.page - 1) * size
  /\ \A n \in 1 .. Len(v.items) :
       /\ v.items[n].url = entries[(v.page - 1) * size + n].url
       /\ v.items[n].ready => entries[(v.page - 1) * size + n].ok

LEMMA PageShows ==
  ASSUME content \in [Playlists -> Contents], pageSize \in Nat,
         NEW raw \in Seq(Urls \cup {NotUrl}), NEW page \in Int, NEW found,
         NEW v, v = Page(raw, page, found),
         NEW entries, entries = Expanded(raw),
         NEW size, size = AtLeastOne(pageSize)
  PROVE  Shows(v, page, entries, size)
<1> DEFINE total == Len(entries)
           pages == PageCount(total, size)
           p == ClampPage(page, pages)
           last == PageEnd(p, size, total)
           before == (p - 1) * size
           shown == SubSeq(entries, (p - 1) * size + 1,
                           IF p * size < Len(entries) THEN p * size ELSE Len(entries))
           card(e) == [url |-> e.url, ready |-> e.ok /\ e.url \in found \ Playlists]
<1>1. entries \in Seq(Entry) /\ total \in Nat
        /\ \A i \in 1 .. total : entries[i] \in Entry
  <2>1. entries \in Seq(Entry)
    BY AllEntriesType, ExpandedProperties
  <2> QED BY <2>1, LenProperties, ElementOfSeq
<1>2. size \in Nat \ {0}
  BY DEF AtLeastOne
<1>3. /\ v.items = [i \in DOMAIN shown |->
                      [url |-> shown[i].url,
                       ready |-> shown[i].ok /\ shown[i].url \in found \ Playlists]]
      /\ v.page = p /\ v.pages = pages /\ v.total = total
  BY DEF Page
<1>4. v.items = [i \in DOMAIN shown |-> card(shown[i])]
  BY <1>3
<1>5. shown = SubSeq(entries, before + 1, last)
  BY DEF PageEnd
<1> HIDE DEF shown, total, card
<1>6. pages \in Nat \ {0}
  <2>1. ((total + size - 1) \div size) \in Int
    BY <1>1, <1>2
  <2> QED BY <2>1 DEF PageCount, AtLeastOne
<1> HIDE DEF pages
<1>7. p \in 1 .. pages
  BY <1>6 DEF ClampPage, AtLeastOne
<1> HIDE DEF p
<1>8. before \in Nat /\ p * size \in Nat /\ p * size = before + size /\ before <= total
  <2>1. pages = PageCount(total, size)
    BY DEF pages
  <2>2. PageBounds(p, pages, size, total)
    BY <1>1, <1>2, <1>7, <2>1, Paging
  <2> QED BY <2>2 DEF PageBounds
<1> HIDE DEF before
<1>9. last \in Nat /\ before <= last /\ last <= total
  BY <1>1, <1>2, <1>8 DEF PageEnd
<1> HIDE DEF last
<1>10. \A i \in (before + 1) .. last : entries[i] \in Entry
  BY <1>1, <1>8, <1>9
<1>11. /\ shown \in Seq(Entry) /\ Len(shown) = last - before
       /\ \A i \in 1 .. (last - before) : shown[i] = entries[before + i]
  <2>1. /\ SubSeq(entries, before + 1, last) \in Seq(Entry)
        /\ Len(SubSeq(entries, before + 1, last))
             = IF before + 1 <= last THEN last - (before + 1) + 1 ELSE 0
        /\ \A i \in 1 .. last - (before + 1) + 1 :
             SubSeq(entries, before + 1, last)[i] = entries[before + 1 + i - 1]
    <3>1. before + 1 \in Int /\ last \in Int
      BY <1>8, <1>9
    <3> QED BY <1>10, <3>1, SubSeqProperties
  <2>2. Len(shown) = last - before
    BY <1>5, <1>8, <1>9, <2>1
  <2>3. ASSUME NEW i \in 1 .. (last - before) PROVE shown[i] = entries[before + i]
    <3>1. i \in 1 .. last - (before + 1) + 1 /\ before + 1 + i - 1 = before + i
      BY <1>8, <1>9
    <3> QED BY <1>5, <2>1, <3>1
  <2> QED BY <1>5, <2>1, <2>2, <2>3
<1>12. DOMAIN shown = 1 .. (last - before) /\ last - before \in Nat
  BY <1>8, <1>9, <1>11, LenProperties
<1>13. \A e \in Entry : card(e) \in Item /\ card(e).url = e.url /\ (card(e).ready => e.ok)
  BY DEF card, Entry, Item
<1>14. v.items \in [1 .. (last - before) -> Item]
  BY <1>4, <1>8, <1>9, <1>10, <1>11, <1>12, <1>13
<1>15. v.items \in Seq(Item) /\ Len(v.items) = last - before
  <2>1. v.items \in UNION {[1 .. n -> Item] : n \in Nat}
    BY <1>12, <1>14
  <2>2. v.items \in Seq(Item)
    BY <2>1, SeqDef
  <2> QED BY <1>12, <1>14, <2>2, LenProperties
<1>16. ASSUME NEW n \in 1 .. Len(v.items)
       PROVE  /\ v.items[n].url = entries[before + n].url
              /\ v.items[n].ready => entries[before + n].ok
  <2>1. v.items[n] = card(shown[n]) /\ shown[n] = entries[before + n]
    BY <1>4, <1>11, <1>12, <1>15
  <2>2. entries[before + n] \in Entry
    BY <1>8, <1>9, <1>10, <1>15
  <2> QED BY <1>13, <2>1, <2>2
<1>17. /\ v.total = Len(entries) /\ v.pages = PageCount(v.total, size)
       /\ v.page = ClampPage(page, v.pages) /\ v.page \in 1 .. v.pages
  BY <1>3, <1>7, Zenon DEF p, pages, total
<1>18. before = (v.page - 1) * size /\ last = PageEnd(v.page, size, v.total)
  BY <1>3, Zenon DEF before, last
<1> QED BY <1>1, <1>2, <1>15, <1>16, <1>17, <1>18, Zenon DEF Shows

\* Where the page of a reply lies among the entries.
LEMMA PagePlace ==
  ASSUME NEW v, NEW page, NEW entries, NEW size, Shows(v, page, entries, size)
  PROVE  /\ v.total \in Nat /\ v.pages \in Nat \ {0} /\ v.page \in Nat \ {0}
         /\ PageBounds(v.page, v.pages, size, v.total)
         /\ (v.page - 1) * size + Len(v.items) = PageEnd(v.page, size, v.total)
         /\ Len(v.items) \in Nat /\ PageEnd(v.page, size, v.total) <= v.total
<1>1. v.total \in Nat /\ size \in Nat \ {0} /\ Len(v.items) \in Nat
  BY LenProperties DEF Shows
<1>2. PageBounds(v.page, v.pages, size, v.total)
  <2>1. v.pages = PageCount(v.total, size) /\ v.page \in 1 .. v.pages
    BY DEF Shows
  <2> QED BY <1>1, <2>1, Paging
<1>3. v.pages \in Nat \ {0} /\ v.page \in Nat \ {0}
  BY <1>2 DEF PageBounds, Shows
<1>4. PageEnd(v.page, size, v.total) \in Nat /\ PageEnd(v.page, size, v.total) <= v.total
  BY <1>1, <1>2 DEF PageBounds, PageEnd
<1>5. (v.page - 1) * size + Len(v.items) = PageEnd(v.page, size, v.total)
  <2>1. (v.page - 1) * size \in Nat
    BY <1>2 DEF PageBounds
  <2>2. Len(v.items) = PageEnd(v.page, size, v.total) - (v.page - 1) * size
    BY DEF Shows
  <2> QED BY <1>4, <2>1, <2>2
<1> QED BY <1>1, <1>2, <1>3, <1>4, <1>5

OnceEach(entries) ==
  \A k, l \in 1 .. Len(entries) :
    entries[k].ok /\ entries[l].ok /\ entries[k].url = entries[l].url => k = l

\* What every reply has, whatever changed since the last one.
GoodReply(v) ==
  /\ v.pages \in Nat \ {0} /\ v.total \in Nat /\ v.page \in 1 .. v.pages
  /\ v.items \in Seq(Item) /\ (v.total > 0 => v.items # <<>>)
  /\ \A i, k \in DOMAIN v.items :
       v.items[i].ready /\ v.items[k].ready /\ v.items[i].url = v.items[k].url => i = k

LEMMA ReplyIsGood ==
  ASSUME NEW v, NEW page, NEW entries, NEW size, Shows(v, page, entries, size),
         OnceEach(entries)
  PROVE  GoodReply(v)
<1> DEFINE before == (v.page - 1) * size
           last == PageEnd(v.page, size, v.total)
<1>1. /\ v.total \in Nat /\ v.pages \in Nat \ {0} /\ v.page \in Nat \ {0}
      /\ PageBounds(v.page, v.pages, size, v.total)
      /\ before + Len(v.items) = last /\ Len(v.items) \in Nat /\ last <= v.total
  BY PagePlace
<1>2. /\ v.items \in Seq(Item) /\ v.page \in 1 .. v.pages /\ v.total = Len(entries)
      /\ \A n \in 1 .. Len(v.items) : /\ v.items[n].url = entries[before + n].url
                                      /\ v.items[n].ready => entries[before + n].ok
  BY DEF Shows
<1>3. before \in Nat
  BY <1>1 DEF PageBounds
<1>4. v.total > 0 => before < last
  <2>1. v.total > 0 => before < v.total
    BY <1>1 DEF PageBounds
  <2>2. size \in Nat \ {0} /\ v.page * size = before + size /\ v.page * size \in Nat
    BY <1>1 DEF PageBounds, Shows
  <2>3. last = IF v.page * size < v.total THEN v.page * size ELSE v.total
    BY DEF PageEnd
  <2> HIDE DEF before, last
  <2> QED BY <1>1, <1>3, <2>1, <2>2, <2>3
<1> HIDE DEF before, last
<1>5. v.total > 0 => v.items # <<>>
  BY <1>1, <1>3, <1>4
<1>6. DOMAIN v.items = 1 .. Len(v.items)
  BY <1>2, LenProperties
<1>7. ASSUME NEW i \in 1 .. Len(v.items), NEW k \in 1 .. Len(v.items),
             v.items[i].ready, v.items[k].ready, v.items[i].url = v.items[k].url
      PROVE  i = k
  <2>1. before + i \in 1 .. Len(entries) /\ before + k \in 1 .. Len(entries)
    BY <1>1, <1>2, <1>3
  <2>2. /\ entries[before + i].ok /\ entries[before + k].ok
        /\ entries[before + i].url = entries[before + k].url
    BY <1>2, <1>7
  <2>3. before + i = before + k
    BY <2>1, <2>2 DEF OnceEach
  <2> QED BY <1>3, <2>3
<1> QED BY <1>1, <1>2, <1>5, <1>6, <1>7 DEF GoodReply

(***************************************************************************)
(* The walk from page to page.                                             *)
(***************************************************************************)
Reaches(w, v, entries, size) ==
  /\ v.total = Len(entries) /\ v.pages = PageCount(Len(entries), size)
  /\ Len(w) = PageEnd(v.page, size, Len(entries))
  /\ \A n \in DOMAIN w : w[n].url = entries[n].url

LEMMA FirstPage ==
  ASSUME NEW v, NEW entries, NEW size, Shows(v, 1, entries, size)
  PROVE  Reaches(v.items, v, entries, size)
<1>1. /\ v.total \in Nat /\ v.pages \in Nat \ {0}
      /\ (v.page - 1) * size + Len(v.items) = PageEnd(v.page, size, v.total)
      /\ Len(v.items) \in Nat
  BY PagePlace
<1>2. v.page = 1 /\ size \in Nat
  BY <1>1 DEF Shows, ClampPage, AtLeastOne
<1>3. (v.page - 1) * size = 0
  BY <1>2
<1>4. /\ v.items \in Seq(Item) /\ v.total = Len(entries)
      /\ v.pages = PageCount(Len(entries), size)
      /\ \A n \in 1 .. Len(v.items) :
           v.items[n].url = entries[(v.page - 1) * size + n].url
  BY DEF Shows
<1>5. DOMAIN v.items = 1 .. Len(v.items)
  BY <1>4, LenProperties
<1>6. Len(v.items) = PageEnd(v.page, size, Len(entries))
  BY <1>1, <1>3, <1>4
<1>7. ASSUME NEW n \in 1 .. Len(v.items) PROVE v.items[n].url = entries[n].url
  <2>1. (v.page - 1) * size + n = n
    BY <1>3
  <2> QED BY <1>4, <2>1
<1> QED BY <1>4, <1>5, <1>6, <1>7, Zenon DEF Reaches

LEMMA NextPage ==
  ASSUME NEW old, NEW w \in Seq(Item), NEW entries, NEW size, NEW v,
         Reaches(w, old, entries, size), old.page \in 1 .. old.pages,
         old.page < old.pages, Shows(v, old.page + 1, entries, size)
  PROVE  Reaches(w \o v.items, v, entries, size)
<1>1. /\ v.total \in Nat /\ v.pages \in Nat \ {0}
      /\ (v.page - 1) * size + Len(v.items) = PageEnd(v.page, size, v.total)
      /\ Len(v.items) \in Nat
  BY PagePlace
<1>2. /\ v.items \in Seq(Item) /\ v.total = Len(entries)
      /\ v.pages = PageCount(Len(entries), size) /\ size \in Nat \ {0}
      /\ v.page = ClampPage(old.page + 1, v.pages)
      /\ \A n \in 1 .. Len(v.items) :
           v.items[n].url = entries[(v.page - 1) * size + n].url
  BY DEF Shows
<1>3. v.pages = old.pages
  BY <1>2 DEF Reaches
<1>4. old.page \in Nat \ {0} /\ v.page = old.page + 1 /\ v.page - 1 = old.page
  <2>1. old.page \in Nat \ {0} /\ old.page + 1 <= v.pages
    BY <1>1, <1>3
  <2>2. ASSUME NEW n \in Nat \ {0}, NEW m \in Nat \ {0}, n + 1 <= m
        PROVE  ClampPage(n + 1, m) = n + 1
    BY <2>2 DEF ClampPage, AtLeastOne
  <2>3. v.page = old.page + 1
    BY <1>1, <1>2, <2>1, <2>2
  <2> QED BY <2>1, <2>3
<1>5. PageBounds(old.page, v.pages, size, v.total)
  BY <1>1, <1>2, <1>3, Paging
<1>6. old.page * size \in Nat /\ old.page * size < v.total
  BY <1>3, <1>5 DEF PageBounds
<1>7. Len(w) = (v.page - 1) * size /\ Len(w) \in Nat
  <2>1. Len(w) = old.page * size
    BY <1>2, <1>6 DEF Reaches, PageEnd
  <2> QED BY <1>4, <1>6, <2>1
<1>8. /\ w \o v.items \in Seq(Item) /\ Len(w \o v.items) = Len(w) + Len(v.items)
      /\ \A i \in 1 .. Len(w) + Len(v.items) :
           (w \o v.items)[i] = IF i <= Len(w) THEN w[i] ELSE v.items[i - Len(w)]
  BY <1>2, ConcatProperties
<1>9. Len(w \o v.items) = PageEnd(v.page, size, Len(entries))
  BY <1>1, <1>2, <1>7, <1>8
<1>10. /\ DOMAIN (w \o v.items) = 1 .. Len(w) + Len(v.items)
       /\ DOMAIN w = 1 .. Len(w)
  BY <1>8, LenProperties
<1>11. ASSUME NEW n \in 1 .. Len(w) + Len(v.items)
       PROVE  (w \o v.items)[n].url = entries[n].url
  <2>1. CASE n <= Len(w)
    <3>1. n \in DOMAIN w /\ (w \o v.items)[n] = w[n]
      BY <1>7, <1>8, <1>10, <2>1
    <3> QED BY <3>1 DEF Reaches
  <2>2. CASE ~(n <= Len(w))
    <3>1. n - Len(w) \in 1 .. Len(v.items) /\ (v.page - 1) * size + (n - Len(w)) = n
      BY <1>1, <1>7, <2>2
    <3>2. (w \o v.items)[n] = v.items[n - Len(w)]
      BY <1>8, <2>2
    <3>3. v.items[n - Len(w)].url = entries[(v.page - 1) * size + (n - Len(w))].url
      BY <1>2, <3>1, Zenon
    <3> QED BY <3>1, <3>2, <3>3
  <2> QED BY <2>1, <2>2
<1> QED BY <1>2, <1>9, <1>10, <1>11, Zenon DEF Reaches

-----------------------------------------------------------------------------
(* The invariant. *)

\* What the server and the browser hold, apart from the reply in view.
StateOK ==
  /\ content \in [Playlists -> Contents] /\ pageSize \in PageSizes
  /\ edits \in 0 .. MaxEdits /\ steady \in BOOLEAN
  /\ sources \in Seq(Urls \cup {NotUrl}) /\ walk \in Seq(Item)

Size == AtLeastOne(pageSize)

Parts ==
  StateOK /\ GoodReply(view)
          /\ (steady => Reaches(walk, view, Expanded(sources), Size))

LEMMA InvIsParts == PreviewInv <=> Parts
<1> DEFINE ItemsTyped == \A i \in DOMAIN view.items : view.items[i].url \in Urls
           Reached == Reaches(walk, view, Expanded(sources), Size)
<1>1. WalkOK <=> Reached
  BY Zenon DEF WalkOK, Reaches, PageEnd, Size
<1>2. ASSUME view.items \in Seq(Item) PROVE ItemsTyped
  <2>1. \A i \in DOMAIN view.items : view.items[i] \in Item
    BY <1>2, LenProperties, ElementOfSeq
  <2> QED BY <2>1 DEF Item
<1>3. OfferedOnce <=> \A i, k \in DOMAIN view.items :
        view.items[i].ready /\ view.items[k].ready
          /\ view.items[i].url = view.items[k].url => i = k
  BY DEF OfferedOnce, Ready
<1> HIDE DEF ItemsTyped, Reached
<1>4. PreviewInv => Parts
  <2> SUFFICES ASSUME PreviewInv PROVE Parts
    OBVIOUS
  <2>1. StateOK
    BY DEF PreviewInv, PreviewTypeOK, StateOK
  <2>2. GoodReply(view)
    BY <1>3, Zenon DEF PreviewInv, PreviewTypeOK, NoDeadEnd, GoodReply
  <2> QED BY <1>1, <2>1, <2>2 DEF PreviewInv, Parts, Reached
<1>5. Parts => PreviewInv
  <2> SUFFICES ASSUME Parts PROVE PreviewInv
    OBVIOUS
  <2>1. PreviewTypeOK
    BY <1>2 DEF Parts, StateOK, GoodReply, PreviewTypeOK, ItemsTyped
  <2>2. NoDeadEnd /\ OfferedOnce
    BY <1>3, Zenon DEF Parts, GoodReply, NoDeadEnd
  <2> QED BY <1>1, <2>1, <2>2 DEF PreviewInv, Parts, StateOK, GoodReply, Reached
<1> QED BY <1>4, <1>5

LEMMA ListOfSources ==
  ASSUME NEW raw \in BoundedSeq(Urls \cup {NotUrl}, MaxSources)
  PROVE  raw \in Seq(Urls \cup {NotUrl})
<1>1. PICK n \in 0 .. MaxSources : raw \in [1 .. n -> Urls \cup {NotUrl}]
  BY DEF BoundedSeq, SeqOf
<1>2. n \in Nat
  BY BoundsAssumption
<1> QED BY <1>1, <1>2, SeqDef

LEMMA ReplyShows ==
  ASSUME StateOK, NEW raw \in Seq(Urls \cup {NotUrl}), NEW page \in Int, NEW found,
         NEW v, v = Page(raw, page, found)
  PROVE  Shows(v, page, Expanded(raw), Size) /\ GoodReply(v)
<1>1. content \in [Playlists -> Contents] /\ pageSize \in Nat
  BY PageSizesAssumption DEF StateOK
<1>2. Shows(v, page, Expanded(raw), Size)
  BY <1>1, PageShows DEF Size
<1>3. OnceEach(Expanded(raw))
  <2>1. AllEntries(raw) \in Seq(Entry)
    BY <1>1, AllEntriesType
  <2> DEFINE s == Expanded(raw)
  <2>2. \A k, l \in 1 .. Len(s) : s[k].ok /\ s[l].ok /\ s[k].url = s[l].url => k = l
    BY <2>1, ExpandedProperties
  <2> QED BY <2>2 DEF OnceEach
<1> QED BY <1>2, <1>3, ReplyIsGood

\* What a list stands for depends on the playlists alone.
LEMMA SameEntries ==
  ASSUME content' = content, NEW raw, sources' = raw
  PROVE  Expanded(sources)' = Expanded(raw)
BY DEF Expanded, AllEntries, Expand

LEMMA InitParts == PreviewInit => Parts
<1> SUFFICES ASSUME PreviewInit PROVE Parts
  OBVIOUS
<1>1. StateOK
  <2>1. sources \in Seq(Urls \cup {NotUrl}) /\ walk \in Seq(Item)
    BY EmptySeq DEF PreviewInit
  <2>2. edits \in 0 .. MaxEdits
    BY BoundsAssumption DEF PreviewInit
  <2> QED BY <2>1, <2>2, Zenon DEF PreviewInit, StateOK
<1>2. GoodReply(view)
  <2>1. <<>> \in Seq(Item) /\ DOMAIN <<>> = {}
    BY EmptySeq
  <2>2. view = Blank
    BY DEF PreviewInit
  <2>3. view.items = <<>> /\ view.page = 1 /\ view.pages = 1 /\ view.total = 0
    BY <2>2 DEF Blank
  <2> QED BY <2>1, <2>3 DEF GoodReply
<1> QED BY <1>1, <1>2 DEF PreviewInit, Parts

LEMMA SubmitParts ==
  ASSUME Parts, NEW raw \in BoundedSeq(Urls \cup {NotUrl}, MaxSources), Submit(raw)
  PROVE  Parts'
<1>1. PICK found \in SUBSET Urls : view' = Page(raw, 1, found)
  BY DEF Submit
<1>2. raw \in Seq(Urls \cup {NotUrl})
  BY ListOfSources
<1>3. Shows(view', 1, Expanded(raw), Size) /\ GoodReply(view')
  BY <1>1, <1>2, ReplyShows DEF Parts
<1>4. Reaches(view'.items, view', Expanded(raw), Size)
  BY <1>3, FirstPage
<1>5. Size' = Size /\ Expanded(sources)' = Expanded(raw) /\ walk' = view'.items
  <2>1. Expanded(sources)' = Expanded(raw)
    BY SameEntries DEF Submit
  <2> QED BY <2>1 DEF Submit, Size
<1>6. walk' \in Seq(Item)
  BY <1>3, <1>5 DEF GoodReply
<1>7. StateOK'
  BY <1>2, <1>6 DEF Submit, Parts, StateOK
<1>8. Reaches(walk, view, Expanded(sources), Size)'
  BY <1>4, <1>5, Zenon DEF Reaches
<1> QED BY <1>3, <1>7, <1>8, Zenon DEF Parts, GoodReply

LEMMA NextParts == ASSUME Parts, Next PROVE Parts'
<1>1. PICK found \in SUBSET Urls : view' = Page(sources, view.page + 1, found)
  BY DEF Next
<1>2. /\ sources \in Seq(Urls \cup {NotUrl}) /\ view.page \in 1 .. view.pages
      /\ view.page < view.pages /\ view.pages \in Nat
  BY DEF Parts, StateOK, GoodReply, Next, HasNext
<1>3. Shows(view', view.page + 1, Expanded(sources), Size) /\ GoodReply(view')
  <2>1. view.page + 1 \in Int
    BY <1>2
  <2> QED BY <1>1, <1>2, <2>1, ReplyShows DEF Parts
<1>4. Size' = Size /\ Expanded(sources)' = Expanded(sources)
  <2>1. Expanded(sources)' = Expanded(sources)
    BY SameEntries DEF Next
  <2> QED BY <2>1 DEF Next, Size
<1>5. CASE steady
  <2>1. walk' = walk \o view'.items /\ walk \in Seq(Item) /\ view'.items \in Seq(Item)
    BY <1>3, <1>5 DEF Next, Parts, StateOK, GoodReply
  <2>2. Reaches(walk \o view'.items, view', Expanded(sources), Size)
    BY <1>2, <1>3, <1>5, <2>1, NextPage DEF Parts
  <2>3. walk' \in Seq(Item)
    BY <2>1, ConcatProperties
  <2>4. StateOK'
    BY <2>3 DEF Next, Parts, StateOK
  <2>5. Reaches(walk, view, Expanded(sources), Size)'
    BY <1>4, <2>1, <2>2, Zenon DEF Reaches
  <2> QED BY <1>3, <2>4, <2>5, Zenon DEF Parts, GoodReply
<1>6. CASE ~steady
  <2>1. walk' = <<>> /\ <<>> \in Seq(Item) /\ ~steady'
    BY <1>6, EmptySeq DEF Next
  <2>2. StateOK'
    BY <2>1 DEF Next, Parts, StateOK
  <2> QED BY <1>3, <2>1, <2>2, Zenon DEF Parts, GoodReply
<1> QED BY <1>5, <1>6

LEMMA PreviousParts == ASSUME Parts, Previous PROVE Parts'
<1>1. PICK found \in SUBSET Urls : view' = Page(sources, view.page - 1, found)
  BY DEF Previous
<1>2. sources \in Seq(Urls \cup {NotUrl}) /\ view.page - 1 \in Int
  BY DEF Parts, StateOK, GoodReply
<1>3. GoodReply(view')
  BY <1>1, <1>2, ReplyShows DEF Parts
<1>4. walk' = <<>> /\ <<>> \in Seq(Item) /\ ~steady'
  BY EmptySeq DEF Previous
<1>5. StateOK'
  BY <1>4 DEF Previous, Parts, StateOK
<1> QED BY <1>3, <1>4, <1>5, Zenon DEF Parts, GoodReply

\* What changes behind the browser's back leaves its reply alone.
LEMMA ChangeParts ==
  ASSUME Parts,
         \/ \E u \in Playlists, c \in Contents : PlaylistChanges(u, c)
         \/ \E n \in PageSizes : PageSizeChanges(n)
  PROVE  Parts'
<1>1. walk' = <<>> /\ <<>> \in Seq(Item) /\ ~steady' /\ view' = view
  BY EmptySeq DEF PlaylistChanges, PageSizeChanges
<1>2. GoodReply(view')
  BY <1>1 DEF Parts
<1>3. content' \in [Playlists -> Contents] /\ pageSize' \in PageSizes
  BY DEF Parts, StateOK, PlaylistChanges, PageSizeChanges
<1>4. edits' \in 0 .. MaxEdits /\ sources' = sources
  BY BoundsAssumption DEF Parts, StateOK, PlaylistChanges, PageSizeChanges
<1>5. StateOK'
  <2>1. steady' \in BOOLEAN
    <3>1. steady' = FALSE
      BY DEF PlaylistChanges, PageSizeChanges
    <3> QED BY <3>1
  <2>2. sources' \in Seq(Urls \cup {NotUrl}) /\ walk' \in Seq(Item)
    BY <1>1, <1>4 DEF Parts, StateOK
  <2> QED BY <1>3, <1>4, <2>1, <2>2, Zenon DEF StateOK
<1> QED BY <1>1, <1>2, <1>5, Zenon DEF Parts, GoodReply

LEMMA AlwaysParts == PreviewSpec => []Parts
<1>1. Parts /\ [PreviewNext]_previewVars => Parts'
  <2> SUFFICES ASSUME Parts, [PreviewNext]_previewVars PROVE Parts'
    OBVIOUS
  <2>1. CASE UNCHANGED previewVars
    <3>1. Expanded(sources)' = Expanded(sources)
      BY <2>1, SameEntries DEF previewVars
    <3>2. StateOK' /\ GoodReply(view') /\ Size' = Size
      BY <2>1 DEF previewVars, Parts, StateOK, Size
    <3>3. Reaches(walk, view, Expanded(sources), Size)
            => Reaches(walk, view, Expanded(sources), Size)'
      BY <2>1, <3>1, <3>2, Zenon DEF previewVars, Reaches
    <3>4. steady' = steady
      BY <2>1 DEF previewVars
    <3> QED BY <3>2, <3>3, <3>4, Zenon DEF Parts, GoodReply
  <2> QED BY <2>1, SubmitParts, NextParts, PreviousParts, ChangeParts DEF PreviewNext
<1> QED BY <1>1, InitParts, PTL DEF PreviewSpec

-----------------------------------------------------------------------------
(***************************************************************************)
(* Every reply and every list the browser holds has its type, at any page  *)
(* size and for any contents of the playlists.                             *)
(***************************************************************************)
THEOREM PreviewTypes == PreviewSpec => []PreviewTypeOK
<1>1. Parts => PreviewTypeOK
  BY InvIsParts, Zenon DEF PreviewInv
<1> QED BY <1>1, AlwaysParts, PTL

(***************************************************************************)
(* resolve_batch_preview clamps the page it is asked for to those there    *)
(* are: no click leads to a page that does not exist, and no page is empty *)
(* while there is anything to show, although playlists and page size may   *)
(* have changed since the page before.                                     *)
(***************************************************************************)
THEOREM NoClickIsLost == PreviewSpec => []NoDeadEnd
<1>1. Parts => NoDeadEnd
  BY InvIsParts, Zenon DEF PreviewInv
<1> QED BY <1>1, AlwaysParts, PTL

(***************************************************************************)
(* A page never offers a video twice, whatever sources and playlists have  *)
(* in common: one click on "Enqueue selected" cannot add it twice.         *)
(***************************************************************************)
THEOREM VideosAreOfferedOnce == PreviewSpec => []OfferedOnce
<1>1. Parts => OfferedOnce
  BY InvIsParts, Zenon DEF PreviewInv
<1> QED BY <1>1, AlwaysParts, PTL

(***************************************************************************)
(* Who clicks Next to the last page has seen every entry exactly once and  *)
(* in order: the loop that drops repeated URLs and the arithmetic of pages *)
(* lose and repeat nothing, for lists, playlists and pages of any length.  *)
(***************************************************************************)
THEOREM WalksAreComplete == PreviewSpec => []WalkShowsAll
<1>1. Parts => WalkShowsAll
  <2> DEFINE all == AllEntries(sources)
             s == Expanded(sources)
             F == FirstPlaces(all)
  <2> SUFFICES ASSUME Parts, steady, ~HasNext
               PROVE  /\ Len(walk) = Cardinality(F)
                      /\ \A i \in F : walk[Rank(F, i)].url = all[i].url
    BY Zenon DEF WalkShowsAll
  <2>1. all \in Seq(Entry)
    BY AllEntriesType DEF Parts, StateOK
  <2>2. /\ s \in Seq(Entry) /\ Len(s) = Cardinality(F)
        /\ \A i \in F : Rank(F, i) \in 1 .. Len(s) /\ s[Rank(F, i)] = all[i]
    BY <2>1, ExpandedProperties
  <2> HIDE DEF all, s, F
  <2>3. /\ view.total = Len(s) /\ view.pages = PageCount(Len(s), Size)
        /\ Len(walk) = PageEnd(view.page, Size, Len(s))
        /\ \A n \in DOMAIN walk : walk[n].url = s[n].url
    BY DEF Parts, Reaches, s
  <2>4. view.page = view.pages /\ view.page \in 1 .. view.pages
    BY DEF HasNext, Parts, GoodReply
  <2>5. Len(s) \in Nat /\ Size \in Nat \ {0}
    BY <2>2, LenProperties, PageSizesAssumption DEF Parts, StateOK, Size, AtLeastOne
  <2>6. Len(walk) = Len(s)
    <3>1. PageBounds(view.page, view.pages, Size, Len(s))
      BY <2>3, <2>4, <2>5, Paging
    <3>2. view.page * Size \in Nat /\ Len(s) <= view.page * Size
      BY <2>4, <3>1 DEF PageBounds
    <3> QED BY <2>3, <2>5, <3>2 DEF PageEnd
  <2>7. DOMAIN walk = 1 .. Len(s)
    BY <2>6, LenProperties DEF Parts, StateOK
  <2> QED BY <2>2, <2>3, <2>6, <2>7, Zenon
<1> QED BY <1>1, AlwaysParts, PTL
=============================================================================
