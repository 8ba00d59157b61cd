--------------------------- MODULE RecursionLemmas ---------------------------
(***************************************************************************)
(* What the proofs need of recursive functions on numbers and of the       *)
(* flattening of sequences: a loop of the code is such a function.         *)
(***************************************************************************)
EXTENDS Integers, Sequences, SequencesExt, SequenceTheorems, WellFoundedInduction, TLAPS

(* Induction over numbers, about a set instead of a predicate. *)

LEMMA LeastNumber ==
  ASSUME NEW S \in SUBSET Nat, S # {}
  PROVE  \E m \in S : \A k \in S : m <= k
<1> DEFINE Less == OpToRel(<, Nat)
<1>1. \A k, n \in Nat : k < n => <<k, n>> \in Less
  BY Zenon DEF OpToRel
<1>2. IsWellFoundedOn(Less, Nat)
  BY NatLessThanWellFounded, Zenon
<1> HIDE DEF Less
<1>3. PICK m \in S : \A k \in S : ~(<<k, m>> \in Less)
  BY <1>2, WFMin, Zenon
<1>4. \A k \in S : k \in Nat /\ m \in Nat /\ ~(k < m)
  BY <1>1, <1>3, Zenon
<1> QED BY <1>4

LEMMA Induction ==
  ASSUME NEW m \in Nat, NEW S, 0 \in S,
         \A n \in 1 .. m : n - 1 \in S => n \in S
  PROVE  \A n \in 0 .. m : n \in S
<1> DEFINE Bad == {n \in 0 .. m : n \notin S}
<1> SUFFICES ASSUME Bad # {} PROVE FALSE
  OBVIOUS
<1>1. PICK n \in Bad : \A k \in Bad : n <= k
  <2>1. Bad \in SUBSET Nat
    OBVIOUS
  <2> HIDE DEF Bad
  <2> QED BY <2>1, LeastNumber
<1>2. n \in 1 .. m /\ n - 1 \in 0 .. m /\ n - 1 \notin Bad
  BY <1>1
<1>3. n - 1 \in S
  BY <1>2
<1> QED BY <1>2, <1>3

(***************************************************************************)
(* A function defined by its value at 0 and by a step from one value to    *)
(* the next exists.                                                        *)
(***************************************************************************)
Follows(f, m, T, base, step) ==
  /\ f \in [0 .. m -> T] /\ f[0] = base
  /\ \A n \in 1 .. m : f[n] = step[<<f[n - 1], n>>]

LEMMA RecursionExists ==
  ASSUME NEW m \in Nat, NEW T, NEW base \in T, NEW step \in [T \X (1 .. m) -> T]
  PROVE  \E f : Follows(f, m, T, base, step)
<1> DEFINE Good == {n \in 0 .. m : \E f : Follows(f, n, T, base, step)}
<1>1. 0 \in Good
  <2>1. Follows([i \in 0 .. 0 |-> base], 0, T, base, step)
    BY DEF Follows
  <2> QED BY <2>1
<1>2. ASSUME NEW n \in 1 .. m, n - 1 \in Good PROVE n \in Good
  <2>1. PICK g : Follows(g, n - 1, T, base, step)
    BY <1>2
  <2> DEFINE last == step[<<g[n - 1], n>>]
             f == [i \in 0 .. n |-> IF i = n THEN last ELSE g[i]]
  <2>2. g[n - 1] \in T /\ last \in T
    BY <2>1 DEF Follows
  <2> HIDE DEF last
  <2>3. f \in [0 .. n -> T]
    BY <2>1, <2>2 DEF Follows
  <2>4. f[0] = base
    BY <2>1 DEF Follows
  <2>5. ASSUME NEW i \in 1 .. n PROVE f[i] = step[<<f[i - 1], i>>]
    <3>1. CASE i = n
      <4>1. f[i] = last /\ f[i - 1] = g[n - 1]
        BY <3>1
      <4> QED BY <3>1, <4>1 DEF last
    <3>2. CASE i # n
      <4>1. i \in 1 .. (n - 1) /\ i - 1 \in 0 .. (n - 1)
        BY <3>2
      <4> QED BY <2>1, <3>2, <4>1 DEF Follows
    <3> QED BY <3>1, <3>2
  <2> HIDE DEF f
  <2>6. Follows(f, n, T, base, step)
    BY <2>3, <2>4, <2>5 DEF Follows
  <2> QED BY <2>6
<1> HIDE DEF Good
<1>3. m \in Good
  BY <1>1, <1>2, Induction
<1> QED BY <1>3 DEF Good

-----------------------------------------------------------------------------
(* Flattening, sequence by sequence. *)

Joins(f, seqs, S) ==
  /\ f \in [0 .. Len(seqs) -> Seq(S)] /\ f[0] = <<>>
  /\ \A n \in 1 .. Len(seqs) : f[n] = f[n - 1] \o seqs[n]

LEMMA FlattenJoins ==
  ASSUME NEW S, NEW seqs \in Seq(Seq(S))
  PROVE  \E f : Joins(f, seqs, S) /\ FlattenSeq(seqs) = f[Len(seqs)]
<1> DEFINE m == Len(seqs)
           flatten[i \in 1 .. m] == IF i = 1 THEN seqs[i] ELSE flatten[i - 1] \o seqs[i]
<1>1. m \in Nat /\ \A i \in 1 .. m : seqs[i] \in Seq(S)
  BY LenProperties, ElementOfSeq
<1>2. FlattenSeq(seqs) = IF m = 0 THEN seqs ELSE flatten[m]
  BY DEF FlattenSeq
<1>3. CASE m = 0
  <2>1. FlattenSeq(seqs) = <<>>
    BY <1>2, <1>3, EmptySeq
  <2>2. Joins([n \in 0 .. 0 |-> <<>>], seqs, S)
    BY <1>3, EmptySeq DEF Joins
  <2> QED BY <1>3, <2>1, <2>2
<1>4. CASE m # 0
  <2> DEFINE step == [p \in Seq(S) \X (1 .. m) |-> p[1] \o seqs[p[2]]]
  <2>1. step \in [Seq(S) \X (1 .. m) -> Seq(S)] /\ <<>> \in Seq(S)
    BY <1>1, ConcatProperties
  <2>2. \A s \in Seq(S) : \A n \in 1 .. m : step[<<s, n>>] = s \o seqs[n]
    OBVIOUS
  <2> HIDE DEF step, m
  <2>3. PICK f : Follows(f, m, Seq(S), <<>>, step)
    BY <1>1, <2>1, RecursionExists
  <2> DEFINE g == [i \in 1 .. m |-> f[i]]
  <2>4. ASSUME NEW i \in 1 .. m
        PROVE  g[i] = IF i = 1 THEN seqs[i] ELSE g[i - 1] \o seqs[i]
    <3>1. f[i] = step[<<f[i - 1], i>>] /\ f[i - 1] \in Seq(S)
      BY <1>1, <2>3 DEF Follows
    <3>2. f[i] = f[i - 1] \o seqs[i]
      BY <2>2, <3>1
    <3>3. CASE i = 1
      <4>1. f[i - 1] = <<>> /\ seqs[i] \in Seq(S)
        BY <1>1, <2>3, <3>3 DEF Follows
      <4>2. <<>> \o seqs[i] = seqs[i]
        BY <4>1, ConcatEmptySeq
      <4>3. g[i] = seqs[i]
        BY <3>2, <4>1, <4>2
      <4> QED BY <3>3, <4>3
    <3>4. CASE i # 1
      <4>1. i - 1 \in 1 .. m
        BY <1>1, <3>4
      <4>2. g[i] = f[i] /\ g[i - 1] = f[i - 1]
        BY <4>1
      <4> QED BY <3>2, <3>4, <4>2
    <3> QED BY <3>3, <3>4
  <2>5. g = [i \in 1 .. m |-> IF i = 1 THEN seqs[i] ELSE g[i - 1] \o seqs[i]]
    BY <2>4
  <2> HIDE DEF g
  <2>6. flatten = [i \in 1 .. m |-> IF i = 1 THEN seqs[i] ELSE flatten[i - 1] \o seqs[i]]
    BY <2>5
  <2> HIDE DEF flatten
  <2> DEFINE Typed == {n \in 0 .. m : n = 0 \/ flatten[n] \in Seq(S)}
  <2>7. 0 \in Typed
    BY <1>1
  <2>8. ASSUME NEW n \in 1 .. m, n - 1 \in Typed PROVE n \in Typed
    <3>1. flatten[n] = IF n = 1 THEN seqs[n] ELSE flatten[n - 1] \o seqs[n]
      BY <2>6
    <3>2. n = 1 \/ flatten[n - 1] \in Seq(S)
      BY <1>1, <2>8
    <3>3. flatten[n] \in Seq(S)
      BY <1>1, <3>1, <3>2, ConcatProperties
    <3> QED BY <1>1, <3>3
  <2> HIDE DEF Typed
  <2>9. \A n \in 0 .. m : n \in Typed
    BY <1>1, <2>7, <2>8, Induction
  <2> DEFINE h == [n \in 0 .. m |-> IF n = 0 THEN <<>> ELSE flatten[n]]
  <2>10. \A n \in 0 .. m : n # 0 => flatten[n] \in Seq(S)
    BY <2>9 DEF Typed
  <2>11. h \in [0 .. m -> Seq(S)] /\ h[0] = <<>> /\ h[m] = flatten[m]
    BY <1>1, <1>4, <2>1, <2>10
  <2>12. ASSUME NEW n \in 1 .. m PROVE h[n] = h[n - 1] \o seqs[n]
    <3>1. h[n] = IF n = 1 THEN seqs[n] ELSE flatten[n - 1] \o seqs[n]
      <4>1. flatten[n] = IF n = 1 THEN seqs[n] ELSE flatten[n - 1] \o seqs[n]
        BY <2>6
      <4>2. n \in 0 .. m /\ n # 0
        BY <1>1
      <4>3. h[n] = flatten[n]
        BY <4>2
      <4> QED BY <4>1, <4>3
    <3>2. CASE n = 1
      <4>1. h[n - 1] = <<>> /\ seqs[n] \in Seq(S)
        <5>1. n - 1 = 0
          BY <3>2
        <5> QED BY <1>1, <2>11, <5>1
      <4>2. <<>> \o seqs[n] = seqs[n]
        BY <4>1, ConcatEmptySeq
      <4> QED BY <3>1, <3>2, <4>1, <4>2
    <3>3. CASE n # 1
      <4>1. h[n - 1] = flatten[n - 1]
        BY <1>1, <3>3
      <4> QED BY <3>1, <3>3, <4>1
    <3> QED BY <3>2, <3>3
  <2> HIDE DEF h
  <2>13. Joins(h, seqs, S)
    BY <2>11, <2>12 DEF Joins, m
  <2> QED BY <1>2, <1>4, <2>11, <2>13 DEF m
<1> QED BY <1>3, <1>4

LEMMA FlattenType ==
  ASSUME NEW S, NEW seqs \in Seq(Seq(S)) PROVE FlattenSeq(seqs) \in Seq(S)
<1>1. PICK f : Joins(f, seqs, S) /\ FlattenSeq(seqs) = f[Len(seqs)]
  BY FlattenJoins
<1>2. Len(seqs) \in 0 .. Len(seqs)
  BY LenProperties
<1> QED BY <1>1, <1>2 DEF Joins
=============================================================================
