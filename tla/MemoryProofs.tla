---------------------------- MODULE MemoryProofs -----------------------------
(***************************************************************************)
(* The parts of the library that keep what they hold in memory or files of *)
(* their own.  First the structures linked on the heap: nxs-list           *)
(* implements a sequence with a position, nxs-stack one used at its head,  *)
(* and nxs-tree is one tree; for every heap, which is all that is assumed  *)
(* of it (Links).  Then the set of a poll, the lines of a log, the         *)
(* elements of an array and the bytes of a buffer, and the metadata of     *)
(* files packed into one; for all sets of descriptors, files, steps and    *)
(* strings, all widths of numbers, and however long they are used.         *)
(***************************************************************************)
EXTENDS LinkedList, TLAPS, FiniteSetTheorems, SequenceTheorems,
  WellFoundedInduction

USE HeapAssumption

(* The natural numbers are well founded.                                   *)
LEMMA NatLess == IsWellFoundedOn({ss \in Nat \X Nat : ss[1] < ss[2]}, Nat)
BY NatLessThanWellFounded DEF OpToRel

(* A set of natural numbers that is not empty has a least one: what the    *)
(* proofs by induction below rest on.                                      *)
LEMMA NatMin ==
  ASSUME NEW T \in SUBSET Nat, T # {}
  PROVE  \E n \in T : \A m \in T : n <= m
<1>1. PICK n \in T : \A m \in T :
        ~ (<<m, n>> \in {ss \in Nat \X Nat : ss[1] < ss[2]})
  BY NatLess, WFMin
<1>2. ASSUME NEW m \in T PROVE n <= m
  <2>1. m \in Nat /\ n \in Nat
    OBVIOUS
  <2>2. ~ (<<m, n>> \in {ss \in Nat \X Nat : ss[1] < ss[2]})
    BY <1>1
  <2>3. ~ (m < n)
    BY <2>1, <2>2
  <2>4. QED
    BY <2>1, <2>3
<1> QED BY <1>2

(* What a function that follows a link from e satisfies                    *)
Follows(f, link, e) ==
  f = [i \in 0 .. Cardinality(Elems) |->
        IF i = 0 THEN e ELSE IF f[i - 1] = NULL THEN NULL ELSE link[f[i - 1]]]

(* Followed is such a function, as there is one.                           *)
LEMMA FollowedDef ==
  ASSUME NEW link, NEW e, NEW w, Follows(w, link, e)
  PROVE  Follows(Followed(link, e), link, e)
BY DEF Followed, Follows

(* From the first element of a sequence that the links lead through, each  *)
(* element once, the links followed i times lead to the element after the  *)
(* i-th; the sequence is no longer than the heap.                          *)
LEMMA FollowedIs ==
  ASSUME NEW link, NEW e, NEW s \in Seq(Elems),
         Once(s), Linked(link, s), e = At(s, 1)
  PROVE  /\ Len(s) <= Cardinality(Elems)
         /\ \A i \in 0 .. Cardinality(Elems) : Followed(link, e)[i]
            = At(s, i + 1)
<1> DEFINE c == Cardinality(Elems)
           n == Len(s)
           w == [i \in 0 .. c |-> At(s, i + 1)]
           at == Followed(link, e)
<1>1. c \in Nat /\ n \in Nat /\ n <= c
  <2>1. s \in Injection(1 .. n, Elems)
    BY DEF Injection, Once, IsInjective
  <2>2. Cardinality(1 .. n) <= c
    BY <2>1, FS_Injection
  <2>3. Cardinality(1 .. n) = n
    <3>1. n \in Nat /\ 1 \in Int /\ n \in Int
      OBVIOUS
    <3>2. Cardinality(1 .. n) = IF 1 > n THEN 0 ELSE n - 1 + 1
      BY <3>1, FS_Interval
    <3> QED BY <3>1, <3>2
  <2> QED BY <2>2, <2>3, FS_CardinalityType
<1>2. \A i \in 1 .. n : s[i] \in Elems /\ s[i] # NULL
  OBVIOUS
<1>3. Follows(w, link, e)
  <2>1. ASSUME NEW i \in 0 .. c
        PROVE  w[i] = IF i = 0 THEN e ELSE IF w[i - 1] = NULL THEN NULL
               ELSE link[w[i - 1]]
    <3>1. CASE i = 0
      BY <3>1
    <3>2. CASE i # 0 /\ i <= n
      <4>1. w[i - 1] = s[i] /\ w[i] = At(s, i + 1)
        BY <3>2, <1>1 DEF At
      <4> QED BY <4>1, <3>2, <1>1, <1>2 DEF Linked
    <3>3. CASE i # 0 /\ ~ (i <= n)
      <4>1. w[i - 1] = NULL /\ w[i] = NULL
        BY <3>3, <1>1 DEF At
      <4> QED BY <4>1, <3>3
    <3> QED BY <3>1, <3>2, <3>3
  <2> QED BY <2>1 DEF Follows
<1>4. Follows(at, link, e)
  BY <1>3, FollowedDef
<1> HIDE DEF at, w
<1>5. \A i \in 0 .. c : at[i] = w[i]
  <2> DEFINE T == {i \in 0 .. c : at[i] # w[i]}
  <2>1. SUFFICES ASSUME T # {} PROVE FALSE
    OBVIOUS
  <2>2. PICK i \in T : \A j \in T : i <= j
    <3>1. T \in SUBSET Nat
      BY <1>1
    <3> HIDE DEF T
    <3> QED BY <2>1, <3>1, NatMin
  <2>3. i \in 0 .. c /\ at[i] # w[i]
    OBVIOUS
  <2>4. CASE i = 0
    BY <2>3, <2>4, <1>3, <1>4 DEF Follows
  <2>5. CASE i # 0
    <3>1. i - 1 \in 0 .. c /\ at[i - 1] = w[i - 1]
      BY <2>2, <2>3, <2>5, <1>1
    <3>2. at[i] = IF at[i - 1] = NULL THEN NULL ELSE link[at[i - 1]]
      BY <1>4, <2>3, <2>5 DEF Follows
    <3>3. w[i] = IF w[i - 1] = NULL THEN NULL ELSE link[w[i - 1]]
      BY <1>3, <2>3, <2>5 DEF Follows
    <3> QED BY <3>1, <3>2, <3>3, <2>3
  <2> QED BY <2>4, <2>5
<1>6. \A i \in 0 .. c : at[i] = At(s, i + 1)
  BY <1>5 DEF w
<1> QED BY <1>1, <1>6 DEF at

(* The walk from the first element of such a sequence is the sequence:     *)
(* what the structures' links read as is known from any sequence that they *)
(* lead through.                                                           *)
LEMMA WalkIs ==
  ASSUME NEW link, NEW e, NEW s \in Seq(Elems),
         Once(s), Linked(link, s), e = At(s, 1)
  PROVE  Walk(link, e) = s
<1> DEFINE c == Cardinality(Elems)
           n == Len(s)
           at == Followed(link, e)
           met == {i \in 0 .. c : at[i] # NULL}
<1>1. c \in Nat /\ n \in Nat /\ n <= c
  BY FollowedIs, FS_CardinalityType
<1>2. \A i \in 1 .. n : s[i] \in Elems /\ s[i] # NULL
  OBVIOUS
<1>6. \A i \in 0 .. c : at[i] = At(s, i + 1)
  BY FollowedIs
<1> HIDE DEF at
<1>7. \A i \in 0 .. c : at[i] # NULL <=> i \in 0 .. n - 1
  BY <1>6, <1>1, <1>2 DEF At
<1>8. met = 0 .. n - 1
  BY <1>7, <1>1
<1>9. Cardinality(met) = n
  <2>1. 0 \in Int /\ n - 1 \in Int
    BY <1>1
  <2>2. Cardinality(0 .. n - 1) = IF 0 > n - 1 THEN 0 ELSE n - 1 - 0 + 1
    BY <2>1, FS_Interval
  <2> HIDE DEF met
  <2> QED BY <1>1, <1>8, <2>2
<1>10. Walk(link, e) = [i \in 1 .. n |-> at[i - 1]]
  BY <1>9 DEF Walk, at
<1>11. \A i \in 1 .. n : at[i - 1] = s[i]
  BY <1>6, <1>1 DEF At
<1>12. s = [i \in 1 .. n |-> s[i]]
  OBVIOUS
<1> QED BY <1>10, <1>11, <1>12

(* s with e put at i, and without its i-th element                         *)
Ins(s, i, e) ==
  [k \in 1 .. Len(s) + 1 |-> IF k < i THEN s[k] ELSE IF k = i THEN e ELSE s[k -
    1]]
Without(s, i) ==
  [k \in 1 .. Len(s) - 1 |-> IF k < i THEN s[k] ELSE s[k + 1]]

(* The concatenations that ListSeq inserts and removes with are Ins and    *)
(* Without.                                                                *)
LEMMA InsertIs ==
  ASSUME NEW s \in Seq(Elems), NEW e \in Elems, NEW i \in 1 .. Len(s) + 1
  PROVE  /\ Ins(s, i, e) \in Seq(Elems) /\ Len(Ins(s, i, e)) = Len(s) + 1
         /\ SubSeq(s, 1, i - 1) \o <<e>> \o SubSeq(s, i, Len(s)) = Ins(s, i, e)
<1> DEFINE n == Len(s)
           a == SubSeq(s, 1, i - 1)
           b == SubSeq(s, i, n)
           t == Ins(s, i, e)
<1>1. n \in Nat /\ i \in Nat /\ i <= n + 1 /\ 1 <= i
  OBVIOUS
<1>2. \A k \in 1 .. n : s[k] \in Elems
  OBVIOUS
<1>3. \A k \in 1 .. n + 1 : t[k] \in Elems
  BY <1>1, <1>2 DEF Ins
<1>4. t \in [1 .. n + 1 -> Elems]
  BY <1>3, <1>1 DEF Ins
<1>5. t \in Seq(Elems) /\ Len(t) = n + 1
  BY <1>4, <1>1
<1>6. a \in Seq(Elems) /\ Len(a) = i - 1 /\ \A k \in 1 .. i - 1 : a[k] = s[k]
  BY <1>1
<1>7. b \in Seq(Elems) /\ Len(b) = n + 1 - i
        /\ \A k \in 1 .. n + 1 - i : b[k] = s[i + k - 1]
  BY <1>1
<1> DEFINE c == a \o <<e>>
<1>8. c \in Seq(Elems) /\ Len(c) = i
        /\ \A k \in 1 .. i : c[k] = IF k < i THEN s[k] ELSE e
  <2> HIDE DEF a
  <2> QED BY <1>1, <1>6
<1>9. c \o b \in Seq(Elems) /\ Len(c \o b) = n + 1
  /\ \A k \in 1 .. n + 1 : (c \o b)[k] = IF k < i THEN s[k]
     ELSE IF k = i THEN e ELSE s[k - 1]
  <2> HIDE DEF b, c
  <2>1. c \o b \in Seq(Elems) /\ Len(c \o b) = n + 1
    <3>1. c \o b \in Seq(Elems) /\ Len(c \o b) = Len(c) + Len(b)
      BY <1>7, <1>8, ConcatProperties
    <3> QED BY <1>1, <1>7, <1>8, <3>1
  <2>2. ASSUME NEW k \in 1 .. n + 1, k <= i
        PROVE  (c \o b)[k] = IF k < i THEN s[k] ELSE e
    <3>1. (c \o b)[k] = c[k]
      BY <2>2, <1>1, <1>7, <1>8
    <3> QED BY <2>2, <3>1, <1>1, <1>8
  <2>3. ASSUME NEW k \in 1 .. n + 1, k > i
        PROVE  (c \o b)[k] = s[k - 1]
    <3>1. (c \o b)[k] = b[k - i]
      BY <2>3, <1>1, <1>7, <1>8
    <3>2. k - i \in 1 .. n + 1 - i /\ i + (k - i) - 1 = k - 1
      BY <2>3, <1>1
    <3> QED BY <3>1, <3>2, <1>7
  <2> QED BY <2>1, <2>2, <2>3, <1>1
<1>10. c \o b = t
  <2> HIDE DEF b, c
  <2>1. \A k \in 1 .. n + 1 : (c \o b)[k] = t[k]
    BY <1>9 DEF Ins
  <2> HIDE DEF t
  <2> QED BY <2>1, <1>5, <1>9
<1> QED BY <1>5, <1>10

LEMMA DeleteIs ==
  ASSUME NEW s \in Seq(Elems), NEW i \in 1 .. Len(s)
  PROVE  /\ Without(s, i) \in Seq(Elems) /\ Len(Without(s, i)) = Len(s) - 1
         /\ SubSeq(s, 1, i - 1) \o SubSeq(s, i + 1, Len(s)) = Without(s, i)
<1> DEFINE n == Len(s)
           a == SubSeq(s, 1, i - 1)
           b == SubSeq(s, i + 1, n)
           t == Without(s, i)
<1>1. n \in Nat /\ i \in Nat /\ i <= n /\ 1 <= i
  OBVIOUS
<1>2. \A k \in 1 .. n : s[k] \in Elems
  OBVIOUS
<1>3. \A k \in 1 .. n - 1 : t[k] \in Elems
  BY <1>1, <1>2 DEF Without
<1>4. t \in [1 .. n - 1 -> Elems] /\ n - 1 \in Nat
  BY <1>3, <1>1 DEF Without
<1>5. t \in Seq(Elems) /\ Len(t) = n - 1
  <2> HIDE DEF t
  <2> QED BY <1>4
<1>6. a \in Seq(Elems) /\ Len(a) = i - 1 /\ \A k \in 1 .. i - 1 : a[k] = s[k]
  BY <1>1
<1>7. b \in Seq(Elems) /\ Len(b) = n - i
        /\ \A k \in 1 .. n - i : b[k] = s[i + k]
  BY <1>1
<1>8. a \o b \in Seq(Elems) /\ Len(a \o b) = n - 1
  /\ \A k \in 1 .. n - 1 : (a \o b)[k] = IF k < i THEN s[k] ELSE s[k + 1]
  <2> HIDE DEF a, b
  <2>1. a \o b \in Seq(Elems) /\ Len(a \o b) = Len(a) + Len(b)
    BY <1>6, <1>7, ConcatProperties
  <2>4. Len(a \o b) = n - 1
    BY <2>1, <1>1, <1>6, <1>7
  <2>2. ASSUME NEW k \in 1 .. n - 1, k < i
        PROVE  (a \o b)[k] = s[k]
    <3>1. (a \o b)[k] = a[k]
      BY <2>2, <1>1, <1>6, <1>7
    <3> QED BY <2>2, <3>1, <1>1, <1>6
  <2>3. ASSUME NEW k \in 1 .. n - 1, k >= i
        PROVE  (a \o b)[k] = s[k + 1]
    <3>1. (a \o b)[k] = b[k - (i - 1)]
      BY <2>3, <1>1, <1>6, <1>7
    <3>2. k - (i - 1) \in 1 .. n - i /\ i + (k - (i - 1)) = k + 1
      BY <2>3, <1>1
    <3> QED BY <3>1, <3>2, <1>7
  <2> QED BY <2>1, <2>2, <2>3, <2>4, <1>1
<1>9. a \o b = t
  <2> HIDE DEF a, b
  <2>1. \A k \in 1 .. n - 1 : (a \o b)[k] = t[k]
    BY <1>8 DEF Without
  <2> HIDE DEF t
  <2>2. a \o b = [k \in 1 .. n - 1 |-> (a \o b)[k]]
    <3> DEFINE d == a \o b
    <3>1. d \in Seq(Elems) /\ Len(d) = n - 1
      BY <1>8
    <3> HIDE DEF d
    <3>2. d = [k \in 1 .. n - 1 |-> d[k]]
      BY <3>1
    <3> QED BY <3>2 DEF d
  <2>3. t = [k \in 1 .. n - 1 |-> t[k]]
    BY <1>5
  <2> QED BY <2>1, <2>2, <2>3
<1> QED BY <1>5, <1>9

(* What links lead to when e is put between a and b: from a to e, and from *)
(* e to b; and when it is taken away from between them                     *)
Joined(old, new, e, a, b) ==
  \A x \in Elems : new[x] = IF x = e THEN b ELSE IF x = a THEN e ELSE old[x]
Bypassed(old, new, e, a, b) ==
  \A x \in Elems : x # e => new[x] = IF x = a THEN b ELSE old[x]

(* An insertion that joins e to its two neighbours leaves a list linked    *)
(* both ways.                                                              *)
LEMMA InsertLinked ==
  ASSUME NEW s \in Seq(Elems), NEW e \in Elems, NEW i \in 1 .. Len(s) + 1,
         NEW n, NEW p, NEW n2, NEW p2,
         Once(s), Linked(n, s), LinkedBack(p, s),
         \A k \in 1 .. Len(s) : s[k] # e,
         Joined(n, n2, e, At(s, i - 1), At(s, i)),
         Joined(p, p2, e, At(s, i), At(s, i - 1))
  PROVE  /\ Once(Ins(s, i, e)) /\ Linked(n2, Ins(s, i, e))
            /\ LinkedBack(p2, Ins(s, i, e))
<1> DEFINE c == Len(s)
           t == Ins(s, i, e)
<1> USE DEF Joined, Bypassed
<1>1. c \in Nat /\ i \in Nat /\ i <= c + 1 /\ 1 <= i
  OBVIOUS
<1>2. Len(t) = c + 1
  BY InsertIs
<1>3. \A k \in 1 .. c : s[k] \in Elems /\ s[k] # e
  OBVIOUS
<1>4. \A k \in 1 .. c + 1 : t[k] = IF k < i THEN s[k] ELSE IF k = i THEN e
        ELSE s[k - 1]
  BY DEF Ins
<1>5. \A k \in Int : At(t, k) = IF k < i THEN At(s, k) ELSE IF k = i THEN e
        ELSE At(s, k - 1)
  <2> HIDE DEF t
  <2> QED BY <1>1, <1>2, <1>4 DEF At
<1> HIDE DEF t
<1>6. Once(t)
  <2>1. SUFFICES ASSUME NEW k \in 1 .. c + 1, NEW j \in 1 .. c + 1, t[k] = t[j]
        PROVE  k = j
    BY <1>2 DEF Once
  <2> QED BY <2>1, <1>1, <1>3, <1>4 DEF Once
<1>7. ASSUME NEW k \in 1 .. c + 1
      PROVE  n2[t[k]] = At(t, k + 1) /\ p2[t[k]] = At(t, k - 1)
  <2>1. CASE k < i
    <3>1. k \in 1 .. c /\ t[k] = s[k] /\ s[k] \in Elems /\ s[k] # e
      BY <2>1, <1>1, <1>3, <1>4
    <3>2. n[s[k]] = At(s, k + 1) /\ p[s[k]] = At(s, k - 1)
      BY <3>1 DEF Linked, LinkedBack
    <3>3. At(s, k) = s[k] /\ At(t, k - 1) = At(s, k - 1)
      <4>1. k - 1 \in Int /\ k - 1 < i
        BY <2>1, <1>1
      <4> QED BY <3>1, <4>1, <1>5 DEF At
    <3>4. s[k] # At(s, i)
      BY <3>1, <2>1, <1>1 DEF At, Once
    <3>5. p2[t[k]] = At(t, k - 1)
      BY <3>1, <3>2, <3>3, <3>4
    <3>6. CASE k = i - 1
      BY <3>1, <3>3, <3>6, <1>1, <1>5, <3>5
    <3>7. CASE k < i - 1
      <4>1. s[k] # At(s, i - 1)
        BY <3>1, <3>7, <1>1 DEF At, Once
      <4>2. At(t, k + 1) = At(s, k + 1)
        BY <3>7, <1>5
      <4> QED BY <3>1, <3>2, <4>1, <4>2, <3>5
    <3> QED BY <2>1, <3>6, <3>7
  <2>2. CASE k = i
    BY <2>2, <1>1, <1>4, <1>5
  <2>3. CASE k > i
    <3>1. k - 1 \in 1 .. c /\ t[k] = s[k - 1] /\ s[k - 1] \in Elems
            /\ s[k - 1] # e
      BY <2>3, <1>1, <1>3, <1>4
    <3>2. n[s[k - 1]] = At(s, k) /\ p[s[k - 1]] = At(s, k - 2)
      BY <3>1 DEF Linked, LinkedBack
    <3>3. At(s, k - 1) = s[k - 1] /\ At(t, k + 1) = At(s, k)
      BY <3>1, <1>1, <1>5, <2>3 DEF At
    <3>4. s[k - 1] # At(s, i - 1)
      BY <3>1, <2>3, <1>1 DEF At, Once
    <3>5. n2[t[k]] = At(t, k + 1)
      BY <3>1, <3>2, <3>3, <3>4
    <3>6. CASE k = i + 1
      BY <3>1, <3>3, <3>6, <1>5, <3>5
    <3>7. CASE k > i + 1
      <4>1. s[k - 1] # At(s, i)
        BY <3>1, <3>7, <1>1 DEF At, Once
      <4>2. At(t, k - 1) = At(s, k - 2)
        BY <3>7, <1>5
      <4> QED BY <3>1, <3>2, <4>1, <4>2, <3>5
    <3> QED BY <2>3, <3>6, <3>7
  <2> QED BY <1>1, <2>1, <2>2, <2>3
<1>8. Linked(n2, t) /\ LinkedBack(p2, t)
  BY <1>2, <1>7 DEF Linked, LinkedBack
<1> QED BY <1>6, <1>8 DEF t

(* So does a removal that joins the neighbours to each other.              *)
LEMMA DeleteLinked ==
  ASSUME NEW s \in Seq(Elems), NEW i \in 1 .. Len(s),
         NEW n, NEW p, NEW n2, NEW p2,
         Once(s), Linked(n, s), LinkedBack(p, s),
         Bypassed(n, n2, s[i], At(s, i - 1), At(s, i + 1)),
         Bypassed(p, p2, s[i], At(s, i + 1), At(s, i - 1))
  PROVE  /\ Once(Without(s, i)) /\ Linked(n2, Without(s, i))
            /\ LinkedBack(p2, Without(s, i))
         /\ \A k \in 1 .. Len(s) - 1 : Without(s, i)[k] # s[i]
<1> DEFINE c == Len(s)
           t == Without(s, i)
<1> USE DEF Joined, Bypassed
<1>1. c \in Nat /\ i \in Nat /\ i <= c /\ 1 <= i
  OBVIOUS
<1>2. Len(t) = c - 1
  BY DeleteIs
<1>3. \A k \in 1 .. c : s[k] \in Elems
  OBVIOUS
<1>4. \A k \in 1 .. c - 1 : t[k] = IF k < i THEN s[k] ELSE s[k + 1]
  BY DEF Without
<1>5. \A k \in Int : At(t, k) = IF k < i THEN At(s, k) ELSE At(s, k + 1)
  <2> HIDE DEF t
  <2> QED BY <1>1, <1>2, <1>4 DEF At
<1> HIDE DEF t
<1>6. Once(t) /\ \A k \in 1 .. c - 1 : t[k] # s[i]
  <2>1. \A k \in 1 .. c - 1 : t[k] # s[i]
    BY <1>1, <1>4 DEF Once
  <2>2. ASSUME NEW k \in 1 .. c - 1, NEW j \in 1 .. c - 1, t[k] = t[j]
        PROVE  k = j
    BY <2>2, <1>1, <1>4 DEF Once
  <2> QED BY <2>1, <2>2, <1>2 DEF Once
<1>7. ASSUME NEW k \in 1 .. c - 1
      PROVE  n2[t[k]] = At(t, k + 1) /\ p2[t[k]] = At(t, k - 1)
  <2>1. CASE k < i
    <3>1. k \in 1 .. c /\ t[k] = s[k] /\ s[k] \in Elems /\ s[k] # s[i]
      BY <2>1, <1>1, <1>3, <1>4 DEF Once
    <3>2. n[s[k]] = At(s, k + 1) /\ p[s[k]] = At(s, k - 1)
      BY <3>1 DEF Linked, LinkedBack
    <3>3. At(s, k) = s[k] /\ At(t, k - 1) = At(s, k - 1)
      <4>1. k - 1 \in Int /\ k - 1 < i
        BY <2>1, <1>1
      <4> QED BY <3>1, <4>1, <1>5 DEF At
    <3>4. s[k] # At(s, i + 1)
      BY <3>1, <2>1, <1>1 DEF At, Once
    <3>5. p2[t[k]] = At(t, k - 1)
      BY <3>1, <3>2, <3>3, <3>4
    <3>6. CASE k = i - 1
      <4>1. At(t, k + 1) = At(s, i + 1)
        BY <3>6, <1>1, <1>5
      <4> QED BY <3>1, <3>3, <3>5, <3>6, <4>1
    <3>7. CASE k < i - 1
      <4>1. s[k] # At(s, i - 1)
        BY <3>1, <3>7, <1>1 DEF At, Once
      <4>2. k + 1 \in Int /\ k + 1 < i
        BY <3>7, <1>1
      <4>3. At(t, k + 1) = At(s, k + 1)
        BY <4>2, <1>5
      <4> QED BY <3>1, <3>2, <4>1, <4>3, <3>5
    <3> QED BY <2>1, <3>6, <3>7
  <2>2. CASE k >= i
    <3>1. k + 1 \in 1 .. c /\ t[k] = s[k + 1] /\ s[k + 1] \in Elems
            /\ s[k + 1] # s[i]
      BY <2>2, <1>1, <1>3, <1>4 DEF Once
    <3>2. n[s[k + 1]] = At(s, k + 2) /\ p[s[k + 1]] = At(s, k)
      BY <3>1 DEF Linked, LinkedBack
    <3>3. At(s, k + 1) = s[k + 1] /\ At(t, k + 1) = At(s, k + 2)
      BY <3>1, <1>1, <1>5, <2>2 DEF At
    <3>4. s[k + 1] # At(s, i - 1)
      BY <3>1, <2>2, <1>1 DEF At, Once
    <3>5. n2[t[k]] = At(t, k + 1)
      BY <3>1, <3>2, <3>3, <3>4
    <3>6. CASE k = i
      <4>1. At(t, k - 1) = At(s, i - 1)
        BY <3>6, <1>1, <1>5
      <4> QED BY <3>1, <3>3, <3>5, <3>6, <4>1
    <3>7. CASE k > i
      <4>1. s[k + 1] # At(s, i + 1)
        BY <3>1, <3>7, <1>1 DEF At, Once
      <4>2. At(t, k - 1) = At(s, k)
        BY <3>7, <1>5
      <4> QED BY <3>1, <3>2, <4>1, <4>2, <3>5
    <3> QED BY <2>2, <3>6, <3>7
  <2> QED BY <1>1, <2>1, <2>2
<1>8. Linked(n2, t) /\ LinkedBack(p2, t)
  BY <1>2, <1>7 DEF Linked, LinkedBack
<1> QED BY <1>6, <1>8 DEF t

(* The place of an element of a sequence that has each element once        *)
LEMMA PlaceIs ==
  ASSUME NEW s \in Seq(Elems), Once(s), NEW i \in 1 .. Len(s)
  PROVE  Place(s, s[i]) = i
<1>1. {j \in 1 .. Len(s) : s[j] = s[i]} = {i}
  BY DEF Once
<1>2. i = CHOOSE j \in {i} : TRUE
  OBVIOUS
<1> QED BY <1>1, <1>2 DEF Place
-----------------------------------------------------------------------------
(* What is found at an index is an element or nothing.                     *)
LEMMA AtType ==
  ASSUME NEW s \in Seq(Elems), NEW i \in Int
  PROVE  At(s, i) \in Pointer
BY DEF At, Pointer

(* A list in a state *)
LEMMA Shape ==
  ASSUME IInv
  PROVE  \E s \in Seq(Elems) :
           /\ s = Forward /\ Once(s) /\ Linked(next, s) /\ LinkedBack(prev, s)
           /\ head = At(s, 1) /\ tail = At(s, Len(s))
           /\ live = {s[i] : i \in 1 .. Len(s)} /\ count = Len(s)
           /\ ptr = NULL \/ \E i \in 1 .. Len(s) : ptr = s[i]
BY DEF IInv, BothLinked, TypeOK, Elements

(* The other way round: links that lead through s are the list s. *)
LEMMA ReadsAs ==
  ASSUME NEW s \in Seq(Elems), Once(s), Linked(next', s), LinkedBack(prev', s),
         head' = At(s, 1), tail' = At(s, Len(s))
  PROVE  Forward' = s /\ BothLinked'
<1>1. Forward' = s
  BY WalkIs DEF Forward
<1> QED BY <1>1 DEF BothLinked

(* The links back from the last element read as the sequence from its end. *)
LEMMA BackIs ==
  ASSUME NEW s \in Seq(Elems), Once(s), NEW link, LinkedBack(link, s)
  PROVE  Walk(link, At(s, Len(s))) = [i \in 1 .. Len(s) |-> s[Len(s) + 1 - i]]
<1> DEFINE n == Len(s)
           t == [i \in 1 .. n |-> s[n + 1 - i]]
<1>1. n \in Nat /\ \A i \in 1 .. n : s[i] \in Elems
  OBVIOUS
<1>2. \A i \in 1 .. n : n + 1 - i \in 1 .. n /\ t[i] = s[n + 1 - i]
  BY <1>1
<1>3. t \in Seq(Elems) /\ Len(t) = n
  <2>1. t \in [1 .. n -> Elems]
    BY <1>1, <1>2
  <2> HIDE DEF t
  <2> QED BY <2>1, <1>1
<1> HIDE DEF t
<1>4. Once(t)
  <2>1. SUFFICES ASSUME NEW i \in 1 .. n, NEW j \in 1 .. n, t[i] = t[j]
        PROVE  i = j
    BY <1>3 DEF Once
  <2>2. n + 1 - i = n + 1 - j
    BY <2>1, <1>2 DEF Once
  <2> QED BY <2>2, <1>1
<1>5. \A k \in Int : At(t, k) = At(s, n + 1 - k)
  BY <1>1, <1>2, <1>3 DEF At
<1>6. Linked(link, t)
  <2>1. SUFFICES ASSUME NEW i \in 1 .. n PROVE link[t[i]] = At(t, i + 1)
    BY <1>3 DEF Linked
  <2>2. link[s[n + 1 - i]] = At(s, n + 1 - i - 1)
    BY <1>2 DEF LinkedBack
  <2>3. At(t, i + 1) = At(s, n + 1 - (i + 1))
          /\ n + 1 - (i + 1) = n + 1 - i - 1
    BY <1>1, <1>5
  <2> QED BY <2>2, <2>3, <1>2
<1>7. At(s, n) = At(t, 1)
  <2>1. At(t, 1) = At(s, n + 1 - 1) /\ n + 1 - 1 = n
    BY <1>1, <1>5
  <2> QED BY <2>1
<1>8. Walk(link, At(s, n)) = t
  BY <1>3, <1>4, <1>6, <1>7, WalkIs
<1> QED BY <1>8 DEF t

(* The invariants follow. *)
LEMMA BothWaysHolds ==
  ASSUME IInv
  PROVE  BothWays
<1>1. PICK s \in Seq(Elems) :
           /\ s = Forward /\ Once(s) /\ Linked(next, s) /\ LinkedBack(prev, s)
           /\ head = At(s, 1) /\ tail = At(s, Len(s))
           /\ live = {s[i] : i \in 1 .. Len(s)} /\ count = Len(s)
  BY Shape
<1>2. Walk(prev, tail) = [i \in 1 .. Len(s) |-> s[Len(s) + 1 - i]]
  BY <1>1, BackIs
<1>3. Len(Walk(prev, tail)) = Len(s)
  BY <1>2
<1>4. \A i \in 1 .. Len(s) : Walk(prev, tail)[i] = s[Len(s) + 1 - i]
  BY <1>2
<1>5. Cardinality(live) = Len(s)
  <2>1. s \in Bijection(1 .. Len(s), live)
    BY <1>1 DEF Bijection, Injection, Surjection, IsInjective, Once
  <2>2. ExistsBijection(1 .. Len(s), live) /\ Len(s) \in Nat
    BY <2>1 DEF ExistsBijection
  <2> QED BY <2>2, FS_CountingElements
<1>6. live = Elements
  BY <1>1 DEF Elements
<1> QED BY <1>1, <1>3, <1>4, <1>5, <1>6 DEF BothWays

(* The position in a list in a state that satisfies the invariant, and     *)
(* after a step                                                            *)
LEMMA PositionIs ==
  ASSUME NEW s \in Seq(Elems), Once(s), NULL \notin Elems
  PROVE  /\ s = Forward /\ ptr = NULL => Position = 0
         /\ \A i \in 1 .. Len(s) : s = Forward /\ ptr = s[i] => Position = i
<1>1. \A i \in 1 .. Len(s) : s[i] # NULL /\ Place(s, s[i]) = i
  BY PlaceIs
<1> QED BY <1>1 DEF Position

LEMMA PositionIs2 ==
  ASSUME NEW s \in Seq(Elems), Once(s), NULL \notin Elems
  PROVE  /\ s = Forward' /\ ptr' = NULL => Position' = 0
         /\ \A i \in 1 .. Len(s) : s = Forward' /\ ptr' = s[i] => Position' = i
<1>1. \A i \in 1 .. Len(s) : s[i] # NULL /\ Place(s, s[i]) = i
  BY PlaceIs
<1> QED BY <1>1 DEF Position
-----------------------------------------------------------------------------
(* A list that reads as s *)
Reads(s) ==
  /\ s \in Seq(Elems) /\ s = Forward /\ Once(s) /\ Linked(next, s)
     /\ LinkedBack(prev, s)
  /\ head = At(s, 1) /\ tail = At(s, Len(s))
  /\ live = {s[i] : i \in 1 .. Len(s)} /\ count = Len(s)
  /\ ptr = NULL \/ \E i \in 1 .. Len(s) : ptr = s[i]

(* What a new element between two neighbours leaves of the invariant: a    *)
(* list that reads as the old one with the element in it.                  *)
LEMMA Inserted ==
  ASSUME IInv, NEW s, Reads(s),
         NEW e \in Elems, New(e), NEW i \in 1 .. Len(s) + 1,
         Link(e, At(s, i - 1), At(s, i)),
         head' = IF i = 1 THEN e ELSE head,
         tail' = IF i = Len(s) + 1 THEN e ELSE tail,
         ptr' = ptr \/ ptr' = e, UNCHANGED <<sized, callbacks, saved>>
  PROVE  IInv' /\ Forward' = Ins(s, i, e)
<1> DEFINE t == Ins(s, i, e)
<1>1. s \in Seq(Elems) /\ Len(s) \in Nat /\ i \in Nat /\ i <= Len(s) + 1
        /\ 1 <= i
  BY DEF Reads
<1>2. t \in Seq(Elems) /\ Len(t) = Len(s) + 1
  BY <1>1, InsertIs
<1>3. \A k \in 1 .. Len(s) : s[k] # e
  BY DEF Reads, New
<1>4. Once(t) /\ Linked(next', t) /\ LinkedBack(prev', t)
  <2>1. /\ Joined(next, next', e, At(s, i - 1), At(s, i))
        /\ Joined(prev, prev', e, At(s, i), At(s, i - 1))
    BY DEF Link, Joined
  <2>2. Once(s) /\ Linked(next, s) /\ LinkedBack(prev, s) /\ NULL \notin Elems
    BY DEF Reads
  <2> QED BY <1>1, <1>3, <2>1, <2>2, InsertLinked
<1>5. head' = At(t, 1) /\ tail' = At(t, Len(t))
  <2>1. t[1] = IF i = 1 THEN e ELSE s[1]
    BY <1>1 DEF Ins
  <2>2. t[Len(s) + 1] = IF i = Len(s) + 1 THEN e ELSE s[Len(s)]
    BY <1>1 DEF Ins
  <2> HIDE DEF t
  <2>3. head' = At(t, 1)
    BY <1>1, <1>2, <2>1 DEF At, Reads
  <2>4. tail' = At(t, Len(t))
    BY <1>1, <1>2, <2>2 DEF At, Reads
  <2> QED BY <2>3, <2>4
<1>6. Forward' = t /\ BothLinked'
  <2> HIDE DEF t
  <2> QED BY <1>2, <1>4, <1>5, ReadsAs
<1>7. live' = Elements'
  <2>1. {t[k] : k \in 1 .. Len(t)} = {s[k] : k \in 1 .. Len(s)} \cup {e}
    <3>1. \A k \in 1 .. Len(s) + 1 : t[k] = IF k < i THEN s[k]
            ELSE IF k = i THEN e ELSE s[k - 1]
      BY DEF Ins
    <3> HIDE DEF t
    <3>2. ASSUME NEW k \in 1 .. Len(t)
          PROVE  t[k] = e \/ \E j \in 1 .. Len(s) : t[k] = s[j]
      <4>1. k \in 1 .. Len(s) + 1
        BY <1>2
      <4>2. CASE k <= i
        BY <3>1, <4>1, <4>2, <1>1
      <4>3. CASE k > i
        <5>1. k - 1 \in 1 .. Len(s) /\ t[k] = s[k - 1]
          BY <3>1, <4>1, <4>3, <1>1
        <5> QED BY <5>1
      <4> QED BY <4>2, <4>3, <1>1
    <3>3. ASSUME NEW j \in 1 .. Len(s) PROVE \E k \in 1 .. Len(t) : s[j] = t[k]
      <4>1. CASE j < i
        BY <3>1, <4>1, <1>1, <1>2
      <4>2. CASE j >= i
        <5>1. j + 1 \in 1 .. Len(s) + 1 /\ t[j + 1] = s[j]
          BY <3>1, <4>2, <1>1
        <5> QED BY <5>1, <1>2
      <4> QED BY <4>1, <4>2, <1>1
    <3>4. i \in 1 .. Len(t) /\ t[i] = e
      BY <3>1, <1>1, <1>2
    <3> QED BY <3>2, <3>3, <3>4
  <2>2. live' = {s[k] : k \in 1 .. Len(s)} \cup {e}
    BY DEF New, Reads
  <2> HIDE DEF t
  <2> QED BY <2>1, <2>2, <1>6 DEF Elements
<1>8. count' = Len(Forward')
  BY <1>6, <1>2 DEF New, Reads
<1>9. TypeOK'
  <2>1. next' \in [Elems -> Pointer] /\ prev' \in [Elems -> Pointer]
    <3>1. At(s, i - 1) \in Pointer /\ At(s, i) \in Pointer /\ e \in Pointer
      BY <1>1, AtType DEF Pointer
    <3> QED BY <3>1 DEF Link, IInv, TypeOK
  <2>2. {head', tail', ptr'} \subseteq live' \cup {NULL}
    BY DEF IInv, TypeOK, New
  <2>3. data' \in [Elems -> {"none", "raw", "ready", "lost"}]
          /\ live' \subseteq Elems
    BY DEF IInv, TypeOK, New
  <2> QED BY <2>1, <2>2, <2>3 DEF IInv, TypeOK, New, Pointer
<1>10. NothingLost'
  BY DEF IInv, NothingLost, New, TypeOK
<1> QED BY <1>6, <1>7, <1>8, <1>9, <1>10 DEF IInv, New

(* And what the removal of the i-th element leaves                         *)
LEMMA Removed ==
  ASSUME IInv, NEW s, Reads(s), NEW i \in 1 .. Len(s), Drop(s[i]),
         next' \in [Elems -> Pointer], prev' \in [Elems -> Pointer],
         Bypassed(next, next', s[i], At(s, i - 1), At(s, i + 1)),
         Bypassed(prev, prev', s[i], At(s, i + 1), At(s, i - 1)),
         head' = IF i = 1 THEN At(s, 2) ELSE head,
         tail' = IF i = Len(s) THEN At(s, Len(s) - 1) ELSE tail,
         \/ ptr' = ptr /\ ptr # s[i]
         \/ ptr' = At(s, i - 1) \/ ptr' = At(s, i + 1),
         ret' \in Pointer, UNCHANGED <<sized, callbacks, saved>>
  PROVE  IInv' /\ Forward' = Without(s, i)
<1> DEFINE t == Without(s, i)
<1>1. s \in Seq(Elems) /\ Len(s) \in Nat /\ i \in Nat /\ i <= Len(s) /\ 1 <= i
  BY DEF Reads
<1>2. t \in Seq(Elems) /\ Len(t) = Len(s) - 1
  BY <1>1, DeleteIs
<1>3. /\ Once(t) /\ Linked(next', t) /\ LinkedBack(prev', t)
      /\ \A k \in 1 .. Len(s) - 1 : t[k] # s[i]
  <2>1. Once(s) /\ Linked(next, s) /\ LinkedBack(prev, s) /\ NULL \notin Elems
    BY DEF Reads
  <2> QED BY <1>1, <2>1, DeleteLinked
<1>4. \A k \in 1 .. Len(s) - 1 : t[k] = IF k < i THEN s[k] ELSE s[k + 1]
  BY DEF Without
<1> HIDE DEF t
<1>5. head' = At(t, 1) /\ tail' = At(t, Len(t))
  <2>1. head' = At(t, 1)
    BY <1>1, <1>2, <1>4 DEF At, Reads
  <2>2. tail' = At(t, Len(t))
    BY <1>1, <1>2, <1>4 DEF At, Reads
  <2> QED BY <2>1, <2>2
<1>6. Forward' = t /\ BothLinked'
  BY <1>2, <1>3, <1>5, ReadsAs
<1>7. {t[k] : k \in 1 .. Len(t)} = live'
  <2>1. live' = {s[k] : k \in 1 .. Len(s)} \ {s[i]}
    BY DEF Drop, Reads
  <2>2. ASSUME NEW k \in 1 .. Len(t)
        PROVE  t[k] # s[i] /\ \E j \in 1 .. Len(s) : t[k] = s[j]
    <3>1. k \in 1 .. Len(s) - 1
      BY <1>2
    <3>2. k \in 1 .. Len(s) /\ k + 1 \in 1 .. Len(s)
      BY <3>1, <1>1
    <3> QED BY <3>1, <3>2, <1>3, <1>4
  <2>3. ASSUME NEW j \in 1 .. Len(s), s[j] # s[i]
        PROVE  \E k \in 1 .. Len(t) : s[j] = t[k]
    <3>1. CASE j < i
      <4>1. j \in 1 .. Len(s) - 1 /\ t[j] = s[j]
        BY <3>1, <1>1, <1>4
      <4> QED BY <4>1, <1>2
    <3>2. CASE j > i
      <4>1. j - 1 \in 1 .. Len(s) - 1 /\ t[j - 1] = s[j]
        BY <3>2, <1>1, <1>4
      <4> QED BY <4>1, <1>2
    <3>3. j # i
      BY <2>3
    <3> QED BY <3>1, <3>2, <3>3, <1>1
  <2>4. {t[k] : k \in 1 .. Len(t)} \subseteq live'
    BY <2>1, <2>2
  <2>5. live' \subseteq {t[k] : k \in 1 .. Len(t)}
    BY <2>1, <2>3
  <2> QED BY <2>4, <2>5
<1>8. live' = Elements'
  BY <1>6, <1>7 DEF Elements
<1>9. count' = Len(Forward')
  BY <1>2, <1>6 DEF Drop, Reads
<1>10. TypeOK'
  <2>1. \A k \in {i - 1, i + 1, 2, Len(s) - 1} : At(s, k) = NULL
          \/ \E j \in 1 .. Len(s) : At(s, k) = s[j] /\ j = k
    BY DEF At
  <2>2. \A j \in 1 .. Len(s) : j # i => s[j] \in live'
    BY <1>1 DEF Drop, Reads, Once
  <2>3. ptr' \in live' \cup {NULL}
    <3>1. CASE ptr' = ptr /\ ptr # s[i]
      BY <3>1 DEF Drop, Reads
    <3>2. CASE ptr' = At(s, i - 1) \/ ptr' = At(s, i + 1)
      BY <3>2, <2>1, <2>2, <1>1
    <3> QED BY <3>1, <3>2
  <2>4. head' \in live' \cup {NULL}
    BY <2>1, <2>2, <1>1 DEF Reads, At
  <2>5. tail' \in live' \cup {NULL}
    BY <2>1, <2>2, <1>1 DEF Reads, At
  <2>6. data' \in [Elems -> {"none", "raw", "ready", "lost"}]
          /\ live' \subseteq Elems
    BY DEF IInv, TypeOK, Drop
  <2>7. count' \in Nat
    BY <1>2, <1>6, <1>9
  <2> QED BY <2>3, <2>4, <2>5, <2>6, <2>7 DEF IInv, TypeOK
<1>11. NothingLost'
  BY <1>1 DEF IInv, NothingLost, Drop, TypeOK
<1>12. ~sized' => live' = {}
  BY DEF IInv, Drop
<1> QED BY <1>6, <1>8, <1>9, <1>10, <1>11, <1>12 DEF IInv, t
-----------------------------------------------------------------------------
(* In every state the links read as some sequence, the one that is walked. *)
LEMMA ReadsSome ==
  ASSUME IInv
  PROVE  \E s : Reads(s)
BY Shape DEF Reads

(* The position in the list before and after a step *)
LEMMA CurIs ==
  ASSUME NEW s, Reads(s)
  PROVE  \/ ptr = NULL /\ Position = 0
         \/ \E j \in 1 .. Len(s) : ptr = s[j] /\ Position = j
<1>1. s \in Seq(Elems) /\ Once(s) /\ NULL \notin Elems /\ s = Forward
  BY DEF Reads
<1> QED BY <1>1, PositionIs DEF Reads

LEMMA CurIsNew ==
  ASSUME IInv', NEW t, t = Forward'
  PROVE  /\ ptr' = NULL => Position' = 0
         /\ \A i \in 1 .. Len(t) : ptr' = t[i] => Position' = i
<1>1. t \in Seq(Elems) /\ Once(t) /\ NULL \notin Elems
  BY DEF IInv, BothLinked
<1> QED BY <1>1, PositionIs2

(* An address that is not allocated is on no list.                         *)
LEMMA FreshIs ==
  ASSUME IInv, NEW e \in Elems, New(e)
  PROVE  e \in Abstract!Fresh
BY DEF IInv, New, Elements, Abstract!Fresh, Abstract!InUse, Abstract!Size

(* nxs_list_add_head, nxs_list_add_tail, nxs_list_add_after,               *)
(* nxs_list_add_before: each keeps the invariant and is the insertion of   *)
(* ListSeq.                                                                *)
LEMMA AddHeadStep ==
  ASSUME IInv, NEW e \in Elems, AddHead(e)
  PROVE  IInv' /\ Abstract!AddHead(e)
<1>1. PICK s : Reads(s)
  BY ReadsSome
<1>2. s \in Seq(Elems) /\ Len(s) \in Nat /\ s = Forward
        /\ 1 \in 1 .. Len(s) + 1
  BY <1>1 DEF Reads
<1>3. At(s, 0) = NULL /\ At(s, 1) = head /\ (tail = NULL <=> Len(s) = 0)
  BY <1>1 DEF At, Reads
<1>4. IInv' /\ Forward' = Ins(s, 1, e)
  <2>1. New(e) /\ Link(e, At(s, 1 - 1), At(s, 1))
          /\ UNCHANGED <<sized, callbacks, saved>>
    BY <1>3 DEF AddHead
  <2>2. head' = e /\ tail' = (IF 1 = Len(s) + 1 THEN e ELSE tail)
          /\ (ptr' = ptr \/ ptr' = e)
    BY <1>2, <1>3 DEF AddHead
  <2> QED BY <1>1, <1>2, <2>1, <2>2, Inserted
<1>5. Abstract!Insert(1, e)
  BY <1>2, <1>4, InsertIs DEF Abstract!Insert, Abstract!Size
<1>6. Position' = Position + 1
  <2> DEFINE t == Ins(s, 1, e)
  <2>1. Len(t) = Len(s) + 1 /\ t[1] = e
          /\ \A j \in 1 .. Len(s) : t[j + 1] = s[j]
    BY <1>2, InsertIs DEF Ins
  <2>2. t = Forward'
    BY <1>4
  <2> HIDE DEF t
  <2>3. CASE ptr = NULL /\ Position = 0
    <3>1. ptr' = t[1] /\ 1 \in 1 .. Len(t)
      BY <2>1, <2>3, <1>2 DEF AddHead
    <3> QED BY <3>1, <2>2, <2>3, <1>4, CurIsNew
  <2>4. ASSUME NEW j \in 1 .. Len(s), ptr = s[j], Position = j
        PROVE  Position' = Position + 1
    <3>1. ptr' = t[j + 1] /\ j + 1 \in 1 .. Len(t)
      BY <2>1, <2>4, <1>2 DEF AddHead
    <3> QED BY <3>1, <2>2, <2>4, <1>4, CurIsNew
  <2> QED BY <2>3, <2>4, <1>1, CurIs
<1> QED BY <1>4, <1>5, <1>6 DEF Abstract!AddHead, AddHead, New

LEMMA AddTailStep ==
  ASSUME IInv, NEW e \in Elems, AddTail(e)
  PROVE  IInv' /\ Abstract!AddTail(e)
<1>1. PICK s : Reads(s)
  BY ReadsSome
<1> DEFINE n == Len(s)
<1>2. s \in Seq(Elems) /\ n \in Nat /\ s = Forward /\ n + 1 \in 1 .. n + 1
  BY <1>1 DEF Reads
<1>3. At(s, n + 1) = NULL /\ At(s, n + 1 - 1) = tail /\ (head = NULL <=> n = 0)
  BY <1>1, <1>2 DEF At, Reads
<1>4. IInv' /\ Forward' = Ins(s, n + 1, e)
  <2>1. New(e) /\ Link(e, At(s, n + 1 - 1), At(s, n + 1))
          /\ UNCHANGED <<sized, callbacks, saved>>
    BY <1>3 DEF AddTail
  <2>2. head' = (IF n + 1 = 1 THEN e ELSE head) /\ tail' = e
          /\ (ptr' = ptr \/ ptr' = e)
    BY <1>2, <1>3 DEF AddTail
  <2> QED BY <1>1, <1>2, <2>1, <2>2, Inserted
<1>5. Abstract!Insert(Len(Forward) + 1, e)
  BY <1>2, <1>4, InsertIs DEF Abstract!Insert, Abstract!Size
<1>6. Position' = IF Position = 0 THEN n + 1 ELSE Position
  <2> DEFINE t == Ins(s, n + 1, e)
  <2>1. Len(t) = n + 1 /\ t[n + 1] = e /\ \A j \in 1 .. n : t[j] = s[j]
    BY <1>2, InsertIs DEF Ins
  <2>2. t = Forward'
    BY <1>4
  <2> HIDE DEF t
  <2>3. CASE ptr = NULL /\ Position = 0
    <3>1. ptr' = t[n + 1] /\ n + 1 \in 1 .. Len(t)
      BY <2>1, <2>3, <1>2 DEF AddTail
    <3> QED BY <3>1, <2>2, <2>3, <1>4, CurIsNew
  <2>4. ASSUME NEW j \in 1 .. n, ptr = s[j], Position = j
        PROVE  Position' = Position /\ Position # 0
    <3>1. ptr' = t[j] /\ j \in 1 .. Len(t)
      BY <2>1, <2>4, <1>2 DEF AddTail
    <3> QED BY <3>1, <2>2, <2>4, <1>4, CurIsNew
  <2> QED BY <2>3, <2>4, <1>1, CurIs
<1> QED BY <1>2, <1>4, <1>5, <1>6 DEF Abstract!AddTail, Abstract!Size, AddTail,
           New

LEMMA AddAfterStep ==
  ASSUME IInv, NEW e \in Elems, AddAfter(e)
  PROVE  IInv' /\ Abstract!AddAfter(e)
<1>1. PICK s : Reads(s)
  BY ReadsSome
<1>2. s \in Seq(Elems) /\ Len(s) \in Nat /\ s = Forward
  BY <1>1 DEF Reads
<1>3. CASE ptr = NULL /\ Position = 0
  BY <1>3, AddTailStep DEF AddAfter, Abstract!AddAfter
<1>4. ASSUME NEW j \in 1 .. Len(s), ptr = s[j], Position = j
      PROVE  IInv' /\ Abstract!AddAfter(e)
  <2>1. ptr # NULL /\ New(e) /\ Link(e, ptr, next[ptr]) /\ ptr' = e
    BY <1>2, <1>4 DEF AddAfter
  <2>2. next[ptr] = At(s, j + 1) /\ ptr = At(s, j + 1 - 1)
          /\ j + 1 \in 1 .. Len(s) + 1
    BY <1>1, <1>2, <1>4 DEF Reads, Linked, At
  <2>3. tail = ptr <=> j + 1 = Len(s) + 1
    BY <1>1, <1>2, <1>4 DEF Reads, Once, At
  <2>4. IInv' /\ Forward' = Ins(s, j + 1, e)
    <3>1. head' = (IF j + 1 = 1 THEN e ELSE head)
            /\ tail' = (IF j + 1 = Len(s) + 1 THEN e ELSE tail)
      BY <2>1, <2>3, <1>4 DEF AddAfter
    <3>2. UNCHANGED <<sized, callbacks, saved>>
      BY <2>1 DEF AddAfter
    <3>3. Link(e, At(s, j + 1 - 1), At(s, j + 1))
      BY <2>1, <2>2
    <3> QED BY <1>1, <2>1, <2>2, <3>1, <3>2, <3>3, Inserted
  <2>5. Abstract!Insert(j + 1, e)
    BY <1>2, <2>2, <2>4, InsertIs DEF Abstract!Insert, Abstract!Size
  <2>6. Position' = j + 1
    <3> DEFINE t == Ins(s, j + 1, e)
    <3>1. Len(t) = Len(s) + 1 /\ t[j + 1] = e
      BY <1>2, <2>2, InsertIs DEF Ins
    <3>2. t = Forward'
      BY <2>4
    <3> HIDE DEF t
    <3> QED BY <3>1, <3>2, <2>1, <2>2, <2>4, CurIsNew
  <2>7. ret' = e
    BY <2>1 DEF New
  <2> QED BY <1>4, <2>4, <2>5, <2>6, <2>7 DEF Abstract!AddAfter
<1> QED BY <1>1, <1>3, <1>4, CurIs

LEMMA AddBeforeStep ==
  ASSUME IInv, NEW e \in Elems, AddBefore(e)
  PROVE  IInv' /\ Abstract!AddBefore(e)
<1>1. PICK s : Reads(s)
  BY ReadsSome
<1>2. s \in Seq(Elems) /\ Len(s) \in Nat /\ s = Forward
  BY <1>1 DEF Reads
<1>3. CASE ptr = NULL /\ Position = 0
  BY <1>3, AddHeadStep DEF AddBefore, Abstract!AddBefore
<1>4. ASSUME NEW j \in 1 .. Len(s), ptr = s[j], Position = j
      PROVE  IInv' /\ Abstract!AddBefore(e)
  <2>1. ptr # NULL /\ New(e) /\ Link(e, prev[ptr], ptr) /\ ptr' = e
    BY <1>2, <1>4 DEF AddBefore
  <2>2. prev[ptr] = At(s, j - 1) /\ ptr = At(s, j) /\ j \in 1 .. Len(s) + 1
    BY <1>1, <1>2, <1>4 DEF Reads, LinkedBack, At
  <2>3. head = ptr <=> j = 1
    BY <1>1, <1>2, <1>4 DEF Reads, Once, At
  <2>4. IInv' /\ Forward' = Ins(s, j, e)
    <3>1. head' = (IF j = 1 THEN e ELSE head)
            /\ tail' = (IF j = Len(s) + 1 THEN e ELSE tail)
      BY <2>1, <2>3, <1>2, <1>4 DEF AddBefore
    <3>2. UNCHANGED <<sized, callbacks, saved>>
      BY <2>1 DEF AddBefore
    <3>3. Link(e, At(s, j - 1), At(s, j))
      BY <2>1, <2>2
    <3> QED BY <1>1, <2>1, <2>2, <3>1, <3>2, <3>3, Inserted
  <2>5. Abstract!Insert(j, e)
    BY <1>2, <2>2, <2>4, InsertIs DEF Abstract!Insert, Abstract!Size
  <2>6. Position' = j
    <3> DEFINE t == Ins(s, j, e)
    <3>1. Len(t) = Len(s) + 1 /\ t[j] = e
      BY <1>2, <2>2, InsertIs DEF Ins
    <3>2. t = Forward'
      BY <2>4
    <3> HIDE DEF t
    <3> QED BY <3>1, <3>2, <2>1, <2>2, <2>4, CurIsNew
  <2>7. ret' = e
    BY <2>1 DEF New
  <2> QED BY <1>4, <2>4, <2>5, <2>6, <2>7 DEF Abstract!AddBefore
<1> QED BY <1>1, <1>3, <1>4, CurIs
-----------------------------------------------------------------------------
(* What a removal at i leaves of the position *)
LEMMA CurAfterRemoval ==
  ASSUME NEW s \in Seq(Elems), Once(s), NEW i \in 1 .. Len(s),
         IInv', Forward' = Without(s, i)
  PROVE  /\ ptr' = NULL => Position' = 0
         /\ \A j \in 1 .. Len(s) : ptr' = s[j] /\ j < i => Position' = j
         /\ \A j \in 1 .. Len(s) : ptr' = s[j] /\ j > i => Position' = j - 1
<1> DEFINE t == Without(s, i)
<1>1. Len(t) = Len(s) - 1
        /\ \A j \in 1 .. Len(s) - 1 : t[j] = IF j < i THEN s[j] ELSE s[j + 1]
  BY DeleteIs DEF Without
<1>2. t = Forward'
  OBVIOUS
<1> HIDE DEF t
<1>3. /\ ptr' = NULL => Position' = 0
      /\ \A j \in 1 .. Len(t) : ptr' = t[j] => Position' = j
  BY <1>2, CurIsNew
<1>4. Len(s) \in Nat /\ i \in Nat
  OBVIOUS
<1>5. ASSUME NEW j \in 1 .. Len(s), j < i
      PROVE  j \in 1 .. Len(t) /\ t[j] = s[j]
  BY <1>1, <1>4, <1>5
<1>6. ASSUME NEW j \in 1 .. Len(s), j > i
      PROVE  j - 1 \in 1 .. Len(t) /\ t[j - 1] = s[j]
  BY <1>1, <1>4, <1>6
<1> QED BY <1>3, <1>5, <1>6

(* nxs_list_del_head, nxs_list_del_tail and nxs_list_del keep the          *)
(* invariant and are the removals of ListSeq.                              *)
LEMMA DelHeadStep ==
  ASSUME IInv, DelHead
  PROVE  IInv' /\ Abstract!DelHead
<1>1. PICK s : Reads(s)
  BY ReadsSome
<1>2. s \in Seq(Elems) /\ Len(s) \in Nat /\ s = Forward /\ Once(s)
        /\ \A j \in 1 .. Len(s) : s[j] \in Elems
  BY <1>1 DEF Reads
<1>3. 1 \in 1 .. Len(s) /\ head = s[1] /\ s[1] \in Elems /\ s # << >>
  BY <1>1, <1>2 DEF DelHead, Reads, At
<1>4. next[s[1]] = At(s, 2) /\ At(s, 0) = NULL
  BY <1>1, <1>3 DEF Reads, Linked, At
<1>5. At(s, 2) \in Pointer /\ (At(s, 2) = NULL <=> Len(s) <= 1)
  <2>1. At(s, 2) \in Pointer
    BY <1>2, AtType
  <2>2. NULL \notin Elems
    OBVIOUS
  <2>3. CASE Len(s) <= 1
    <3>1. 2 \notin 1 .. Len(s) /\ Len(s) \in Nat
      BY <2>3, <1>2
    <3> QED BY <2>1, <2>3, <3>1 DEF At
  <2>4. CASE Len(s) > 1
    <3>1. 2 \in 1 .. Len(s) /\ s[2] \in Elems
      BY <2>4, <1>2
    <3>2. Len(s) \in Nat
      BY <1>2
    <3> QED BY <2>1, <2>2, <2>4, <3>1, <3>2 DEF At
  <2> QED BY <2>3, <2>4, <1>2, <1>3
<1>6. IInv' /\ Forward' = Without(s, 1)
  <2>1. Drop(s[1]) /\ UNCHANGED <<sized, callbacks, saved>> /\ ret' \in Pointer
          /\ head' = At(s, 2)
    BY <1>3, <1>4, <1>5 DEF DelHead
  <2>2. next' \in [Elems -> Pointer] /\ prev' \in [Elems -> Pointer]
    BY DEF DelHead, IInv, TypeOK, Pointer
  <2>3. Bypassed(next, next', s[1], At(s, 1 - 1), At(s, 1 + 1))
    BY <1>2, <1>3, <1>4 DEF DelHead, IInv, TypeOK, Bypassed
  <2>4. Bypassed(prev, prev', s[1], At(s, 1 + 1), At(s, 1 - 1))
    BY <1>3, <1>4, <2>1 DEF DelHead, Bypassed
  <2>5. tail' = IF 1 = Len(s) THEN At(s, Len(s) - 1) ELSE tail
    <3>1. PICK n \in Nat : n = Len(s)
      BY <1>2
    <3>2. n \in 1 .. n /\ (At(s, 2) = NULL <=> n <= 1)
      BY <1>3, <1>5, <3>1
    <3>3. n = 1 => At(s, n - 1) = NULL
      BY <3>1 DEF At
    <3>4. tail' = IF n <= 1 THEN NULL ELSE tail
      BY <2>1, <3>2 DEF DelHead
    <3> QED BY <3>1, <3>2, <3>3, <3>4
  <2>6. head' = IF 1 = 1 THEN At(s, 2) ELSE head
    BY <2>1
  <2>7. \/ ptr' = ptr /\ ptr # s[1]
        \/ ptr' = At(s, 1 - 1) \/ ptr' = At(s, 1 + 1)
    BY <2>1, <1>3 DEF DelHead
  <2> QED BY <1>1, <1>3, <2>1, <2>2, <2>3, <2>4, <2>5, <2>6, <2>7, Removed
<1>7. Abstract!Delete(1)
  BY <1>2, <1>3, <1>6, DeleteIs DEF Abstract!Delete, Abstract!Size
<1>8. ret' = At(s, 2) /\ ptr' = IF ptr = s[1] THEN At(s, 2) ELSE ptr
  BY <1>3, <1>4 DEF DelHead
<1>9. Position' = IF Position = 1
        /\ Len(s) > 1 THEN 1 ELSE IF Position = 0 THEN 0 ELSE Position - 1
  <2>1. CASE ptr = NULL /\ Position = 0
    BY <2>1, <1>2, <1>3, <1>6, <1>8, CurAfterRemoval
  <2>2. ASSUME NEW j \in 1 .. Len(s), ptr = s[j], Position = j
        PROVE  Position' = IF j = 1 /\ Len(s) > 1 THEN 1 ELSE j - 1
    <3>1. CASE j > 1
      <4>1. ptr' = s[j]
        BY <2>2, <3>1, <1>2, <1>3, <1>8 DEF Once
      <4> QED BY <4>1, <2>2, <3>1, <1>2, <1>3, <1>6, CurAfterRemoval
    <3>2. CASE j = 1 /\ Len(s) > 1
      <4>1. ptr' = s[2] /\ 2 \in 1 .. Len(s)
        BY <2>2, <3>2, <1>2, <1>8 DEF At
      <4> QED BY <4>1, <3>2, <1>2, <1>3, <1>6, CurAfterRemoval
    <3>3. CASE j = 1 /\ Len(s) <= 1
      BY <2>2, <3>3, <1>2, <1>3, <1>5, <1>6, <1>8, CurAfterRemoval
    <3>4. j > 1 \/ (j = 1 /\ Len(s) > 1) \/ (j = 1 /\ Len(s) <= 1)
      <4>1. Len(s) \in Nat /\ j \in 1 .. Len(s)
        BY <1>2, <2>2
      <4> QED BY <4>1
    <3> QED BY <3>1, <3>2, <3>3, <3>4
  <2> QED BY <2>1, <2>2, <1>1, CurIs
<1>10. At(s, 2) = Abstract!ElementAt(Forward, 2)
  BY <1>2 DEF At, Abstract!ElementAt
<1> QED BY <1>2, <1>3, <1>6, <1>7, <1>8, <1>9, <1>10 DEF Abstract!DelHead,
           Abstract!Size

LEMMA DelTailStep ==
  ASSUME IInv, DelTail
  PROVE  IInv' /\ Abstract!DelTail
<1>1. PICK s : Reads(s)
  BY ReadsSome
<1> DEFINE n == Len(s)
<1>2. s \in Seq(Elems) /\ n \in Nat /\ s = Forward /\ Once(s)
        /\ \A j \in 1 .. n : s[j] \in Elems
  BY <1>1 DEF Reads
<1>3. n \in 1 .. n /\ tail = s[n] /\ s[n] \in Elems /\ s # << >>
  BY <1>1, <1>2 DEF DelTail, Reads, At
<1>4. prev[s[n]] = At(s, n - 1) /\ At(s, n + 1) = NULL
  BY <1>1, <1>2, <1>3 DEF Reads, LinkedBack, At
<1>5. At(s, n - 1) \in Pointer /\ (At(s, n - 1) = NULL <=> n <= 1)
  <2>1. At(s, n - 1) \in Pointer
    BY <1>2, AtType
  <2>2. NULL \notin Elems
    OBVIOUS
  <2>3. CASE n <= 1
    <3>1. n - 1 \notin 1 .. n /\ n \in Nat
      BY <2>3, <1>2
    <3> QED BY <2>1, <2>3, <3>1 DEF At
  <2>4. CASE n > 1
    <3>1. n - 1 \in 1 .. n /\ s[n - 1] \in Elems
      BY <2>4, <1>2
    <3>2. Len(s) \in Nat
      BY <1>2
    <3> QED BY <2>1, <2>2, <2>4, <3>1, <3>2 DEF At
  <2>5. n <= 1 \/ n > 1
    <3>1. n \in Nat /\ n \in 1 .. n
      BY <1>2, <1>3
    <3> HIDE DEF n
    <3> QED BY <3>1
  <2> QED BY <2>3, <2>4, <2>5
<1>6. IInv' /\ Forward' = Without(s, n)
  <2>1. Drop(s[n]) /\ UNCHANGED <<sized, callbacks, saved>> /\ ret' \in Pointer
          /\ tail' = At(s, n - 1)
    BY <1>3, <1>4, <1>5 DEF DelTail
  <2>2. next' \in [Elems -> Pointer] /\ prev' \in [Elems -> Pointer]
    BY DEF DelTail, IInv, TypeOK, Pointer
  <2>3. Bypassed(next, next', s[n], At(s, n - 1), At(s, n + 1))
    BY <1>3, <1>4, <2>1 DEF DelTail, Bypassed
  <2>4. Bypassed(prev, prev', s[n], At(s, n + 1), At(s, n - 1))
    BY <1>2, <1>3, <1>4 DEF DelTail, IInv, TypeOK, Bypassed
  <2>5. head' = IF n = 1 THEN At(s, 2) ELSE head
    <3>1. PICK c \in Nat : c = n
      BY <1>2
    <3>2. c \in 1 .. c /\ (At(s, n - 1) = NULL <=> c <= 1)
      BY <1>3, <1>5, <3>1
    <3>3. c = 1 => At(s, 2) = NULL
      BY <3>1 DEF At
    <3>4. head' = IF c <= 1 THEN NULL ELSE head
      BY <2>1, <3>2 DEF DelTail
    <3> QED BY <3>1, <3>2, <3>3, <3>4
  <2>6. tail' = IF n = n THEN At(s, n - 1) ELSE tail
    BY <2>1
  <2>7. \/ ptr' = ptr /\ ptr # s[n]
        \/ ptr' = At(s, n - 1) \/ ptr' = At(s, n + 1)
    BY <2>1, <1>3 DEF DelTail
  <2> QED BY <1>1, <1>3, <2>1, <2>2, <2>3, <2>4, <2>5, <2>6, <2>7, Removed
<1>7. Abstract!Delete(n)
  BY <1>2, <1>3, <1>6, DeleteIs DEF Abstract!Delete, Abstract!Size
<1>8. ret' = At(s, n - 1) /\ ptr' = IF ptr = s[n] THEN At(s, n - 1) ELSE ptr
  BY <1>3, <1>4 DEF DelTail
<1>9. Position' = IF Position = n THEN n - 1 ELSE Position
  <2>1. CASE ptr = NULL /\ Position = 0
    BY <2>1, <1>2, <1>3, <1>6, <1>8, CurAfterRemoval
  <2>2. ASSUME NEW j \in 1 .. n, ptr = s[j], Position = j
        PROVE  Position' = IF j = n THEN n - 1 ELSE j
    <3>1. CASE j < n
      <4>1. ptr' = s[j]
        BY <2>2, <3>1, <1>2, <1>3, <1>8 DEF Once
      <4> QED BY <4>1, <2>2, <3>1, <1>2, <1>3, <1>6, CurAfterRemoval
    <3>2. CASE j = n /\ n > 1
      <4>1. ptr' = s[n - 1] /\ n - 1 \in 1 .. n
        BY <2>2, <3>2, <1>2, <1>8 DEF At
      <4> QED BY <4>1, <3>2, <1>2, <1>3, <1>6, CurAfterRemoval
    <3>3. CASE j = n /\ n = 1
      BY <2>2, <3>3, <1>2, <1>3, <1>5, <1>6, <1>8, CurAfterRemoval
    <3>4. j < n \/ (j = n /\ n > 1) \/ (j = n /\ n = 1)
      <4> HIDE DEF n
      <4> QED BY <1>2, <2>2
    <3> QED BY <3>1, <3>2, <3>3, <3>4
  <2> QED BY <2>1, <2>2, <1>1, CurIs
<1>10. At(s, n - 1) = Abstract!ElementAt(Forward, n - 1)
  BY <1>2 DEF At, Abstract!ElementAt
<1> QED BY <1>2, <1>3, <1>6, <1>7, <1>8, <1>9, <1>10 DEF Abstract!DelTail,
           Abstract!Size

LEMMA DelStep ==
  ASSUME IInv, NEW on \in BOOLEAN, Del(on)
  PROVE  IInv' /\ Abstract!Del(on)
<1>1. PICK s : Reads(s)
  BY ReadsSome
<1> DEFINE n == Len(s)
<1>2. s \in Seq(Elems) /\ n \in Nat /\ s = Forward /\ Once(s)
        /\ \A j \in 1 .. n : s[j] \in Elems
  BY <1>1 DEF Reads
<1>3. PICK j \in 1 .. n : ptr = s[j] /\ Position = j
  BY <1>1, CurIs DEF Del
<1>4. next[s[j]] = At(s, j + 1) /\ prev[s[j]] = At(s, j - 1)
  BY <1>1, <1>3 DEF Reads, Linked, LinkedBack
<1>5. /\ At(s, j + 1) \in Pointer /\ (At(s, j + 1) = NULL <=> j = n)
      /\ At(s, j - 1) \in Pointer /\ (At(s, j - 1) = NULL <=> j = 1)
  BY <1>2, <1>3, AtType DEF At
<1>6. IInv' /\ Forward' = Without(s, j)
  <2>1. Drop(s[j]) /\ UNCHANGED <<sized, callbacks, saved>> /\ ret' \in Pointer
        /\ (ptr' = At(s, j - 1) \/ ptr' = At(s, j + 1))
    BY <1>3, <1>4, <1>5 DEF Del
  <2>2. next' \in [Elems -> Pointer] /\ prev' \in [Elems -> Pointer]
    BY <1>3, <1>4, <1>5 DEF Del, IInv, TypeOK, Pointer
  <2>3. Bypassed(next, next', s[j], At(s, j - 1), At(s, j + 1))
    BY <1>3, <1>4 DEF Del, Bypassed
  <2>4. Bypassed(prev, prev', s[j], At(s, j + 1), At(s, j - 1))
    BY <1>3, <1>4 DEF Del, Bypassed
  <2>5. head' = (IF j = 1 THEN At(s, 2) ELSE head)
        /\ tail' = (IF j = n THEN At(s, n - 1) ELSE tail)
    BY <1>3, <1>4, <1>5 DEF Del
  <2> QED BY <1>1, <1>3, <2>1, <2>2, <2>3, <2>4, <2>5, Removed
<1>7. Abstract!Delete(Position)
  BY <1>2, <1>3, <1>6, DeleteIs DEF Abstract!Delete, Abstract!Size
<1>8. ret' = ptr' /\ ptr' = IF on THEN At(s, j + 1) ELSE At(s, j - 1)
  BY <1>3, <1>4 DEF Del
<1>9. Position' = IF ~on THEN j - 1 ELSE IF j = n THEN 0 ELSE j
  <2>1. CASE ptr' = NULL
    <3>1. IF on THEN j = n ELSE j = 1
      BY <2>1, <1>5, <1>8
    <3> QED BY <2>1, <3>1, <1>2, <1>3, <1>6, CurAfterRemoval
  <2>2. CASE on /\ ptr' # NULL
    <3>1. ptr' = s[j + 1] /\ j + 1 \in 1 .. n /\ j # n
      BY <2>2, <1>2, <1>3, <1>8 DEF At
    <3> QED BY <2>2, <3>1, <1>2, <1>3, <1>6, CurAfterRemoval
  <2>3. CASE ~on /\ ptr' # NULL
    <3>1. ptr' = s[j - 1] /\ j - 1 \in 1 .. n
      BY <2>3, <1>2, <1>3, <1>8 DEF At
    <3> QED BY <2>3, <3>1, <1>2, <1>3, <1>6, CurAfterRemoval
  <2> QED BY <2>1, <2>2, <2>3
<1>10. \A k \in Int : At(s, k) = Abstract!ElementAt(Forward, k)
  BY <1>2 DEF At, Abstract!ElementAt
<1>11. ret' = Abstract!ElementAt(Forward, IF on THEN j + 1 ELSE j - 1)
  BY <1>3, <1>8, <1>10
<1> QED BY <1>2, <1>3, <1>6, <1>7, <1>9, <1>11 DEF Abstract!Del, Abstract!Size
-----------------------------------------------------------------------------
(* nxs_list_free, nxs_list_init and nxs_list_clear leave an empty list.    *)
LEMMA EmptyReads ==
  ASSUME Linked(next', << >>), head' = NULL, tail' = NULL
  PROVE  Forward' = << >> /\ BothLinked'
<1>1. << >> \in Seq(Elems) /\ Len(<< >>) = 0
  OBVIOUS
<1>2. Once(<< >>) /\ LinkedBack(prev', << >>) /\ At(<< >>, 1) = NULL
        /\ At(<< >>, Len(<< >>)) = NULL
  BY <1>1 DEF Once, LinkedBack, At
<1> QED BY <1>1, <1>2, ReadsAs

LEMMA EmptyPosition ==
  ASSUME ptr' = NULL PROVE Position' = 0
BY DEF Position

LEMMA EmptyStep ==
  ASSUME IInv, Empty, sized' \in BOOLEAN, callbacks' \in BOOLEAN
  PROVE  IInv' /\ Abstract!Clear
<1>1. Linked(next', << >>)
  BY DEF Linked
<1>2. Forward' = << >> /\ BothLinked' /\ Position' = 0
  BY <1>1, EmptyReads, EmptyPosition DEF Empty
<1>3. live' = {} /\ Elements' = {}
  BY <1>2 DEF Empty, IInv, Elements
<1>4. TypeOK'
  BY <1>3 DEF Empty, IInv, TypeOK, Pointer
<1>5. NothingLost'
  BY <1>3 DEF Empty, IInv, NothingLost
<1>6. count' = Len(Forward')
  BY <1>2 DEF Empty
<1> QED BY <1>2, <1>3, <1>4, <1>5, <1>6 DEF IInv, Abstract!Clear, Empty

LEMMA ListInitStep ==
  ASSUME IInv, NEW with \in BOOLEAN, ListInit(with)
  PROVE  IInv' /\ UNCHANGED <<Forward, Position, ret>>
<1>1. PICK s : Reads(s)
  BY ReadsSome
<1>2. live = {} /\ s = << >>
  BY <1>1 DEF IInv, ListInit, Reads
<1>3. Forward = << >> /\ ptr = NULL /\ head = NULL /\ tail = NULL /\ count = 0
  BY <1>1, <1>2 DEF Reads, At
<1>4. UNCHANGED <<Forward, Position, ret>>
  BY <1>3 DEF ListInit, heap, Forward, Position
<1>5. BothLinked' /\ Elements' = Elements
  BY <1>3, <1>4 DEF ListInit, heap, BothLinked, IInv, Elements
<1>6. TypeOK' /\ NothingLost'
  BY <1>2, <1>3 DEF ListInit, heap, TypeOK, IInv, NothingLost
<1> QED BY <1>2, <1>3, <1>4, <1>5, <1>6 DEF IInv, ListInit, heap

(* The position goes to an element of the list, or nowhere. *)
LEMMA PtrToStep ==
  ASSUME IInv, NEW s, Reads(s), NEW e, PtrTo(e)
  PROVE  /\ e = NULL => IInv' /\ Abstract!Move(0)
         /\ \A i \in 1 .. Len(s) : e = s[i] => IInv' /\ Abstract!Move(i)
<1>1. s \in Seq(Elems) /\ s = Forward /\ Len(s) \in Nat
  BY DEF Reads
<1>2. Forward' = Forward /\ Elements' = Elements
  BY DEF PtrTo, heap, Forward, Elements
<1>3. SUFFICES ASSUME e = NULL \/ \E i \in 1 .. Len(s) : e = s[i]
               PROVE  /\ IInv'
                      /\ e = NULL => Abstract!Move(0)
                      /\ \A i \in 1 .. Len(s) : e = s[i] => Abstract!Move(i)
  OBVIOUS
<1>4. e \in live \cup {NULL}
  BY <1>3 DEF Reads
<1>5. TypeOK'
  BY <1>4 DEF PtrTo, heap, IInv, TypeOK, Pointer
<1>6. BothLinked' /\ NothingLost'
  BY <1>2 DEF PtrTo, heap, IInv, BothLinked, NothingLost
<1>7. IInv'
  BY <1>2, <1>5, <1>6 DEF PtrTo, heap, IInv
<1>8. e = NULL => Abstract!Move(0)
  <2>1. Abstract!ElementAt(Forward, 0) = NULL
    BY DEF Abstract!ElementAt
  <2> QED BY <2>1, <1>2, EmptyPosition DEF Abstract!Move, PtrTo
<1>9. ASSUME NEW i \in 1 .. Len(s), e = s[i] PROVE Abstract!Move(i)
  <2>1. Position' = i
    <3>1. s = Forward' /\ ptr' = s[i]
      BY <1>1, <1>2, <1>9 DEF PtrTo
    <3> QED BY <3>1, <1>7, CurIsNew
  <2>2. Abstract!ElementAt(Forward, i) = s[i]
    BY <1>1, <1>9 DEF Abstract!ElementAt
  <2> QED BY <2>1, <2>2, <1>2, <1>9 DEF Abstract!Move, PtrTo
<1> QED BY <1>7, <1>8, <1>9

(* Moving the position: next, previous, head, tail                         *)
LEMMA MoveStep ==
  ASSUME IInv
  PROVE  /\ PtrInit => IInv' /\ Abstract!MoveEnd
         /\ PtrNext => IInv' /\ Abstract!MoveNext
         /\ PtrPrev => IInv' /\ Abstract!MovePrev
         /\ PtrSet => IInv' /\ (Abstract!MoveTo \/ Abstract!MoveEnd)
<1>1. PICK s : Reads(s)
  BY ReadsSome
<1> DEFINE n == Len(s)
<1>2. s \in Seq(Elems) /\ n \in Nat /\ s = Forward /\ Forward = s
        /\ (s = << >> <=> n = 0)
  BY <1>1 DEF Reads
<1>3. ASSUME PtrInit PROVE IInv' /\ Abstract!MoveEnd
  <2>1. CASE PtrTo(head)
    <3>1. CASE n = 0
      <4>1. head = NULL
        BY <1>1, <3>1 DEF Reads, At
      <4> QED BY <4>1, <2>1, <3>1, <1>1, <1>2, PtrToStep DEF Abstract!MoveEnd
    <3>2. CASE n # 0
      <4>1. 1 \in 1 .. n /\ head = s[1]
        BY <1>1, <1>2, <3>2 DEF Reads, At
      <4> QED BY <4>1, <2>1, <3>2, <1>1, <1>2, PtrToStep DEF Abstract!MoveEnd
    <3> QED BY <3>1, <3>2
  <2>2. CASE PtrTo(tail)
    <3>1. CASE n = 0
      <4>1. tail = NULL
        BY <1>1, <3>1 DEF Reads, At
      <4> QED BY <4>1, <2>2, <3>1, <1>1, <1>2, PtrToStep DEF Abstract!MoveEnd,
                 Abstract!Size
    <3>2. CASE n # 0
      <4>1. n \in 1 .. n /\ tail = s[n]
        BY <1>1, <1>2, <3>2 DEF Reads, At
      <4> QED BY <4>1, <2>2, <3>2, <1>1, <1>2, PtrToStep DEF Abstract!MoveEnd,
                 Abstract!Size
    <3> QED BY <3>1, <3>2
  <2> QED BY <1>3, <2>1, <2>2 DEF PtrInit
<1>4. ASSUME ptr # NULL
      PROVE  \E j \in 1 .. n : ptr = s[j] /\ Position = j
             /\ next[ptr] = At(s, j + 1) /\ prev[ptr] = At(s, j - 1)
  <2>1. PICK j \in 1 .. n : ptr = s[j] /\ Position = j
    BY <1>1, <1>4, CurIs
  <2> QED BY <2>1, <1>1 DEF Reads, Linked, LinkedBack
<1>5. ASSUME PtrNext PROVE IInv' /\ Abstract!MoveNext
  <2>1. PICK j \in 1 .. n : ptr = s[j] /\ Position = j
          /\ next[ptr] = At(s, j + 1)
    BY <1>4, <1>5 DEF PtrNext
  <2>2. PtrTo(At(s, j + 1)) /\ Position # 0
    BY <1>5, <2>1 DEF PtrNext
  <2>3. CASE j = n
    <3>1. At(s, j + 1) = NULL
      BY <2>3, <1>2 DEF At
    <3> QED BY <3>1, <2>1, <2>2, <2>3, <1>1, <1>2, PtrToStep DEF
               Abstract!MoveNext, Abstract!Size
  <2>4. CASE j # n
    <3>1. j + 1 \in 1 .. n /\ At(s, j + 1) = s[j + 1]
      BY <2>4, <1>2 DEF At
    <3> QED BY <3>1, <2>1, <2>2, <2>4, <1>1, <1>2, PtrToStep DEF
               Abstract!MoveNext, Abstract!Size
  <2> QED BY <2>3, <2>4
<1>6. ASSUME PtrPrev PROVE IInv' /\ Abstract!MovePrev
  <2>1. PICK j \in 1 .. n : ptr = s[j] /\ Position = j
          /\ prev[ptr] = At(s, j - 1)
    BY <1>4, <1>6 DEF PtrPrev
  <2>2. PtrTo(At(s, j - 1)) /\ Position # 0
    BY <1>6, <2>1 DEF PtrPrev
  <2>3. CASE j = 1
    <3>1. At(s, j - 1) = NULL /\ j - 1 = 0
      BY <2>3, <1>2 DEF At
    <3> QED BY <3>1, <2>1, <2>2, <1>1, <1>2, PtrToStep DEF Abstract!MovePrev
  <2>4. CASE j # 1
    <3>1. j - 1 \in 1 .. n /\ At(s, j - 1) = s[j - 1]
      BY <2>4, <1>2 DEF At
    <3> QED BY <3>1, <2>1, <2>2, <1>1, <1>2, PtrToStep DEF Abstract!MovePrev
  <2> QED BY <2>3, <2>4
<1>7. ASSUME PtrSet PROVE IInv' /\ Abstract!MoveTo
  <2>1. PICK i \in 1 .. n : saved = s[i]
    BY <1>1, <1>7 DEF PtrSet, Reads
  <2>2. PtrTo(saved)
    BY <1>7 DEF PtrSet
  <2> QED BY <2>1, <2>2, <1>1, <1>2, PtrToStep DEF Abstract!MoveTo,
             Abstract!Size
<1> QED BY <1>3, <1>5, <1>6, <1>7

(* Reading and searching change nothing of the list.                       *)
LEMMA LookStep ==
  ASSUME IInv
  PROVE  /\ PtrGet => IInv' /\ UNCHANGED <<Forward, Position, ret>>
         /\ Get => IInv' /\ Abstract!Look
<1>1. PICK s : Reads(s)
  BY ReadsSome
<1>2. s \in Seq(Elems) /\ s = Forward
  BY <1>1 DEF Reads
<1>3. ASSUME UNCHANGED <<heap, list>>
      PROVE  UNCHANGED <<Forward, Position, Elements>>
  BY <1>3 DEF heap, list, Forward, Position, Elements
<1>4. ASSUME UNCHANGED <<heap, list>>, saved' \in Pointer, ret' \in Pointer
      PROVE  IInv'
  <2>1. TypeOK' /\ BothLinked' /\ NothingLost'
    BY <1>3, <1>4 DEF heap, list, IInv, TypeOK, BothLinked, NothingLost
  <2> QED BY <2>1, <1>3, <1>4 DEF heap, list, IInv
<1>5. ptr \in Pointer /\ head \in Pointer /\ tail \in Pointer
        /\ ret \in Pointer /\ saved \in Pointer
  BY DEF IInv, TypeOK, Pointer
<1>6. PtrGet => IInv' /\ UNCHANGED <<Forward, Position, ret>>
  BY <1>3, <1>4, <1>5 DEF PtrGet
<1>7. ASSUME Get PROVE IInv' /\ Abstract!Look
  <2>1. IInv' /\ UNCHANGED <<Forward, Position>>
    BY <1>3, <1>4, <1>5, <1>7 DEF Get
  <2>2. \A k \in Int : At(s, k) = Abstract!ElementAt(Forward, k)
    BY <1>2 DEF At, Abstract!ElementAt
  <2>3. head = Abstract!ElementAt(Forward, 1)
          /\ tail = Abstract!ElementAt(Forward, Len(Forward))
    BY <2>2, <1>1, <1>2 DEF Reads
  <2>4. ptr = Abstract!ElementAt(Forward, Position)
    <3>1. CASE ptr = NULL /\ Position = 0
      BY <3>1 DEF Abstract!ElementAt
    <3>2. ASSUME NEW j \in 1 .. Len(s), ptr = s[j], Position = j
          PROVE  ptr = Abstract!ElementAt(Forward, Position)
      BY <3>2, <1>2 DEF Abstract!ElementAt
    <3> QED BY <3>1, <3>2, <1>1, CurIs
  <2> QED BY <1>7, <2>1, <2>3, <2>4 DEF Get, Abstract!Look, Abstract!Size
<1> QED BY <1>6, <1>7
-----------------------------------------------------------------------------
(* The initial state satisfies the invariant.                              *)
LEMMA InitIInv ==
  ASSUME Init
  PROVE  IInv /\ Abstract!Init
<1>1. << >> \in Seq(Elems) /\ Len(<< >>) = 0
  OBVIOUS
<1>2. Once(<< >>) /\ Linked(next, << >>) /\ LinkedBack(prev, << >>)
      /\ At(<< >>, 1) = NULL /\ At(<< >>, Len(<< >>)) = NULL
  BY <1>1 DEF Once, Linked, LinkedBack, At
<1>3. Forward = << >>
  BY <1>1, <1>2, WalkIs DEF Init, Forward
<1>4. BothLinked
  BY <1>1, <1>2, <1>3 DEF BothLinked, Init
<1>5. TypeOK /\ NothingLost
  BY DEF Init, TypeOK, NothingLost, Pointer
<1>6. Elements = {}
  BY <1>1, <1>3 DEF Elements
<1>7. Position = 0
  BY DEF Init, Position
<1> QED BY <1>1, <1>3, <1>4, <1>5, <1>6, <1>7 DEF IInv, Init, Abstract!Init

(* Every step keeps it and is a step of ListSeq or leaves the sequence     *)
(* alone.                                                                  *)
LEMMA NextIInv ==
  ASSUME IInv, [Next]_vars
  PROVE  IInv' /\ [Abstract!Next]_(Abstract!vars)
<1>1. ASSUME NEW e \in Elems, AddHead(e) \/ AddTail(e) \/ AddAfter(e)
             \/ AddBefore(e)
      PROVE  IInv' /\ Abstract!Next
  <2>1. New(e)
    BY <1>1 DEF AddHead, AddTail, AddAfter, AddBefore
  <2>2. e \in Abstract!Fresh
    BY <2>1, FreshIs
  <2>3. IInv' /\ (Abstract!AddHead(e) \/ Abstract!AddTail(e) \/
          Abstract!AddAfter(e) \/ Abstract!AddBefore(e))
    BY <1>1, AddHeadStep, AddTailStep, AddAfterStep, AddBeforeStep
  <2> QED BY <2>2, <2>3 DEF Abstract!Next
<1>2. CASE DelHead
  BY <1>2, DelHeadStep DEF Abstract!Next
<1>3. CASE DelTail
  BY <1>3, DelTailStep DEF Abstract!Next
<1>4. ASSUME NEW on \in BOOLEAN, Del(on) PROVE IInv' /\ Abstract!Next
  BY <1>4, DelStep DEF Abstract!Next
<1>5. CASE Clear \/ Free
  <2>1. Empty /\ sized' \in BOOLEAN /\ callbacks' \in BOOLEAN
    BY <1>5 DEF Clear, Free, IInv, TypeOK
  <2> QED BY <2>1, EmptyStep DEF Abstract!Next
<1>6. ASSUME NEW with \in BOOLEAN, ListInit(with)
      PROVE  IInv' /\ UNCHANGED Abstract!vars
  BY <1>6, ListInitStep DEF Abstract!vars
<1>7. CASE PtrInit \/ PtrNext \/ PtrPrev \/ PtrSet
  BY <1>7, MoveStep DEF Abstract!Next
<1>8. CASE PtrGet \/ UNCHANGED vars
  <2>1. CASE PtrGet
    BY <2>1, LookStep DEF Abstract!vars
  <2>2. CASE UNCHANGED vars
    <3>1. UNCHANGED <<Forward, Position, Elements, ret>>
      BY <2>2 DEF vars, heap, list, Forward, Position, Elements
    <3>2. TypeOK' /\ BothLinked' /\ NothingLost'
      BY <2>2, <3>1 DEF vars, heap, list, IInv, TypeOK, BothLinked, NothingLost
    <3>3. IInv'
      BY <2>2, <3>1, <3>2 DEF vars, heap, list, IInv
    <3> QED BY <3>1, <3>3 DEF Abstract!vars
  <2> QED BY <1>8, <2>1, <2>2
<1>9. CASE Get
  BY <1>9, LookStep DEF Abstract!Next
<1> QED BY <1>1, <1>2, <1>3, <1>4, <1>5, <1>6, <1>7, <1>8, <1>9 DEF Next

(* In every state of nxs-list the links lead from the head through the     *)
(* elements, each once, to the tail and back, and all that is allocated is *)
(* there.                                                                  *)
THEOREM Invariance == Spec => []IInv
<1>1. Init => IInv
  BY InitIInv
<1>2. IInv /\ [Next]_vars => IInv'
  BY NextIInv
<1> QED BY <1>1, <1>2, PTL DEF Spec

(* The list reads the same from both ends, counts and reaches all that it  *)
(* has allocated; elements and data are made and freed once.               *)
THEOREM ListWholeAlways == Spec => []ListWhole
<1>1. IInv => ListWhole
  BY BothWaysHolds DEF IInv, ListWhole
<1> QED BY <1>1, Invariance, PTL

(* nxs-list implements a sequence with a position. *)
THEOREM Refinement == Spec => SeqSpec
<1>1. Init => Abstract!Init
  BY InitIInv
<1>2. IInv /\ [Next]_vars => [Abstract!Next]_(Abstract!vars)
  BY NextIInv
<1> QED BY <1>1, <1>2, Invariance, PTL DEF Spec, SeqSpec, Abstract!Spec
-----------------------------------------------------------------------------
(***************************************************************************)
(* nxs-stack                                                               *)
(***************************************************************************)
VARIABLES top, under, onStack, height, pulled
Stk == INSTANCE Stack

(* The operators of Links are the same there. *)
LEMMA SameLinks ==
  /\ \A link, e : Stk!Walk(link, e) = Walk(link, e)
  /\ \A s : Stk!Once(s) = Once(s)
  /\ \A s, i : Stk!At(s, i) = At(s, i)
  /\ \A s, link : Stk!Linked(link, s) = Linked(link, s)
  /\ Stk!Pointer = Pointer
  /\ \A S : Stk!Cardinality(S) = Cardinality(S)
<1>4. \A S : Stk!Cardinality(S) = Cardinality(S)
  BY DEF Stk!Cardinality, Cardinality
<1>1. ASSUME NEW link, NEW e PROVE Stk!Walk(link, e) = Walk(link, e)
  <2>1. Stk!Followed(link, e) = Followed(link, e)
    BY <1>4 DEF Followed, Stk!Followed
  <2> QED BY <2>1, <1>4 DEF Walk, Stk!Walk
<1>2. \A s, i : Stk!At(s, i) = At(s, i)
  BY DEF At, Stk!At
<1>3. \A s, link : Stk!Linked(link, s) = Linked(link, s)
  BY <1>2 DEF Linked, Stk!Linked
<1> QED BY <1>1, <1>2, <1>3, <1>4 DEF Once, Stk!Once, Pointer, Stk!Pointer

(* What the invariant says of the stack, and that it is the invariant      *)
StackReads ==
  /\ under \in [Elems -> Pointer]
  /\ Stk!Downward \in Seq(Elems) /\ Once(Stk!Downward)
     /\ Linked(under, Stk!Downward)
  /\ top = At(Stk!Downward, 1)
  /\ onStack = {Stk!Downward[i] : i \in 1 .. Len(Stk!Downward)}
     /\ height = Len(Stk!Downward)

LEMMA StackReadsIs == Stk!Downward = Walk(under, top) /\ Stk!IInv = StackReads
BY SameLinks DEF Stk!Downward, Stk!IInv, StackReads

LEMMA StackReadsNext == Stk!Downward' = Walk(under', top')
  /\ Stk!IInv' = StackReads'
BY SameLinks DEF Stk!Downward, Stk!IInv, StackReads

(* An insertion before the first element and a removal of it, where the    *)
(* links lead one way                                                      *)
LEMMA InsertOneWay ==
  ASSUME NEW s \in Seq(Elems), NEW e \in Elems, Once(s),
         \A k \in 1 .. Len(s) : s[k] # e,
         NEW n, NEW m, Linked(n, s),
         \A x \in Elems : m[x] = IF x = e THEN At(s, 1) ELSE n[x]
  PROVE  Once(Ins(s, 1, e)) /\ Linked(m, Ins(s, 1, e))
<1> DEFINE p == [x \in Elems |-> LET i == Place(s, x) IN At(s, i - 1)]
           q == [x \in Elems |-> IF x = e THEN NULL ELSE IF x = At(s, 1) THEN e
             ELSE p[x]]
<1>1. LinkedBack(p, s)
  <2>1. \A i \in 1 .. Len(s) : s[i] \in Elems /\ Place(s, s[i]) = i
    BY PlaceIs
  <2> QED BY <2>1 DEF LinkedBack
<1>2. At(s, 0) = NULL /\ 1 \in 1 .. Len(s) + 1 /\ 1 - 1 = 0
  BY DEF At
<1>3. Joined(n, m, e, At(s, 1 - 1), At(s, 1))
  BY <1>2 DEF Joined
<1>4. Joined(p, q, e, At(s, 1), At(s, 1 - 1))
  BY <1>2 DEF Joined
<1> HIDE DEF p, q
<1> QED BY <1>1, <1>2, <1>3, <1>4, InsertLinked

LEMMA DeleteOneWay ==
  ASSUME NEW s \in Seq(Elems), 1 \in 1 .. Len(s), Once(s),
         NEW n, NEW m, Linked(n, s), \A x \in Elems : x # s[1] => m[x] = n[x]
  PROVE  Once(Without(s, 1)) /\ Linked(m, Without(s, 1))
         /\ \A k \in 1 .. Len(s) - 1 : Without(s, 1)[k] # s[1]
<1> DEFINE p == [x \in Elems |-> LET i == Place(s, x) IN At(s, i - 1)]
           q == [x \in Elems |-> IF x = At(s, 2) THEN NULL ELSE p[x]]
<1>1. LinkedBack(p, s)
  <2>1. \A i \in 1 .. Len(s) : s[i] \in Elems /\ Place(s, s[i]) = i
    BY PlaceIs
  <2> QED BY <2>1 DEF LinkedBack
<1>2. At(s, 0) = NULL /\ 1 - 1 = 0 /\ 1 + 1 = 2
  BY DEF At
<1>3. Bypassed(n, m, s[1], At(s, 1 - 1), At(s, 1 + 1))
  BY <1>2 DEF Bypassed
<1>4. Bypassed(p, q, s[1], At(s, 1 + 1), At(s, 1 - 1))
  BY <1>2 DEF Bypassed
<1> HIDE DEF p, q
<1> QED BY <1>1, <1>2, <1>3, <1>4, DeleteLinked

(* nxs_stack_push, nxs_stack_pull and nxs_stack_free keep the invariant    *)
(* and are the steps of a sequence used at its head.                       *)
LEMMA PushStep ==
  ASSUME StackReads, NEW e \in Elems, Stk!Push(e)
  PROVE  StackReads' /\ e \in Stk!Abstract!Fresh /\ Stk!Abstract!AddHead(e)
<1>1. PICK s \in Seq(Elems) : s = Stk!Downward
  BY DEF StackReads
<1>2. /\ under \in [Elems -> Pointer] /\ Once(s) /\ Linked(under, s)
         /\ top = At(s, 1) /\ Len(s) \in Nat
      /\ onStack = {s[i] : i \in 1 .. Len(s)} /\ height = Len(s)
  BY <1>1 DEF StackReads
<1> DEFINE t == Ins(s, 1, e)
<1>3. \A k \in 1 .. Len(s) : s[k] # e
  BY <1>2 DEF Stk!Push
<1>4. Once(t) /\ Linked(under', t)
  <2>1. \A x \in Elems : under'[x] = IF x = e THEN At(s, 1) ELSE under[x]
    BY <1>2 DEF Stk!Push
  <2> QED BY <1>2, <1>3, <2>1, InsertOneWay
<1>5. t \in Seq(Elems) /\ Len(t) = Len(s) + 1 /\ t[1] = e
        /\ \A k \in 1 .. Len(s) : t[k + 1] = s[k]
  BY <1>2, InsertIs DEF Ins
<1> HIDE DEF t
<1>6. top' = At(t, 1)
  BY <1>2, <1>5 DEF Stk!Push, At
<1>7. Stk!Downward' = t
  BY <1>4, <1>5, <1>6, WalkIs, StackReadsNext
<1>8. onStack' = {t[k] : k \in 1 .. Len(t)}
  <2>1. \A k \in 1 .. Len(t) : k = 1
          \/ (k - 1 \in 1 .. Len(s) /\ t[k] = s[k - 1])
    <3>1. ASSUME NEW k \in 1 .. Len(t), k # 1
          PROVE  k - 1 \in 1 .. Len(s) /\ t[k] = s[k - 1]
      <4>1. k - 1 \in 1 .. Len(s) /\ k - 1 + 1 = k
        BY <3>1, <1>2, <1>5
      <4> QED BY <4>1, <1>5
    <3> QED BY <3>1
  <2>2. \A k \in 1 .. Len(s) : k + 1 \in 1 .. Len(t) /\ t[k + 1] = s[k]
    BY <1>2, <1>5
  <2>3. 1 \in 1 .. Len(t)
    BY <1>2, <1>5
  <2> QED BY <2>1, <2>2, <2>3, <1>2, <1>5 DEF Stk!Push
<1>13. top \in Pointer
  BY <1>2, AtType
<1>9. StackReads'
  <2>1. under' \in [Elems -> Pointer]
    BY <1>2, <1>13 DEF Stk!Push, Pointer
  <2>2. height' = Len(t)
    BY <1>2, <1>5 DEF Stk!Push
  <2> QED BY <2>1, <2>2, <1>4, <1>5, <1>6, <1>7, <1>8 DEF StackReads
<1>10. e \in Stk!Abstract!Fresh
  BY <1>1, <1>3 DEF Stk!Abstract!Fresh, Stk!Abstract!InUse, Stk!Abstract!Size
<1>11. Stk!Abstract!Insert(1, e)
  <2>1. 1 \in 1 .. Len(s) + 1
    BY <1>2
  <2> QED BY <1>1, <1>7, <2>1, InsertIs DEF Stk!Abstract!Insert,
             Stk!Abstract!Size, t
<1>12. Stk!Abstract!AddHead(e)
  BY <1>1, <1>5, <1>7, <1>11 DEF Stk!Abstract!AddHead, Stk!Push
<1> QED BY <1>9, <1>10, <1>12

LEMMA PullStep ==
  ASSUME StackReads, Stk!Pull
  PROVE  StackReads' /\ Stk!Abstract!DelHead
<1>1. PICK s \in Seq(Elems) : s = Stk!Downward
  BY DEF StackReads
<1>2. /\ under \in [Elems -> Pointer] /\ Once(s) /\ Linked(under, s)
         /\ top = At(s, 1) /\ Len(s) \in Nat
      /\ onStack = {s[i] : i \in 1 .. Len(s)} /\ height = Len(s)
  BY <1>1 DEF StackReads
<1> DEFINE t == Without(s, 1)
<1>3. 1 \in 1 .. Len(s) /\ top = s[1] /\ s[1] \in Elems /\ s # << >>
  BY <1>2 DEF Stk!Pull, At
<1>4. /\ Once(t) /\ Linked(under', t) /\ \A k \in 1 .. Len(s) - 1 : t[k] # s[1]
  <2>1. \A x \in Elems : x # s[1] => under'[x] = under[x]
    BY <1>3 DEF Stk!Pull
  <2> QED BY <1>2, <1>3, <2>1, DeleteOneWay
<1>5. t \in Seq(Elems) /\ Len(t) = Len(s) - 1
        /\ \A k \in 1 .. Len(s) - 1 : t[k] = s[k + 1]
  BY <1>2, <1>3, DeleteIs DEF Without
<1> HIDE DEF t
<1>6. top' = At(s, 2) /\ pulled' = At(s, 2)
  BY <1>2, <1>3 DEF Stk!Pull, Linked
<1>7. top' = At(t, 1)
  BY <1>2, <1>5, <1>6 DEF At
<1>8. Stk!Downward' = t
  BY <1>4, <1>5, <1>7, WalkIs, StackReadsNext
<1>9. onStack' = {t[k] : k \in 1 .. Len(t)}
  <2>1. onStack' = {s[i] : i \in 1 .. Len(s)} \ {s[1]}
    BY <1>2, <1>3 DEF Stk!Pull
  <2>2. \A k \in 1 .. Len(t) : k + 1 \in 1 .. Len(s) /\ t[k] = s[k + 1]
          /\ t[k] # s[1]
    BY <1>2, <1>4, <1>5
  <2>3. ASSUME NEW k \in 1 .. Len(s), k # 1
        PROVE  k - 1 \in 1 .. Len(t) /\ t[k - 1] = s[k]
    <3>1. k - 1 \in 1 .. Len(s) - 1 /\ k - 1 + 1 = k
      BY <2>3, <1>2
    <3> QED BY <3>1, <1>5
  <2>4. onStack' \subseteq {t[k] : k \in 1 .. Len(t)}
    BY <2>1, <2>3
  <2>5. {t[k] : k \in 1 .. Len(t)} \subseteq onStack'
    BY <2>1, <2>2
  <2> QED BY <2>4, <2>5
<1>10. StackReads'
  <2>1. under' \in [Elems -> Pointer]
    BY <1>2, <1>3 DEF Stk!Pull, Pointer
  <2>2. height' = Len(t)
    BY <1>2, <1>5 DEF Stk!Pull
  <2> QED BY <2>1, <2>2, <1>4, <1>5, <1>7, <1>8, <1>9 DEF StackReads
<1>11. Stk!Abstract!Delete(1)
  BY <1>1, <1>3, <1>8, DeleteIs DEF Stk!Abstract!Delete, Stk!Abstract!Size, t
<1>12. Stk!Abstract!ElementAt(Stk!Downward, 2) = At(s, 2)
  BY <1>1 DEF Stk!Abstract!ElementAt, At
<1>13. Len(t) = IF Len(s) = 1
         /\ Len(s) > 1 THEN 1 ELSE IF Len(s) = 0 THEN 0 ELSE Len(s) - 1
  <2>1. PICK n \in Nat : n = Len(s) /\ n \in 1 .. n
    BY <1>2, <1>3
  <2>2. n - 1 = IF n = 1 /\ n > 1 THEN 1 ELSE IF n = 0 THEN 0 ELSE n - 1
    BY <2>1
  <2> QED BY <2>1, <2>2, <1>5
<1> QED BY <1>1, <1>3, <1>6, <1>8, <1>10, <1>11, <1>12, <1>13 DEF
           Stk!Abstract!DelHead, Stk!Abstract!Size

LEMMA FreeStep ==
  ASSUME StackReads, Stk!Free
  PROVE  StackReads' /\ Stk!Abstract!Clear
<1>1. PICK s \in Seq(Elems) : s = Stk!Downward
  BY DEF StackReads
<1>2. Cardinality(onStack) = Len(s) /\ height = Len(s) /\ Len(s) \in Nat
  <2>1. s \in Bijection(1 .. Len(s), onStack)
    BY <1>1 DEF StackReads, Bijection, Injection, Surjection, IsInjective, Once
  <2>2. ExistsBijection(1 .. Len(s), onStack) /\ Len(s) \in Nat
    BY <2>1 DEF ExistsBijection
  <2> QED BY <1>1, <2>2, FS_CountingElements DEF StackReads
<1>3. << >> \in Seq(Elems) /\ Len(<< >>) = 0
  OBVIOUS
<1>4. Once(<< >>) /\ Linked(under', << >>) /\ At(<< >>, 1) = NULL
  BY <1>3 DEF Once, Linked, At
<1>5. Stk!Downward' = << >>
  BY <1>3, <1>4, WalkIs, StackReadsNext DEF Stk!Free
<1>6. onStack' = {} /\ height' = 0
  <2>1. PICK n \in Nat : n = Len(s)
    BY <1>2
  <2>2. height' = n - n
    BY <2>1, <1>2, SameLinks DEF Stk!Free
  <2> QED BY <2>1, <2>2 DEF Stk!Free
<1>7. StackReads'
  <2>1. under' \in [Elems -> Pointer]
    BY DEF Stk!Free, Pointer
  <2>2. {<< >>[i] : i \in 1 .. Len(<< >>)} = {}
    BY <1>3
  <2> QED BY <2>1, <2>2, <1>3, <1>4, <1>5, <1>6 DEF StackReads, Stk!Free
<1> QED BY <1>3, <1>5, <1>7 DEF Stk!Abstract!Clear, Stk!Free

(* The initial state and every step                                        *)
LEMMA StackInit ==
  ASSUME Stk!Init
  PROVE  StackReads /\ Stk!Abstract!Init
<1>1. << >> \in Seq(Elems) /\ Len(<< >>) = 0
  OBVIOUS
<1>2. Once(<< >>) /\ Linked(under, << >>) /\ At(<< >>, 1) = NULL
  BY <1>1 DEF Once, Linked, At
<1>3. Stk!Downward = << >>
  BY <1>1, <1>2, WalkIs, StackReadsIs DEF Stk!Init
<1>4. StackReads
  <2>1. under \in [Elems -> Pointer]
    BY DEF Stk!Init, Pointer
  <2>2. {<< >>[i] : i \in 1 .. Len(<< >>)} = {}
    BY <1>1
  <2> QED BY <2>1, <2>2, <1>1, <1>2, <1>3 DEF StackReads, Stk!Init
<1> QED BY <1>1, <1>3, <1>4 DEF Stk!Init, Stk!Abstract!Init

LEMMA StackNext ==
  ASSUME StackReads, [Stk!Next]_(Stk!vars)
  PROVE  StackReads' /\ [Stk!Abstract!Next]_(Stk!Abstract!vars)
<1>1. ASSUME NEW e \in Elems, Stk!Push(e)
      PROVE  StackReads' /\ Stk!Abstract!Next
  BY <1>1, PushStep DEF Stk!Abstract!Next
<1>2. CASE Stk!Pull
  BY <1>2, PullStep DEF Stk!Abstract!Next
<1>3. CASE Stk!Free
  BY <1>3, FreeStep DEF Stk!Abstract!Next
<1>4. ASSUME UNCHANGED <<top, under, onStack, height>>
      PROVE  StackReads' /\ Stk!Downward' = Stk!Downward
  BY <1>4, StackReadsIs, StackReadsNext DEF StackReads
<1>5. CASE Stk!Get
  <2>1. StackReads' /\ Stk!Downward' = Stk!Downward
    BY <1>4, <1>5 DEF Stk!Get
  <2>2. pulled' = Stk!Abstract!ElementAt(Stk!Downward, 1)
    BY <1>5 DEF Stk!Get, StackReads, At, Stk!Abstract!ElementAt
  <2>3. Stk!Abstract!Look
    BY <2>1, <2>2 DEF Stk!Abstract!Look
  <2> QED BY <2>1, <2>3 DEF Stk!Abstract!Next
<1>6. CASE UNCHANGED Stk!vars
  BY <1>4, <1>6 DEF Stk!vars, Stk!Abstract!vars
<1> QED BY <1>1, <1>2, <1>3, <1>5, <1>6 DEF Stk!Next

(* The invariant says that the stack is whole.                             *)
LEMMA StackWholeHolds ==
  ASSUME StackReads
  PROVE  Stk!StackWhole
<1>1. PICK s \in Seq(Elems) : s = Stk!Downward
  BY DEF StackReads
<1>2. Once(s) /\ onStack = {s[i] : i \in 1 .. Len(s)} /\ height = Len(s)
        /\ DOMAIN s = 1 .. Len(s)
  BY <1>1 DEF StackReads
<1>3. s \in Bijection(1 .. Len(s), onStack)
  BY <1>2 DEF Bijection, Injection, Surjection, IsInjective, Once
<1>4. ExistsBijection(1 .. Len(s), onStack) /\ Len(s) \in Nat
  BY <1>3 DEF ExistsBijection
<1>5. Cardinality(onStack) = Len(s)
  BY <1>4, FS_CountingElements
<1>6. onStack = {Stk!Downward[i] : i \in DOMAIN Stk!Downward}
  BY <1>1, <1>2
<1> QED BY <1>2, <1>5, <1>6, SameLinks DEF Stk!StackWhole

(* What is allocated is what the links of the stack lead to, and counted. *)
THEOREM StackWholeAlways == Stk!Spec => [](StackReads /\ Stk!StackWhole)
<1>1. Stk!Init => StackReads
  BY StackInit
<1>2. StackReads /\ [Stk!Next]_(Stk!vars) => StackReads'
  BY StackNext
<1>3. StackReads => Stk!StackWhole
  BY StackWholeHolds
<1> QED BY <1>1, <1>2, <1>3, PTL DEF Stk!Spec

(* nxs-stack implements a sequence used at its head. *)
THEOREM StackRefinement == Stk!Spec => Stk!StackSpec
<1>1. Stk!Init => Stk!Abstract!Init
  BY StackInit
<1>2. StackReads
        /\ [Stk!Next]_(Stk!vars) => [Stk!Abstract!Next]_(Stk!Abstract!vars)
  BY StackNext
<1> QED BY <1>1, <1>2, StackWholeAlways, PTL DEF Stk!Spec, Stk!StackSpec,
           Stk!Abstract!Spec
-----------------------------------------------------------------------------
(***************************************************************************)
(* nxs-tree                                                                *)
(***************************************************************************)
VARIABLES allocated, childs, parent, root, c_root, c_el, total, named, dataOf
Tr == INSTANCE Tree

(* The operators of Links are the same there.                              *)
LEMMA SameInTree ==
  /\ \A link, e : Tr!Walk(link, e) = Walk(link, e)
     /\ Tr!Followed(link, e) = Followed(link, e)
  /\ \A s : Tr!Once(s) = Once(s)
  /\ \A s, i : Tr!At(s, i) = At(s, i)
  /\ \A s, link : Tr!Linked(link, s) = Linked(link, s)
  /\ Tr!Pointer = Pointer
  /\ \A S : Tr!Cardinality(S) = Cardinality(S)
<1>4. \A S : Tr!Cardinality(S) = Cardinality(S)
  BY DEF Tr!Cardinality, Cardinality
<1>1. ASSUME NEW link, NEW e
      PROVE  Tr!Walk(link, e) = Walk(link, e)
             /\ Tr!Followed(link, e) = Followed(link, e)
  <2>1. Tr!Followed(link, e) = Followed(link, e)
    BY <1>4 DEF Followed, Tr!Followed
  <2> QED BY <2>1, <1>4 DEF Walk, Tr!Walk
<1>2. \A s, i : Tr!At(s, i) = At(s, i)
  BY DEF At, Tr!At
<1>3. \A s, link : Tr!Linked(link, s) = Linked(link, s)
  BY <1>2 DEF Linked, Tr!Linked
<1> QED BY <1>1, <1>2, <1>3, <1>4 DEF Once, Tr!Once, Pointer, Tr!Pointer

(* From e the pointers lead along s to the root. *)
Path(s, e) ==
  /\ s \in Seq(allocated) /\ Once(s) /\ Linked(parent, s)
  /\ e = At(s, 1) /\ root = At(s, Len(s))

(* The invariant of Tree with a path for each element in place of the walk *)
TreeTyped ==
  /\ allocated \subseteq Elems /\ {root, c_root} \subseteq allocated
  /\ childs \in [Elems -> Seq(Elems)] /\ parent \in [Elems -> Pointer]
  /\ named \in [el : Elems, gone : BOOLEAN] /\ c_el = named.el

TreePaths == \A e \in allocated : \E s : Path(s, e)

TreeArrays ==
  \A e \in allocated :
    /\ Once(childs[e])
    /\ {childs[e][i] : i \in 1 .. Len(childs[e])}
       = {x \in allocated : parent[x] = e}

(* They say the same, in a state and in the next one.                      *)
LEMMA PathIsWalk ==
  ASSUME allocated \subseteq Elems, NEW e, NEW s, Path(s, e)
  PROVE  Walk(parent, e) = s
<1>1. s \in Seq(Elems)
  BY DEF Path
<1> QED BY <1>1, WalkIs DEF Path

LEMMA UpwardIs ==
  ASSUME TreeTyped
  PROVE  Tr!Upward <=> TreePaths
<1>1. ASSUME Tr!Upward, NEW e \in allocated PROVE \E s : Path(s, e)
  <2>1. Path(Walk(parent, e), e)
    BY <1>1, SameInTree DEF Tr!Upward, Path
  <2> QED BY <2>1
<1>2. ASSUME TreePaths, NEW e \in allocated
      PROVE  Path(Walk(parent, e), e)
  BY <1>2, PathIsWalk DEF TreePaths, TreeTyped
<1>3. ASSUME TreePaths PROVE Tr!Upward
  BY <1>2, <1>3, SameInTree DEF Tr!Upward, Path
<1> QED BY <1>1, <1>3 DEF TreePaths

LEMMA UpwardIsNext ==
  ASSUME TreeTyped'
  PROVE  Tr!Upward' <=> TreePaths'
<1>1. ASSUME Tr!Upward', NEW e \in allocated' PROVE \E s : Path(s, e)'
  <2>1. Path(Walk(parent, e), e)'
    BY <1>1, SameInTree DEF Tr!Upward, Path
  <2> QED BY <2>1
<1>2. ASSUME NEW e \in allocated', NEW s, Path(s, e)'
      PROVE  Walk(parent', e) = s
  <2>1. s \in Seq(Elems)
    BY <1>2 DEF Path, TreeTyped
  <2> QED BY <1>2, <2>1, WalkIs DEF Path
<1>3. ASSUME TreePaths' PROVE Tr!Upward'
  <2>1. ASSUME NEW e \in allocated' PROVE Path(Walk(parent, e), e)'
    <3>1. PICK s : Path(s, e)'
      BY <1>3 DEF TreePaths
    <3>2. Walk(parent', e) = s
      BY <3>1, <1>2
    <3> QED BY <3>1, <3>2 DEF Path
  <2> QED BY <2>1, SameInTree DEF Tr!Upward, Path
<1> QED BY <1>1, <1>3 DEF TreePaths

(* The whole of it                                                         *)
TreeIInv ==
  /\ TreeTyped /\ TreePaths /\ TreeArrays
  /\ named.gone = (c_el \notin allocated)
  /\ total = Cardinality(allocated)

LEMMA TreeIInvIs == Tr!IInv <=> TreeIInv
<1>1. Tr!Typed <=> TreeTyped
  BY SameInTree DEF Tr!Typed, TreeTyped
<1>2. Tr!Arrays <=> TreeArrays
  BY SameInTree DEF Tr!Arrays, TreeArrays
<1> QED BY <1>1, <1>2, UpwardIs, SameInTree DEF Tr!IInv, TreeIInv

(* What the invariant says of one element *)
LEMMA PathFacts ==
  ASSUME TreeTyped, NEW e \in allocated, NEW s, Path(s, e)
  PROVE  /\ s \in Seq(allocated) /\ s \in Seq(Elems) /\ Len(s) \in Nat
            /\ 1 \in 1 .. Len(s)
         /\ s[1] = e /\ s[Len(s)] = root /\ parent[e] = At(s, 2)
         /\ \A i \in 1 .. Len(s) : s[i] \in allocated /\ s[i] \in Elems
            /\ s[i] # NULL
<1>1. s \in Seq(allocated) /\ s \in Seq(Elems) /\ Len(s) \in Nat
  BY DEF Path, TreeTyped
<1>2. e # NULL
  BY DEF TreeTyped
<1>3. 1 \in 1 .. Len(s) /\ s[1] = e
  BY <1>2 DEF Path, At
<1>4. Len(s) \in 1 .. Len(s) /\ s[Len(s)] = root
  BY <1>1, <1>3 DEF Path, At
<1>5. parent[e] = At(s, 2)
  BY <1>3 DEF Path, Linked
<1>6. \A i \in 1 .. Len(s) : s[i] \in allocated /\ s[i] \in Elems
        /\ s[i] # NULL
  BY <1>1
<1> QED BY <1>1, <1>3, <1>4, <1>5, <1>6

(* A parent is allocated; the root has none.                               *)
LEMMA ParentFacts ==
  ASSUME TreeIInv, NEW e \in allocated
  PROVE  /\ parent[e] \in allocated \cup {NULL}
         /\ parent[root] = NULL
<1>1. PICK s : Path(s, e)
  BY DEF TreeIInv, TreePaths
<1>2. parent[e] \in allocated \cup {NULL}
  BY <1>1, PathFacts DEF At, TreeIInv
<1>3. PICK r : Path(r, root)
  BY DEF TreeIInv, TreePaths, TreeTyped
<1>4. /\ r \in Seq(Elems) /\ Len(r) \in Nat /\ 1 \in 1 .. Len(r) /\ r[1] = root
         /\ r[Len(r)] = root
      /\ parent[root] = At(r, 2)
  BY <1>3, PathFacts DEF TreeIInv, TreeTyped
<1>5. PICK n \in Nat : n = Len(r)
  BY <1>4
<1>6. At(r, 2) = NULL
  <2>1. n \in 1 .. n /\ 1 \in 1 .. n
    BY <1>4, <1>5
  <2>2. n = 1
    BY <2>1, <1>3, <1>4, <1>5 DEF Path, Once
  <2>3. 2 \notin 1 .. n
    BY <2>2
  <2>4. 2 \notin 1 .. Len(r)
    BY <1>5, <2>3
  <2> QED BY <2>4 DEF At
<1> QED BY <1>2, <1>4, <1>6

LEMMA TreeIInvIsNext == Tr!IInv' <=> TreeIInv'
<1>1. Tr!Typed' <=> TreeTyped'
  BY SameInTree DEF Tr!Typed, TreeTyped
<1>2. Tr!Arrays' <=> TreeArrays'
  BY SameInTree DEF Tr!Arrays, TreeArrays
<1>3. (Tr!Upward /\ Tr!Typed)' <=> (TreePaths /\ TreeTyped)'
  BY <1>1, UpwardIsNext
<1>4. Tr!Cardinality(allocated') = Cardinality(allocated')
  BY SameInTree
<1> QED BY <1>1, <1>2, <1>3, <1>4 DEF Tr!IInv, TreeIInv

(* A path stays one when what becomes of g alone, which is not on it. *)
LEMMA PathKept ==
  ASSUME TreeTyped, NEW e \in allocated, NEW s, Path(s, e), root' = root,
         NEW g, \A i \in 1 .. Len(s) : s[i] # g,
         allocated \ {g} \subseteq allocated',
         \A x \in allocated : x # g => parent'[x] = parent[x]
  PROVE  Path(s, e)'
<1>1. /\ s \in Seq(allocated) /\ Len(s) \in Nat
      /\ \A i \in 1 .. Len(s) : s[i] \in allocated
  BY PathFacts
<1>2. s \in Seq(allocated')
  <2>1. s \in [1 .. Len(s) -> allocated']
    BY <1>1
  <2> QED BY <2>1, <1>1
<1>3. Linked(parent', s)
  BY <1>1 DEF Path, Linked
<1> QED BY <1>2, <1>3 DEF Path

(* An element without children is on no path but its own.                  *)
LEMMA LeafOffPaths ==
  ASSUME TreeIInv, NEW t \in allocated, childs[t] = << >>,
         NEW e \in allocated, e # t, NEW s, Path(s, e), NEW i \in 1 .. Len(s)
  PROVE  s[i] # t
<1>1. /\ s \in Seq(allocated) /\ Len(s) \in Nat /\ s[1] = e
      /\ \A j \in 1 .. Len(s) : s[j] \in allocated
  BY PathFacts DEF TreeIInv
<1>2. SUFFICES ASSUME s[i] = t PROVE FALSE
  OBVIOUS
<1>3. i # 1
  BY <1>1, <1>2
<1>4. i - 1 \in 1 .. Len(s) /\ (i - 1) + 1 = i
  BY <1>1, <1>3
<1>5. parent[s[i - 1]] = At(s, i)
  BY <1>4 DEF Path, Linked
<1>6. parent[s[i - 1]] = t /\ s[i - 1] \in allocated
  BY <1>1, <1>2, <1>4, <1>5 DEF At
<1>7. {childs[t][j] : j \in 1 .. Len(childs[t])}
        = {x \in allocated : parent[x] = t}
  BY DEF TreeIInv, TreeArrays
<1>8. {childs[t][j] : j \in 1 .. Len(childs[t])} = {}
  BY SMT
<1> QED BY <1>6, <1>7, <1>8

(* What an array holds                                                     *)
Held(s) == {s[k] : k \in 1 .. Len(s)}

(* The array without its i-th element holds the others, each once. *)
LEMMA ArrayWithout ==
  ASSUME NEW s \in Seq(Elems), Once(s), NEW i \in 1 .. Len(s), NEW mode
  PROVE  /\ Tr!Without(s, i, mode) \in Seq(Elems)
            /\ Once(Tr!Without(s, i, mode))
         /\ Held(Tr!Without(s, i, mode)) = Held(s) \ {s[i]}
<1> DEFINE n == Len(s)
           t == Tr!Without(s, i, mode)
           from(k) == IF mode = "ORDER" THEN IF k < i THEN k ELSE k + 1
                      ELSE IF k = i THEN n ELSE k
<1>1. n \in Nat /\ i \in Nat /\ 1 <= i /\ i <= n /\ n - 1 \in Nat
  OBVIOUS
<1>2. \A k \in 1 .. n : s[k] \in Elems
  OBVIOUS
<1>3. \A k \in 1 .. n - 1 : from(k) \in 1 .. n /\ from(k) # i
  BY <1>1
<1>4. \A k, j \in 1 .. n - 1 : from(k) = from(j) => k = j
  BY <1>1
<1>5. ASSUME NEW m \in 1 .. n, m # i PROVE \E k \in 1 .. n - 1 : from(k) = m
  <2>1. CASE mode = "ORDER" /\ m < i
    <3>1. m \in 1 .. n - 1 /\ from(m) = m
      BY <2>1, <1>1
    <3> QED BY <3>1
  <2>2. CASE mode = "ORDER" /\ ~ (m < i)
    <3>1. m - 1 \in 1 .. n - 1 /\ from(m - 1) = m
      BY <2>2, <1>1, <1>5
    <3> QED BY <3>1
  <2>3. CASE mode # "ORDER" /\ m < n
    <3>1. m \in 1 .. n - 1 /\ from(m) = m
      BY <2>3, <1>1, <1>5
    <3> QED BY <3>1
  <2>4. CASE mode # "ORDER" /\ ~ (m < n)
    <3>1. i \in 1 .. n - 1 /\ from(i) = m
      BY <2>4, <1>1, <1>5
    <3> QED BY <3>1
  <2> QED BY <2>1, <2>2, <2>3, <2>4
<1>6. t = [k \in 1 .. n - 1 |-> s[from(k)]]
  <2>1. CASE mode = "ORDER"
    <3>1. t = [k \in 1 .. n - 1 |-> IF k < i THEN s[k] ELSE s[k + 1]]
      BY <2>1 DEF Tr!Without
    <3> QED BY <2>1, <3>1
  <2>2. CASE mode # "ORDER"
    <3>1. t = [k \in 1 .. n - 1 |-> IF k = i THEN s[n] ELSE s[k]]
      BY <2>2 DEF Tr!Without
    <3> QED BY <2>2, <3>1
  <2> QED BY <2>1, <2>2
<1> HIDE DEF t, from
<1>7. t \in [1 .. n - 1 -> Elems]
  BY <1>2, <1>3, <1>6
<1>8. t \in Seq(Elems) /\ Len(t) = n - 1
  BY <1>7, <1>1
<1>9. \A k \in 1 .. n - 1 : t[k] = s[from(k)]
  BY <1>6
<1>10. Once(t)
  BY <1>3, <1>4, <1>8, <1>9 DEF Once
<1>11. \A k \in 1 .. n - 1 : t[k] # s[i]
  BY <1>3, <1>9 DEF Once
<1>12. {t[k] : k \in 1 .. Len(t)} = {s[k] : k \in 1 .. n} \ {s[i]}
  <2>1. ASSUME NEW x \in {t[k] : k \in 1 .. Len(t)}
        PROVE  x \in {s[k] : k \in 1 .. n} \ {s[i]}
    BY <1>3, <1>8, <1>9, <1>11
  <2>2. ASSUME NEW x \in {s[k] : k \in 1 .. n} \ {s[i]}
        PROVE  x \in {t[k] : k \in 1 .. Len(t)}
    <3>1. PICK m \in 1 .. n : x = s[m] /\ m # i
      BY <2>2
    <3>2. PICK k \in 1 .. n - 1 : from(k) = m
      BY <3>1, <1>5
    <3> QED BY <3>1, <3>2, <1>8, <1>9
  <2> QED BY <2>1, <2>2
<1> QED BY <1>8, <1>10, <1>12 DEF t, Held

(* What is allocated can be counted.                                       *)
LEMMA FinitelyMany == ASSUME TreeTyped PROVE IsFiniteSet(allocated)
BY FS_Subset DEF TreeTyped

(* nxs_tree_init leaves a root that is alone.                              *)
LEMMA TreeInit == ASSUME Tr!Init PROVE TreeIInv
<1>1. PICK e \in Elems :
        /\ allocated = {e} /\ root = e /\ c_root = e /\ c_el = e /\ total = 1
        /\ childs = [x \in Elems |-> << >>] /\ parent = [x \in Elems |-> NULL]
        /\ named = Tr!CareOf(e)
  BY DEF Tr!Init
<1>2. TreeTyped
  BY <1>1 DEF TreeTyped, Tr!CareOf, Pointer
<1>3. Path(<<e>>, e)
  <2>1. <<e>> \in Seq(allocated) /\ Len(<<e>>) = 1 /\ <<e>>[1] = e
    BY <1>1
  <2>2. At(<<e>>, 1) = e /\ At(<<e>>, 2) = NULL
    BY <2>1 DEF At
  <2>3. parent[e] = NULL
    BY <1>1
  <2>4. Linked(parent, <<e>>)
    BY <2>1, <2>2, <2>3 DEF Linked
  <2>5. root = At(<<e>>, Len(<<e>>))
    BY <1>1, <2>1, <2>2
  <2>6. Once(<<e>>)
    BY <2>1 DEF Once
  <2> QED BY <2>1, <2>2, <2>4, <2>5, <2>6 DEF Path
<1>4. TreeArrays
  BY <1>1 DEF TreeArrays, Once
<1>5. total = Cardinality(allocated) /\ named.gone = (c_el \notin allocated)
  BY <1>1, FS_Singleton DEF Tr!CareOf
<1> QED BY <1>1, <1>2, <1>3, <1>4, <1>5 DEF TreeIInv, TreePaths

(* nxs_tree_add: the path of the new element is that of the current root   *)
(* with the element before it; the others do not meet it.                  *)
LEMMA TreeAdd == ASSUME TreeIInv, NEW e \in Elems, Tr!Add(e) PROVE TreeIInv'
<1> DEFINE r == childs[c_root]
<1>1. /\ allocated \subseteq Elems /\ {root, c_root} \subseteq allocated
      /\ childs \in [Elems -> Seq(Elems)] /\ parent \in [Elems -> Pointer]
  BY DEF TreeIInv, TreeTyped
<1>2. /\ e \notin allocated /\ e # c_root /\ e # NULL
      /\ allocated' = allocated \cup {e} /\ total' = total + 1 /\ root' = root
         /\ c_root' = c_root
      /\ childs' = [childs EXCEPT ![e] = << >>, ![c_root] = Append(@, e)]
      /\ parent' = [parent EXCEPT ![e] = c_root]
      /\ c_el' = e /\ named' = [el |-> e, gone |-> FALSE]
  BY <1>1 DEF Tr!Add, Tr!Fresh, Tr!Point, Tr!CareOf
<1>3. /\ \A x \in Elems : childs'[x] = IF x = e THEN << >>
         ELSE IF x = c_root THEN Append(r, e) ELSE childs[x]
      /\ \A x \in Elems : parent'[x] = IF x = e THEN c_root ELSE parent[x]
  BY <1>1, <1>2
<1>4. TreeTyped'
  <2>1. Append(r, e) \in Seq(Elems)
    BY <1>1
  <2>2. childs' \in [Elems -> Seq(Elems)]
    <3>1. childs' = [x \in Elems |-> IF x = e THEN << >>
                                    ELSE IF x = c_root THEN Append(r, e)
                                      ELSE childs[x]]
      BY <1>1, <1>2
    <3>2. << >> \in Seq(Elems)
      OBVIOUS
    <3> HIDE DEF r
    <3> QED BY <1>1, <2>1, <3>1, <3>2
  <2>3. parent' \in [Elems -> Pointer]
    BY <1>1, <1>2 DEF Pointer
  <2> QED BY <1>1, <1>2, <2>2, <2>3 DEF TreeTyped
<1>5. TreePaths'
  <2>1. ASSUME NEW x \in allocated PROVE \E s : Path(s, x)'
    <3>1. PICK s : Path(s, x)
      BY DEF TreeIInv, TreePaths
    <3>2. \A i \in 1 .. Len(s) : s[i] # e
      BY <3>1, <1>2, PathFacts DEF TreeIInv
    <3>3. Path(s, x)'
      BY <3>1, <3>2, <1>1, <1>2, <1>3, PathKept DEF TreeIInv
    <3> QED BY <3>3
  <2>2. \E s : Path(s, e)'
    <3>1. PICK s : Path(s, c_root)
      BY <1>1 DEF TreeIInv, TreePaths
    <3> DEFINE t == Ins(s, 1, e)
    <3>2. /\ s \in Seq(Elems) /\ Len(s) \in Nat /\ 1 \in 1 .. Len(s)
             /\ s[1] = c_root /\ s[Len(s)] = root
          /\ \A i \in 1 .. Len(s) : s[i] \in allocated /\ s[i] \in Elems
             /\ s[i] # e
      BY <3>1, <1>1, <1>2, PathFacts DEF TreeIInv
    <3>3. At(s, 1) = c_root /\ Linked(parent, s) /\ Once(s)
      BY <3>1, <3>2 DEF At, Path
    <3>4. \A x \in Elems : parent'[x] = IF x = e THEN At(s, 1) ELSE parent[x]
      BY <1>3, <3>3
    <3>5. Once(t) /\ Linked(parent', t)
      BY <3>2, <3>3, <3>4, InsertOneWay
    <3>6. t \in Seq(Elems) /\ Len(t) = Len(s) + 1
      <4>1. 1 \in 1 .. Len(s) + 1
        BY <3>2
      <4> QED BY <3>2, <4>1, InsertIs
    <3>7. \A k \in 1 .. Len(s) + 1 : t[k] = IF k = 1 THEN e ELSE s[k - 1]
      BY <3>2 DEF Ins
    <3> HIDE DEF t
    <3>8. t \in Seq(allocated')
      <4>1. \A k \in 1 .. Len(s) + 1 : t[k] \in allocated'
        BY <3>2, <3>7, <1>2
      <4>2. t \in [1 .. Len(s) + 1 -> allocated']
        BY <4>1, <3>6
      <4>3. Len(s) + 1 \in Nat
        BY <3>2
      <4> QED BY <4>2, <4>3
    <3>9. e = At(t, 1) /\ root' = At(t, Len(t))
      BY <3>2, <3>6, <3>7, <1>2 DEF At
    <3>10. Path(t, e)'
      BY <3>5, <3>8, <3>9 DEF Path
    <3> QED BY <3>10
  <2> QED BY <2>1, <2>2, <1>2 DEF TreePaths
<1>6. TreeArrays'
  <2>1. \A x \in allocated : parent[x] # e
    BY ParentFacts, <1>2
  <2>2. \A x \in allocated : {childs[x][i] : i \in 1 .. Len(childs[x])}
          = {y \in allocated : parent[y] = x}
    BY DEF TreeIInv, TreeArrays
  <2>3. \A x \in allocated : Once(childs[x])
    BY DEF TreeIInv, TreeArrays
  <2>4. ASSUME NEW x \in allocated, x # c_root
        PROVE  /\ Once(childs'[x])
               /\ {childs'[x][i] : i \in 1 .. Len(childs'[x])}
                  = {y \in allocated' : parent'[y] = x}
    <3>1. childs'[x] = childs[x]
            /\ {y \in allocated' : parent'[y] = x}
               = {y \in allocated : parent[y] = x}
      BY <2>4, <1>1, <1>2, <1>3
    <3> QED BY <3>1, <2>2, <2>3
  <2>5. /\ Once(childs'[e])
        /\ {childs'[e][i] : i \in 1 .. Len(childs'[e])}
           = {y \in allocated' : parent'[y] = e}
    <3>1. childs'[e] = << >>
      BY <1>3
    <3>2. {y \in allocated' : parent'[y] = e} = {}
      BY <2>1, <1>1, <1>2, <1>3
    <3> QED BY <3>1, <3>2 DEF Once
  <2>6. /\ Once(childs'[c_root])
        /\ {childs'[c_root][i] : i \in 1 .. Len(childs'[c_root])}
           = {y \in allocated' : parent'[y] = c_root}
    <3> DEFINE t == Append(r, e)
    <3>1. childs'[c_root] = t
      BY <1>1, <1>2, <1>3
    <3>2. r \in Seq(Elems) /\ Len(r) \in Nat
      BY <1>1
    <3>3. Len(t) = Len(r) + 1
            /\ \A i \in 1 .. Len(r) + 1 : t[i] = IF i = Len(r) + 1 THEN e
               ELSE r[i]
      BY <3>2
    <3>4. {y \in allocated' : parent'[y] = c_root}
            = {y \in allocated : parent[y] = c_root} \cup {e}
      BY <1>1, <1>2, <1>3
    <3>5. {r[i] : i \in 1 .. Len(r)} = {y \in allocated : parent[y] = c_root}
            /\ Once(r)
      BY <2>2, <2>3, <1>1
    <3>6. \A i \in 1 .. Len(r) : r[i] # e
      BY <3>5, <1>2
    <3> HIDE DEF t, r
    <3>7. Once(t)
      BY <3>2, <3>3, <3>5, <3>6 DEF Once
    <3>8. {t[i] : i \in 1 .. Len(t)} = {r[i] : i \in 1 .. Len(r)} \cup {e}
      <4>1. ASSUME NEW x \in {t[i] : i \in 1 .. Len(t)}
            PROVE  x \in {r[i] : i \in 1 .. Len(r)} \cup {e}
        BY <3>2, <3>3
      <4>2. ASSUME NEW i \in 1 .. Len(r)
            PROVE  r[i] \in {t[j] : j \in 1 .. Len(t)}
        <5>1. i \in 1 .. Len(t) /\ t[i] = r[i]
          BY <3>2, <3>3
        <5> QED BY <5>1
      <4>3. e \in {t[j] : j \in 1 .. Len(t)}
        <5>1. Len(r) + 1 \in 1 .. Len(t) /\ t[Len(r) + 1] = e
          BY <3>2, <3>3
        <5> QED BY <5>1
      <4> QED BY <4>1, <4>2, <4>3
    <3> QED BY <3>1, <3>4, <3>5, <3>7, <3>8
  <2>7. \A x \in allocated' : x \in allocated \/ x = e
    BY <1>2
  <2> HIDE DEF r
  <2>8. ASSUME NEW x \in allocated'
        PROVE  /\ Once(childs'[x])
               /\ {childs'[x][i] : i \in 1 .. Len(childs'[x])}
                  = {y \in allocated' : parent'[y] = x}
    <3>1. CASE x = e
      BY <2>5, <3>1
    <3>2. CASE x = c_root
      BY <2>6, <3>2
    <3>3. CASE x # e /\ x # c_root
      BY <2>4, <2>7, <3>3
    <3> QED BY <3>1, <3>2, <3>3
  <2> QED BY <2>8 DEF TreeArrays
<1>7. total' = Cardinality(allocated')
  BY <1>2, FinitelyMany, FS_AddElement DEF TreeIInv
<1> QED BY <1>2, <1>4, <1>5, <1>6, <1>7 DEF TreeIInv

(* nxs_tree_del_child: the element that goes has no children, so it was on *)
(* no path but its own.                                                    *)
LEMMA TreeDelChild ==
  ASSUME TreeIInv, NEW i, NEW mode, Tr!DelChild(i, mode)
  PROVE  TreeIInv'
<1> DEFINE r == childs[c_root]
           t == r[i]
           w == Tr!Without(r, i, mode)
<1>1. /\ allocated \subseteq Elems /\ {root, c_root} \subseteq allocated
      /\ childs \in [Elems -> Seq(Elems)] /\ parent \in [Elems -> Pointer]
      /\ named \in [el : Elems, gone : BOOLEAN] /\ c_el = named.el
      /\ r \in Seq(Elems)
  BY DEF TreeIInv, TreeTyped
<1>2. /\ i \in 1 .. Len(r) /\ childs[t] = << >>
      /\ allocated' = allocated \ {t} /\ total' = total - 1
      /\ childs' = [childs EXCEPT ![c_root] = w]
      /\ parent' = [parent EXCEPT ![t] = NULL]
      /\ named' = IF named.el = t THEN [named EXCEPT !.gone = TRUE] ELSE named
      /\ root' = root /\ c_root' = c_root /\ c_el' = c_el
  BY <1>1 DEF Tr!DelChild
<1>3. Once(r)
        /\ {r[k] : k \in 1 .. Len(r)} = {x \in allocated : parent[x] = c_root}
  BY <1>1 DEF TreeIInv, TreeArrays
<1>4. t \in allocated /\ parent[t] = c_root
  BY <1>2, <1>3
<1>5. t # c_root
  <2>1. CASE t = c_root
    <3>1. r = << >> /\ Len(r) = 0
      BY <1>2, <2>1
    <3> QED BY <1>2, <3>1
  <2> QED BY <2>1
<1>6. t # root
  BY <1>1, <1>4, ParentFacts
<1>7. w \in Seq(Elems) /\ Once(w) /\ Held(w) = Held(r) \ {t}
  <2> HIDE DEF r
  <2> QED BY <1>1, <1>2, <1>3, ArrayWithout
<1> HIDE DEF t, w, r
<1>8. /\ \A x \in Elems : childs'[x] = IF x = c_root THEN w ELSE childs[x]
      /\ \A x \in Elems : parent'[x] = IF x = t THEN NULL ELSE parent[x]
  BY <1>1, <1>2
<1>9. TreeTyped'
  <2>1. childs' \in [Elems -> Seq(Elems)] /\ parent' \in [Elems -> Pointer]
    BY <1>1, <1>2, <1>7 DEF Pointer
  <2>2. named' \in [el : Elems, gone : BOOLEAN] /\ named'.el = named.el
    BY <1>1, <1>2
  <2> QED BY <1>1, <1>2, <1>5, <1>6, <2>1, <2>2 DEF TreeTyped
<1>10. TreePaths'
  <2>1. ASSUME NEW e \in allocated, e # t PROVE \E s : Path(s, e)'
    <3>1. PICK s : Path(s, e)
      BY DEF TreeIInv, TreePaths
    <3>2. \A k \in 1 .. Len(s) : s[k] # t
      BY <1>2, <1>4, <2>1, <3>1, LeafOffPaths
    <3>3. Path(s, e)'
      BY <1>1, <1>2, <1>8, <3>1, <3>2, PathKept DEF TreeIInv
    <3> QED BY <3>3
  <2> QED BY <1>2, <2>1 DEF TreePaths
<1>11. TreeArrays'
  <2>1. ASSUME NEW x \in allocated'
        PROVE  /\ Once(childs'[x])
               /\ {childs'[x][k] : k \in 1 .. Len(childs'[x])}
                  = {y \in allocated' : parent'[y] = x}
    <3>1. x \in allocated /\ x # t /\ x # NULL
      BY <1>1, <1>2
    <3>2. {y \in allocated' : parent'[y] = x}
            = {y \in allocated : parent[y] = x} \ {t}
      BY <1>1, <1>2, <1>8, <3>1
    <3>3. CASE x = c_root
      <4>1. childs'[x] = w
        BY <1>1, <1>8, <3>3
      <4>2. Held(w) = {y \in allocated' : parent'[y] = x}
        BY <1>3, <1>7, <3>2, <3>3 DEF Held
      <4> QED BY <1>7, <4>1, <4>2 DEF Held
    <3>4. CASE x # c_root
      <4>1. childs'[x] = childs[x]
        BY <1>1, <1>8, <3>1, <3>4
      <4>2. {y \in allocated' : parent'[y] = x}
              = {y \in allocated : parent[y] = x}
        BY <1>4, <3>2, <3>4
      <4> QED BY <3>1, <4>1, <4>2 DEF TreeIInv, TreeArrays
    <3> QED BY <3>3, <3>4
  <2> QED BY <2>1 DEF TreeArrays
<1>12. total' = Cardinality(allocated')
  BY <1>2, <1>4, FinitelyMany, FS_RemoveElement DEF TreeIInv
<1>13. named'.gone = (c_el' \notin allocated')
  <2>1. CASE named.el = t
    BY <1>1, <1>2, <2>1
  <2>2. CASE named.el # t
    BY <1>1, <1>2, <2>2 DEF TreeIInv
  <2> QED BY <2>1, <2>2
<1> QED BY <1>9, <1>10, <1>11, <1>12, <1>13 DEF TreeIInv

(* The operations that only choose an element *)
LEMMA TreeKept ==
  ASSUME TreeIInv, UNCHANGED <<allocated, childs, parent, root, total>>,
         TreeTyped', named'.gone = (c_el' \notin allocated')
  PROVE  TreeIInv'
<1>1. TreePaths'
  BY DEF TreeIInv, TreePaths, Path
<1>2. TreeArrays'
  BY DEF TreeIInv, TreeArrays
<1> QED BY <1>1, <1>2 DEF TreeIInv

(* Every step keeps the invariant.                                         *)
LEMMA TreeStep == ASSUME TreeIInv, [Tr!Next]_(Tr!vars) PROVE TreeIInv'
<1>1. /\ allocated \subseteq Elems /\ {root, c_root} \subseteq allocated
      /\ childs \in [Elems -> Seq(Elems)] /\ parent \in [Elems -> Pointer]
      /\ named \in [el : Elems, gone : BOOLEAN] /\ c_el = named.el
      /\ named.gone = (c_el \notin allocated)
  BY DEF TreeIInv, TreeTyped
<1>2. ASSUME NEW e \in allocated, Tr!Point(e), c_root' \in allocated,
             UNCHANGED <<allocated, childs, parent, root, total>>
      PROVE  TreeIInv'
  <2>1. c_el' = e /\ named' = [el |-> e, gone |-> FALSE] /\ e \in Elems
    BY <1>1, <1>2 DEF Tr!Point, Tr!CareOf
  <2>2. TreeTyped'
    BY <1>1, <1>2, <2>1 DEF TreeTyped
  <2> QED BY <1>2, <2>1, <2>2, TreeKept
<1>3. ASSUME c_root' \in allocated,
             UNCHANGED <<allocated, childs, parent, root, c_el, total, named>>
      PROVE  TreeIInv'
  <2>1. TreeTyped'
    BY <1>1, <1>3 DEF TreeTyped
  <2> QED BY <1>1, <1>3, <2>1, TreeKept
<1>4. CASE UNCHANGED Tr!vars
  BY <1>1, <1>3, <1>4 DEF Tr!vars
<1>5. ASSUME NEW e \in Elems, Tr!Add(e) PROVE TreeIInv'
  BY <1>5, TreeAdd
<1>6. ASSUME NEW i, Tr!ElSet(i) PROVE TreeIInv'
  <2> DEFINE r == childs[c_root]
  <2>1. r \in Seq(Elems) /\ i \in DOMAIN r
    BY <1>1, <1>6 DEF Tr!ElSet
  <2>2. {r[k] : k \in 1 .. Len(r)} = {x \in allocated : parent[x] = c_root}
    BY <1>1 DEF TreeIInv, TreeArrays
  <2>3. r[i] \in allocated
    <3> HIDE DEF r
    <3> QED BY <2>1, <2>2
  <2> QED BY <1>1, <1>2, <1>6, <2>3 DEF Tr!ElSet
<1>7. ASSUME NEW i, NEW mode, Tr!DelChild(i, mode) PROVE TreeIInv'
  BY <1>7, TreeDelChild
<1>8. CASE Tr!Chroot
  BY <1>1, <1>3, <1>8 DEF Tr!Chroot
<1>9. CASE Tr!ChrootUp
  <2>1. parent[c_root] \in allocated \cup {NULL}
    BY <1>1, ParentFacts
  <2> QED BY <1>1, <1>3, <1>9, <2>1 DEF Tr!ChrootUp
<1>10. CASE Tr!ElInit
  BY <1>1, <1>2, <1>10 DEF Tr!ElInit
<1>11. CASE Tr!RootInit
  BY <1>1, <1>3, <1>11 DEF Tr!RootInit
<1>12. CASE Tr!Get
  BY <1>1, <1>3, <1>12 DEF Tr!Get
<1> QED BY <1>4, <1>5, <1>6, <1>7, <1>8, <1>9, <1>10, <1>11, <1>12 DEF Tr!Next

(* What lies above an element is the rest of its path.                     *)
LEMMA AboveIs ==
  ASSUME TreeIInv, NEW e \in allocated, NEW s, Path(s, e)
  PROVE  Tr!Above(e) = {At(s, i + 2) : i \in 0 .. Cardinality(Elems)}
<1> DEFINE c == Cardinality(Elems)
           n == Len(s)
           t == Without(s, 1)
<1>1. /\ s \in Seq(Elems) /\ n \in Nat /\ 1 \in 1 .. n /\ parent[e] = At(s, 2)
      /\ Once(s) /\ Linked(parent, s)
  BY PathFacts DEF TreeIInv, Path
<1>2. t \in Seq(Elems) /\ Len(t) = n - 1
  BY <1>1, DeleteIs
<1>3. \A k \in 1 .. n - 1 : t[k] = s[k + 1]
  BY <1>1 DEF Without
<1> HIDE DEF t
<1>4. \A k \in Nat \ {0} : At(t, k) = At(s, k + 1)
  <2>1. ASSUME NEW k \in Nat \ {0}, k \in 1 .. n - 1
        PROVE  At(t, k) = At(s, k + 1)
    <3>1. k \in 1 .. Len(t) /\ k + 1 \in 1 .. n
      BY <1>1, <1>2, <2>1
    <3> QED BY <1>3, <2>1, <3>1 DEF At
  <2>2. ASSUME NEW k \in Nat \ {0}, k \notin 1 .. n - 1
        PROVE  At(t, k) = At(s, k + 1)
    <3>1. k \notin 1 .. Len(t) /\ k + 1 \notin 1 .. n
      BY <1>1, <1>2, <2>2
    <3> QED BY <3>1 DEF At
  <2> QED BY <2>1, <2>2
<1>5. Once(t)
  BY <1>1, <1>2, <1>3 DEF Once
<1>6. Linked(parent, t)
  <2>1. ASSUME NEW k \in 1 .. n - 1 PROVE parent[t[k]] = At(t, k + 1)
    <3>1. k + 1 \in 1 .. n /\ (k + 1) + 1 = (k + 1) + 1 /\ k + 1 \in Nat \ {0}
      BY <1>1
    <3>2. parent[s[k + 1]] = At(s, (k + 1) + 1)
      BY <1>1, <3>1 DEF Linked
    <3> QED BY <1>3, <1>4, <3>1, <3>2
  <2> QED BY <1>2, <2>1 DEF Linked
<1>7. parent[e] = At(t, 1)
  BY <1>1, <1>4
<1>8. \A i \in 0 .. c : Followed(parent, parent[e])[i] = At(t, i + 1)
  BY <1>2, <1>5, <1>6, <1>7, FollowedIs
<1>9. c \in Nat
  BY FS_CardinalityType
<1>10. \A i \in 0 .. c : Followed(parent, parent[e])[i] = At(s, i + 2)
  BY <1>4, <1>8, <1>9
<1>11. Tr!Above(e) = {Followed(parent, parent[e])[i] : i \in 0 .. c}
  BY SameInTree DEF Tr!Above
<1> QED BY <1>10, <1>11

(* The invariant says that the tree is whole and its current element       *)
(* right.                                                                  *)
LEMMA TreeIInvWhole == ASSUME TreeIInv PROVE Tr!TreeRight
<1>1. ASSUME NEW e \in allocated
      PROVE  /\ Tr!ToSet(childs[e]) = {x \in allocated : parent[x] = e}
             /\ Tr!IsInjective(childs[e])
  <2>1. /\ Once(childs[e]) /\ childs[e] \in Seq(Elems)
        /\ {childs[e][i] : i \in 1 .. Len(childs[e])}
           = {x \in allocated : parent[x] = e}
    BY DEF TreeIInv, TreeArrays, TreeTyped
  <2>2. DOMAIN childs[e] = 1 .. Len(childs[e])
    BY <2>1
  <2> QED BY <2>1, <2>2 DEF Tr!ToSet, Tr!IsInjective, Once
<1>2. ASSUME NEW e \in allocated
      PROVE  (e # root => root \in Tr!Above(e)) /\ e \notin Tr!Above(e)
  <2>1. PICK s : Path(s, e)
    BY DEF TreeIInv, TreePaths
  <2> DEFINE c == Cardinality(Elems)
             n == Len(s)
  <2>2. Tr!Above(e) = {At(s, i + 2) : i \in 0 .. c}
    BY <2>1, AboveIs
  <2>3. /\ s \in Seq(Elems) /\ n \in Nat /\ 1 \in 1 .. n /\ s[1] = e
           /\ s[n] = root
        /\ Once(s) /\ Linked(parent, s) /\ e # NULL
    BY <2>1, PathFacts DEF TreeIInv, Path
  <2>4. n <= c /\ c \in Nat
    BY <2>1, <2>3, FollowedIs, FS_CardinalityType DEF Path
  <2>5. ASSUME e # root PROVE root \in Tr!Above(e)
    <3>1. n - 2 \in 0 .. c /\ (n - 2) + 2 = n /\ n \in 1 .. n
      BY <2>3, <2>4, <2>5
    <3>2. At(s, (n - 2) + 2) = root
      BY <2>3, <3>1 DEF At
    <3> QED BY <2>2, <3>1, <3>2
  <2>6. ASSUME NEW i \in 0 .. c PROVE At(s, i + 2) # e
    <3>1. i + 2 # 1 /\ i + 2 \in Nat
      BY <2>4
    <3>2. CASE i + 2 \in 1 .. n
      BY <2>3, <3>1, <3>2 DEF At, Once
    <3>3. CASE i + 2 \notin 1 .. n
      BY <2>3, <3>3 DEF At
    <3> QED BY <3>2, <3>3
  <2> QED BY <2>2, <2>5, <2>6
<1>3. parent[root] = NULL /\ {root, c_root} \subseteq allocated
  BY ParentFacts DEF TreeIInv, TreeTyped
<1>4. total = Tr!Cardinality(allocated)
  BY SameInTree DEF TreeIInv
<1>5. Tr!TreeWhole
  BY <1>1, <1>2, <1>3, <1>4 DEF Tr!TreeWhole
<1>6. Tr!CurrentRight
  BY DEF TreeIInv, TreeTyped, Tr!CurrentRight
<1> QED BY <1>5, <1>6 DEF Tr!TreeRight

(* In every state of nxs-tree the pointers to the parent lead from each    *)
(* element allocated to the root, the arrays of children hold what points  *)
(* to them, each once, and the current element is known to be alive or     *)
(* gone.                                                                   *)
THEOREM TreeInvariance == Tr!Spec => []Tr!IInv
<1>1. Tr!Init => Tr!IInv
  BY TreeInit, TreeIInvIs
<1>2. Tr!IInv /\ [Tr!Next]_(Tr!vars) => Tr!IInv'
  BY TreeStep, TreeIInvIs, TreeIInvIsNext
<1> QED BY <1>1, <1>2, PTL DEF Tr!Spec

(* nxs_tree_add, nxs_tree_del_child and the moves of the roots keep one    *)
(* tree that all that is allocated is in and counted, and a current        *)
(* element that is never an address given out again.                       *)
THEOREM TreeRightAlways == Tr!Spec => []Tr!TreeRight
<1>1. Tr!IInv => Tr!TreeRight
  BY TreeIInvIs, TreeIInvWhole
<1> QED BY <1>1, TreeInvariance, PTL
HIDE HeapAssumption

-----------------------------------------------------------------------------
(***************************************************************************)
(* nxs-poll                                                                *)
(***************************************************************************)
CONSTANTS Fds, Events
VARIABLES fds, fds_ready, asked, told, behind
Poll == INSTANCE PollSet

(* An entry of the set                                                     *)
Entry == [fd : Fds, events : SUBSET Events, revents : SUBSET Events]

(* The invariant, entry by entry *)
PollTyped ==
  fds \in Seq(Entry) /\ asked \in [Fds -> SUBSET Events]
    /\ told \in [Fds -> SUBSET Events]
(* A descriptor has one entry.                                             *)
Alone == \A i, j \in 1 .. Len(fds) : fds[i].fd = fds[j].fd => i = j
(* An entry asks for what was asked of its descriptor, and its results are *)
(* what poll(2) reported of it last, unless a removal has moved it since.  *)
AsAsked ==
  \A i \in 1 .. Len(fds) :
    /\ fds[i].events = asked[fds[i].fd] /\ fds[i].events # {}
    /\ fds[i].fd \notin behind => fds[i].revents = told[fds[i].fd]
(* What has no entry is not asked for.                                     *)
Absent(fd) == \A i \in 1 .. Len(fds) : fds[i].fd # fd
NotAsked == \A fd \in Fds : Absent(fd) => asked[fd] = {} /\ told[fd] = {}
(* All of it: inductive, which PollRight, that speaks of sets of           *)
(* descriptors, is not as it stands                                        *)
PollInv == PollTyped /\ Alone /\ AsAsked /\ NotAsked

(* A set that is empty satisfies it, at the start and after nxs_poll_free. *)
LEMMA PollEmptyInit ==
  ASSUME Poll!Init
  PROVE  PollInv
<1>1. PollTyped
  BY DEF PollTyped, Poll!Init
<1>2. Len(fds) = 0
  BY DEF Poll!Init
<1> QED BY <1>1, <1>2 DEF PollInv, Poll!Init, Alone, AsAsked, NotAsked

LEMMA PollEmpty ==
  ASSUME fds' = << >>, asked' = [f \in Fds |-> {}], told' = [f \in Fds |-> {}]
  PROVE  PollInv'
<1>1. PollTyped'
  BY DEF PollTyped
<1>2. Len(fds') = 0
  OBVIOUS
<1> QED BY <1>1, <1>2 DEF PollInv, Alone, AsAsked, NotAsked

(* nxs_poll_add, of a descriptor that is in the set and of one that is not *)
LEMMA PollAdd ==
  ASSUME PollInv, NEW fd \in Fds, NEW ev \in SUBSET Events, Poll!Add(fd, ev)
  PROVE  PollInv'
<1> DEFINE n == Len(fds)
<1>1. fds \in Seq(Entry) /\ n \in Nat /\ DOMAIN fds = 1 .. n
  BY DEF PollInv, PollTyped
<1>2. \A i \in 1 .. n : fds[i] \in Entry
  BY <1>1
<1>3. /\ asked' = [asked EXCEPT ![fd] = @ \cup ev]
         /\ told' = [told EXCEPT ![fd] = {}]
      /\ behind' = behind \ {fd} /\ ev # {}
  BY DEF Poll!Add
<1>4. asked' \in [Fds -> SUBSET Events] /\ told' \in [Fds -> SUBSET Events]
  BY <1>3 DEF PollInv, PollTyped
<1>5. /\ asked'[fd] = asked[fd] \cup ev /\ told'[fd] = {}
      /\ \A f \in Fds : f # fd => asked'[f] = asked[f] /\ told'[f] = told[f]
  BY <1>3 DEF PollInv, PollTyped
<1>6. ASSUME NEW i \in 1 .. n, fds[i].fd = fd,
             fds' = [fds EXCEPT ![i].events = @ \cup ev, ![i].revents = {}]
      PROVE  PollInv'
  <2>1. fds' = [k \in 1 .. n |-> IF k = i THEN [fds[i] EXCEPT !.events = @ \cup
          ev, !.revents = {}] ELSE fds[k]]
    BY <1>1, <1>6
  <2>2. [fds[i] EXCEPT !.events = @ \cup ev, !.revents = {}] \in Entry
    BY <1>2 DEF Entry
  <2>3. fds' \in [1 .. n -> Entry]
    BY <1>2, <2>1, <2>2
  <2>4. fds' \in Seq(Entry) /\ Len(fds') = n
    BY <1>1, <2>3
  <2>5. /\ \A k \in 1 .. n : fds'[k].fd = fds[k].fd
        /\ \A k \in 1 .. n : k # i => fds'[k] = fds[k]
        /\ fds'[i].events = fds[i].events \cup ev /\ fds'[i].revents = {}
    BY <1>1, <1>2, <2>1 DEF Entry
  <2>6. Alone'
    BY <2>4, <2>5 DEF Alone, PollInv
  <2>7. AsAsked'
    <3>1. ASSUME NEW k \in 1 .. n
          PROVE  /\ fds'[k].events = asked'[fds'[k].fd] /\ fds'[k].events # {}
                 /\ fds'[k].fd \notin behind' => fds'[k].revents
                    = told'[fds'[k].fd]
      <4>1. fds[k].events = asked[fds[k].fd] /\ fds[k].events # {}
              /\ fds[k].fd \in Fds
            /\ (fds[k].fd \notin behind => fds[k].revents = told[fds[k].fd])
        BY <1>2 DEF AsAsked, PollInv, Entry
      <4>2. CASE k = i
        <5>1. fds'[i].fd = fd /\ fds[i].events = asked[fd]
          BY <1>6, <2>5, <4>1, <4>2
        <5>2. fds'[i].events = asked'[fd] /\ fds'[i].events # {}
                /\ fds'[i].revents = told'[fd]
          BY <1>3, <1>5, <2>5, <5>1
        <5> QED BY <4>2, <5>1, <5>2
      <4>3. CASE k # i
        <5>1. fds[k].fd # fd
          BY <1>6, <4>3 DEF Alone, PollInv
        <5> QED BY <1>3, <1>5, <2>5, <4>1, <4>3, <5>1
      <4> QED BY <4>2, <4>3
    <3> QED BY <2>4, <3>1 DEF AsAsked
  <2>8. NotAsked'
    <3>1. ASSUME NEW f \in Fds, Absent(f)'
          PROVE  asked'[f] = {} /\ told'[f] = {}
      <4>1. Absent(f)
        BY <2>4, <2>5, <3>1 DEF Absent
      <4>2. f # fd
        BY <1>6, <4>1 DEF Absent
      <4> QED BY <1>5, <4>1, <4>2 DEF NotAsked, PollInv
    <3> QED BY <3>1 DEF NotAsked
  <2> QED BY <1>4, <2>4, <2>6, <2>7, <2>8 DEF PollInv, PollTyped
<1>7. ASSUME Absent(fd),
             fds' = Append(fds, [fd |-> fd, events |-> ev, revents |-> {}])
      PROVE  PollInv'
  <2> DEFINE x == [fd |-> fd, events |-> ev, revents |-> {}]
  <2>1. x \in Entry
    BY DEF Entry
  <2>2. fds' \in Seq(Entry) /\ Len(fds') = n + 1 /\ fds'[n + 1] = x
        /\ \A k \in 1 .. n : fds'[k] = fds[k]
    <3> HIDE DEF x
    <3>1. fds' = Append(fds, x)
      BY <1>7 DEF x
    <3> QED BY <1>1, <2>1, <3>1
  <2>3. fds'[n + 1].fd = fd /\ fds'[n + 1].events = ev
          /\ fds'[n + 1].revents = {}
    BY <2>2
  <2>4. \A k \in 1 .. n + 1 : k \in 1 .. n \/ k = n + 1
    BY <1>1
  <2>5. \A k \in 1 .. n : fds'[k] = fds[k] /\ fds[k].fd # fd
          /\ fds[k].fd \in Fds
    BY <1>2, <1>7, <2>2 DEF Absent, Entry
  <2>6. Alone'
    BY <2>2, <2>3, <2>4, <2>5 DEF Alone, PollInv
  <2>7. AsAsked'
    <3>1. ASSUME NEW k \in 1 .. n
          PROVE  /\ fds'[k].events = asked'[fds'[k].fd] /\ fds'[k].events # {}
                 /\ fds'[k].fd \notin behind' => fds'[k].revents
                    = told'[fds'[k].fd]
      BY <1>3, <1>5, <2>5 DEF AsAsked, PollInv
    <3>2. asked[fd] = {}
      BY <1>7 DEF NotAsked, PollInv
    <3> QED BY <1>3, <1>5, <2>2, <2>3, <2>4, <3>1, <3>2 DEF AsAsked
  <2>8. NotAsked'
    <3>1. ASSUME NEW f \in Fds, Absent(f)'
          PROVE  asked'[f] = {} /\ told'[f] = {}
      <4>1. Absent(f) /\ f # fd
        <5>1. n + 1 \in 1 .. n + 1 /\ \A k \in 1 .. n : k \in 1 .. n + 1
          BY <1>1
        <5> QED BY <2>2, <2>3, <2>5, <3>1, <5>1 DEF Absent
      <4> QED BY <1>5, <4>1 DEF NotAsked, PollInv
    <3> QED BY <3>1 DEF NotAsked
  <2> QED BY <1>4, <2>2, <2>6, <2>7, <2>8 DEF PollInv, PollTyped
<1>8. Poll!Index(fd) = {i \in 1 .. n : fds[i].fd = fd}
  BY <1>1 DEF Poll!Index
<1>9. CASE Poll!AddMore(fd, ev)
  <2>1. PICK i \in 1 .. n : fds[i].fd = fd
          /\ fds' = [fds EXCEPT ![i].events = @ \cup ev, ![i].revents = {}]
    BY <1>8, <1>9 DEF Poll!AddMore
  <2> QED BY <1>6, <2>1
<1>10. CASE Poll!Index(fd) = {}
         /\ fds' = Append(fds, [fd |-> fd, events |-> ev, revents |-> {}])
  <2>1. Absent(fd)
    BY <1>8, <1>10 DEF Absent
  <2> QED BY <1>7, <1>10, <2>1
<1> QED BY <1>9, <1>10 DEF Poll!Add

(* What the removal of the i-th entry leaves, when nothing is asked of its *)
(* descriptor any more                                                     *)
LEMMA PollRemove ==
  ASSUME PollInv, NEW i \in 1 .. Len(fds), NEW fd, fd = fds[i].fd,
         Poll!Remove(fd, i),
         asked' = [asked EXCEPT ![fd] = {}]
  PROVE  PollInv'
<1> DEFINE n == Len(fds)
           from(k) == IF k < i THEN k ELSE k + 1
<1>1. fds \in Seq(Entry) /\ n \in Nat /\ DOMAIN fds = 1 .. n /\ i \in 1 .. n
        /\ n - 1 \in Nat
  BY DEF PollInv, PollTyped
<1>2. \A k \in 1 .. n : fds[k] \in Entry /\ fds[k].fd \in Fds
  <2>1. \A k \in 1 .. n : fds[k] \in Entry
    BY <1>1
  <2> QED BY <2>1 DEF Entry
<1>3. /\ fds' = Poll!MoveUp(i) /\ told' = [told EXCEPT ![fd] = {}]
      /\ behind' = (behind \cup {fds[k].fd : k \in i + 1 .. n}) \ {fd}
         /\ fd \in Fds
  BY <1>2 DEF Poll!Remove
<1>4. asked' \in [Fds -> SUBSET Events] /\ told' \in [Fds -> SUBSET Events]
  BY <1>3 DEF PollInv, PollTyped
<1>5. /\ asked'[fd] = {} /\ told'[fd] = {}
      /\ \A f \in Fds : f # fd => asked'[f] = asked[f] /\ told'[f] = told[f]
  BY <1>3 DEF PollInv, PollTyped
<1>6. fds' = [k \in 1 .. n - 1 |->
                IF k < i THEN fds[k]
                ELSE [fds[k] EXCEPT !.fd = fds[k + 1].fd, !.events = fds[k +
                  1].events]]
  BY <1>3 DEF Poll!MoveUp
<1>7. ASSUME NEW k \in 1 .. n - 1
      PROVE  /\ from(k) \in 1 .. n /\ from(k) # i
             /\ fds'[k] \in Entry
             /\ fds'[k].fd = fds[from(k)].fd
                /\ fds'[k].events = fds[from(k)].events
             /\ k < i => from(k) = k /\ fds'[k] = fds[k]
             /\ ~ (k < i) => from(k) \in i + 1 .. n
  <2>1. CASE k < i
    <3>1. k \in 1 .. n /\ k # i
      BY <1>1, <2>1
    <3>2. fds'[k] = fds[k]
      BY <1>6, <2>1
    <3> QED BY <1>2, <2>1, <3>1, <3>2
  <2>2. CASE ~ (k < i)
    <3>1. k + 1 \in 1 .. n /\ k \in 1 .. n /\ k + 1 \in i + 1 .. n /\ k + 1 # i
      BY <1>1, <2>2
    <3>2. fds'[k]
            = [fds[k] EXCEPT !.fd = fds[k + 1].fd, !.events = fds[k +
              1].events]
      BY <1>6, <2>2
    <3> QED BY <1>2, <2>2, <3>1, <3>2 DEF Entry
  <2> QED BY <2>1, <2>2
<1>8. \A k, j \in 1 .. n - 1 : from(k) = from(j) => k = j
  BY <1>1
<1>9. ASSUME NEW m \in 1 .. n, m # i PROVE \E k \in 1 .. n - 1 : from(k) = m
  <2>1. CASE m < i
    <3>1. m \in 1 .. n - 1 /\ from(m) = m
      BY <2>1, <1>1
    <3> QED BY <3>1
  <2>2. CASE ~ (m < i)
    <3>1. m - 1 \in 1 .. n - 1 /\ from(m - 1) = m
      BY <2>2, <1>1, <1>9
    <3> QED BY <3>1
  <2> QED BY <2>1, <2>2
<1> HIDE DEF from
<1>10. fds' \in Seq(Entry) /\ Len(fds') = n - 1
  <2>1. fds' \in [1 .. n - 1 -> Entry]
    BY <1>6, <1>7
  <2> HIDE DEF n
  <2> QED BY <1>1, <2>1
<1>11. Alone'
  <2>1. \A k, j \in 1 .. n : fds[k].fd = fds[j].fd => k = j
    BY DEF Alone, PollInv
  <2> HIDE DEF n
  <2>2. \A k, j \in 1 .. n - 1 : fds'[k].fd = fds'[j].fd => k = j
    BY <1>7, <1>8, <2>1
  <2> QED BY <1>10, <2>2 DEF Alone
<1>12. AsAsked'
  <2>1. ASSUME NEW k \in 1 .. n - 1
        PROVE  /\ fds'[k].events = asked'[fds'[k].fd] /\ fds'[k].events # {}
               /\ fds'[k].fd \notin behind' => fds'[k].revents
                  = told'[fds'[k].fd]
    <3> DEFINE m == from(k)
    <3>1. m \in 1 .. n /\ m # i /\ fds'[k].fd = fds[m].fd
            /\ fds'[k].events = fds[m].events
      BY <1>7
    <3> HIDE DEF m
    <3>2. fds[m].fd # fd /\ fds[m].fd \in Fds
      BY <1>1, <1>2, <3>1 DEF Alone, PollInv
    <3>3. fds'[k].events = asked'[fds'[k].fd] /\ fds'[k].events # {}
      BY <1>5, <3>1, <3>2 DEF AsAsked, PollInv
    <3>4. ASSUME fds'[k].fd \notin behind'
          PROVE  fds'[k].revents = told'[fds'[k].fd]
      <4>1. CASE k < i
        <5>1. m = k /\ fds'[k] = fds[k]
          BY <1>7, <4>1 DEF m
        <5> QED BY <1>3, <1>5, <3>1, <3>2, <3>4, <5>1 DEF AsAsked, PollInv
      <4>2. CASE ~ (k < i)
        <5>1. m \in i + 1 .. n
          BY <1>7, <4>2 DEF m
        <5> QED BY <1>3, <3>1, <3>2, <3>4, <5>1
      <4> QED BY <4>1, <4>2
    <3> QED BY <3>3, <3>4
  <2> QED BY <1>10, <2>1 DEF AsAsked
<1>13. NotAsked'
  <2>1. ASSUME NEW f \in Fds, Absent(f)', f # fd
        PROVE  asked'[f] = {} /\ told'[f] = {}
    <3>1. Absent(f)
      <4>1. ASSUME NEW m \in 1 .. n, fds[m].fd = f PROVE FALSE
        <5>1. m # i
          BY <2>1, <4>1
        <5>2. PICK k \in 1 .. n - 1 : from(k) = m
          BY <1>9, <5>1
        <5> QED BY <1>7, <1>10, <2>1, <4>1, <5>2 DEF Absent
      <4> QED BY <4>1 DEF Absent
    <3> QED BY <1>5, <2>1, <3>1 DEF NotAsked, PollInv
  <2> QED BY <1>5, <2>1 DEF NotAsked
<1> QED BY <1>4, <1>10, <1>11, <1>12, <1>13 DEF PollInv, PollTyped

(* nxs_poll_del                                                            *)
LEMMA PollDel ==
  ASSUME PollInv, NEW fd \in Fds, Poll!Del(fd)
  PROVE  PollInv'
<1>1. DOMAIN fds = 1 .. Len(fds)
  BY DEF PollInv, PollTyped
<1>2. PICK i \in 1 .. Len(fds) : fds[i].fd = fd /\ Poll!Remove(fd, i)
  BY <1>1 DEF Poll!Del, Poll!Index
<1>3. asked' = [asked EXCEPT ![fd] = {}]
  BY DEF Poll!Del
<1> QED BY <1>2, <1>3, PollRemove

(* nxs_poll_del_event, which removes the entry with its last event         *)
LEMMA PollDelEvent ==
  ASSUME PollInv, NEW fd \in Fds, NEW ev \in SUBSET Events,
         Poll!DelEvent(fd, ev)
  PROVE  PollInv'
<1> DEFINE n == Len(fds)
<1>1. fds \in Seq(Entry) /\ n \in Nat /\ DOMAIN fds = 1 .. n
  BY DEF PollInv, PollTyped
<1>2. \A k \in 1 .. n : fds[k] \in Entry /\ fds[k].fd \in Fds
  <2>1. \A k \in 1 .. n : fds[k] \in Entry
    BY <1>1
  <2> QED BY <2>1 DEF Entry
<1>3. PICK i \in 1 .. n :
        /\ fds[i].fd = fd
        /\ IF fds[i].events \subseteq ev
           THEN Poll!Remove(fd, i)
           ELSE fds' = [fds EXCEPT ![i].events = @ \ ev]
             /\ UNCHANGED <<told, behind>>
  BY <1>1 DEF Poll!DelEvent, Poll!Index
<1>4. asked' = [asked EXCEPT ![fd] = @ \ ev]
  BY DEF Poll!DelEvent
<1>5. fds[i].events = asked[fd] /\ asked[fd] \in SUBSET Events
  BY <1>3 DEF AsAsked, PollInv, PollTyped
<1>6. CASE fds[i].events \subseteq ev
  <2>1. asked[fd] \ ev = {}
    BY <1>5, <1>6
  <2>2. asked' = [asked EXCEPT ![fd] = {}]
    BY <1>4, <2>1
  <2> QED BY <1>3, <1>6, <2>2, PollRemove
<1>7. CASE ~ (fds[i].events \subseteq ev)
  <2> DEFINE x == [fds[i] EXCEPT !.events = @ \ ev]
  <2>1. x \in Entry /\ x.fd = fds[i].fd /\ x.events = fds[i].events \ ev
          /\ x.revents = fds[i].revents
    BY <1>2 DEF Entry
  <2>2. fds' = [fds EXCEPT ![i] = x] /\ told' = told /\ behind' = behind
    BY <1>3, <1>7
  <2> HIDE DEF x
  <2>3. fds' \in Seq(Entry) /\ Len(fds') = n /\ fds'[i] = x
        /\ \A k \in 1 .. n : k # i => fds'[k] = fds[k]
    BY <1>1, <2>1, <2>2
  <2>4. /\ asked' \in [Fds -> SUBSET Events] /\ asked'[fd] = asked[fd] \ ev
        /\ \A f \in Fds : f # fd => asked'[f] = asked[f]
    BY <1>4 DEF PollInv, PollTyped
  <2>5. \A k \in 1 .. n : fds'[k].fd = fds[k].fd
    BY <2>1, <2>3
  <2>6. Alone'
    BY <2>3, <2>5 DEF Alone, PollInv
  <2>7. AsAsked'
    <3>1. ASSUME NEW k \in 1 .. n
          PROVE  /\ fds'[k].events = asked'[fds'[k].fd] /\ fds'[k].events # {}
                 /\ fds'[k].fd \notin behind' => fds'[k].revents
                    = told'[fds'[k].fd]
      <4>1. CASE k = i
        <5>1. fds'[i].fd = fd /\ fds'[i].events = asked'[fd]
                /\ fds'[i].revents = fds[i].revents
          BY <1>3, <1>5, <2>1, <2>3, <2>4
        <5>2. fds'[i].events # {}
          BY <1>7, <2>1, <2>3
        <5> QED BY <1>3, <2>2, <4>1, <5>1, <5>2 DEF AsAsked, PollInv
      <4>2. CASE k # i
        <5>1. fds'[k] = fds[k] /\ fds[k].fd # fd /\ fds[k].fd \in Fds
          BY <1>2, <1>3, <2>3, <4>2 DEF Alone, PollInv
        <5> QED BY <2>2, <2>4, <5>1 DEF AsAsked, PollInv
      <4> QED BY <4>1, <4>2
    <3> QED BY <2>3, <3>1 DEF AsAsked
  <2>8. NotAsked'
    <3>1. ASSUME NEW f \in Fds, Absent(f)'
          PROVE  asked'[f] = {} /\ told'[f] = {}
      <4>1. Absent(f)
        BY <2>3, <2>5, <3>1 DEF Absent
      <4>2. f # fd
        BY <1>3, <4>1 DEF Absent
      <4> QED BY <2>2, <2>4, <4>1, <4>2 DEF NotAsked, PollInv
    <3> QED BY <3>1 DEF NotAsked
  <2> QED BY <2>2, <2>3, <2>4, <2>6, <2>7, <2>8 DEF PollInv, PollTyped
<1> QED BY <1>6, <1>7

(* nxs_poll_exec                                                           *)
LEMMA PollExec == ASSUME PollInv, Poll!Exec PROVE PollInv'
<1> DEFINE n == Len(fds)
<1>1. fds \in Seq(Entry) /\ n \in Nat /\ DOMAIN fds = 1 .. n
        /\ asked \in [Fds -> SUBSET Events]
  BY DEF PollInv, PollTyped
<1>2. \A k \in 1 .. n : fds[k] \in Entry /\ fds[k].fd \in Fds
  <2>1. \A k \in 1 .. n : fds[k] \in Entry
    BY <1>1
  <2> QED BY <2>1 DEF Entry
<1>3. PICK ready \in SUBSET Fds : told'
        = [f \in Fds |-> IF f \in ready THEN asked[f] ELSE {}]
  BY DEF Poll!Exec
<1>4. told' \in [Fds -> SUBSET Events] /\ asked' = asked
  BY <1>1, <1>3 DEF Poll!Exec
<1>5. fds' = [i \in 1 .. n |-> [fds[i] EXCEPT !.revents = told'[fds[i].fd]]]
  BY <1>1 DEF Poll!Exec
<1>6. ASSUME NEW i \in 1 .. n
      PROVE  /\ fds'[i] \in Entry /\ fds'[i].fd = fds[i].fd
                /\ fds'[i].events = fds[i].events
             /\ fds'[i].revents = told'[fds[i].fd]
  <2>1. told'[fds[i].fd] \in SUBSET Events
    BY <1>2, <1>4
  <2> QED BY <1>2, <1>5, <2>1 DEF Entry
<1>7. fds' \in Seq(Entry) /\ Len(fds') = n
  <2>1. fds' \in [1 .. n -> Entry]
    BY <1>5, <1>6
  <2> QED BY <1>1, <2>1
<1>8. Alone'
  BY <1>6, <1>7 DEF Alone, PollInv
<1>9. AsAsked'
  BY <1>4, <1>6, <1>7 DEF AsAsked, PollInv
<1>10. NotAsked'
  <2>1. ASSUME NEW f \in Fds, Absent(f)' PROVE asked'[f] = {} /\ told'[f] = {}
    <3>1. asked[f] = {}
      BY <1>6, <1>7, <2>1 DEF Absent, NotAsked, PollInv
    <3> QED BY <1>3, <1>4, <3>1
  <2> QED BY <2>1 DEF NotAsked
<1> QED BY <1>4, <1>7, <1>8, <1>9, <1>10 DEF PollInv, PollTyped

(* Every step keeps the invariant.                                         *)
LEMMA PollNext == ASSUME PollInv, [Poll!Next]_(Poll!vars) PROVE PollInv'
<1>1. CASE UNCHANGED Poll!vars
  BY <1>1 DEF Poll!vars, PollInv, PollTyped, Alone, AsAsked, NotAsked, Absent
<1>2. CASE Poll!Free
  BY <1>2, PollEmpty DEF Poll!Free
<1> QED BY <1>1, <1>2, PollAdd, PollDel, PollDelEvent, PollExec DEF Poll!Next

(* The invariant says that the poll is right.                              *)
LEMMA PollInvRight == ASSUME PollInv PROVE Poll!PollRight
<1>1. DOMAIN fds = 1 .. Len(fds)
  BY DEF PollInv, PollTyped
<1>2. ASSUME NEW fd \in Fds, Absent(fd)
      PROVE  Poll!Index(fd) = {} /\ asked[fd] = {} /\ told[fd] = {}
  BY <1>1, <1>2 DEF Poll!Index, Absent, NotAsked, PollInv
<1>3. ASSUME NEW i \in 1 .. Len(fds)
      PROVE  /\ Poll!Index(fds[i].fd) = {i} /\ fds[i].events = asked[fds[i].fd]
             /\ asked[fds[i].fd] # {}
             /\ fds[i].fd \notin behind => fds[i].revents = told[fds[i].fd]
  BY <1>1 DEF Poll!Index, Alone, AsAsked, PollInv
<1>4. \A S : Poll!Cardinality(S) = Cardinality(S)
  BY DEF Poll!Cardinality, Cardinality
<1>5. ASSUME NEW fd \in Fds
      PROVE  /\ Poll!Cardinality(Poll!Index(fd)) = IF asked[fd] = {} THEN 0
                ELSE 1
             /\ \A i \in Poll!Index(fd) : fds[i].events = asked[fd]
             /\ fd \notin behind => Poll!Result(fd) = told[fd]
  <2>1. CASE Absent(fd)
    <3>1. Poll!Result(fd) = {}
      BY <1>2, <2>1 DEF Poll!Result
    <3> QED BY <1>2, <1>4, <2>1, <3>1, FS_EmptySet
  <2>2. CASE ~ Absent(fd)
    <3>1. PICK i \in 1 .. Len(fds) : fds[i].fd = fd
      BY <2>2 DEF Absent
    <3>2. Poll!Index(fd) = {i} /\ fds[i].events = asked[fd] /\ asked[fd] # {}
          /\ (fd \notin behind => fds[i].revents = told[fd])
      BY <1>3, <3>1
    <3>3. Poll!Result(fd) = fds[i].revents
      BY <3>2 DEF Poll!Result
    <3> QED BY <1>4, <3>2, <3>3, FS_Singleton
  <2> QED BY <2>1, <2>2
<1> QED BY <1>5 DEF Poll!PollRight

(* The set of nxs-poll holds each descriptor once, with the events asked   *)
(* for; a result is that of its descriptor, but for those that a removal   *)
(* has moved since the last poll(2).                                       *)
THEOREM PollRightAlways == Poll!Spec => []Poll!PollRight
<1>1. Poll!Init => PollInv
  BY PollEmptyInit
<1>2. PollInv /\ [Poll!Next]_(Poll!vars) => PollInv'
  BY PollNext
<1>3. PollInv => Poll!PollRight
  BY PollInvRight
<1> QED BY <1>1, <1>2, <1>3, PTL DEF Poll!Spec

-----------------------------------------------------------------------------
(***************************************************************************)
(* nxs-log                                                                 *)
(***************************************************************************)
CONSTANTS Paths, MaxFiles, MaxLines
VARIABLES path, mode, level, fp, tmp, pc, line, dir, content, lines, failed,
          inside, old, astray
Log == INSTANCE Log

(* The lines of files: n is in one of them; no line is twice; they are in  *)
(* order but for those of handlers.                                        *)
Contents(c) == \A i \in DOMAIN c : c[i] \in Seq(Nat)
In(c, n) == \E i \in DOMAIN c : \E k \in 1 .. Len(c[i]) : c[i][k] = n
Apart(c) ==
  \A i, j \in DOMAIN c : \A k \in 1 .. Len(c[i]), m \in 1 .. Len(c[j]) :
    c[i][k] = c[j][m] => i = j /\ k = m
Ordered(c, hs) ==
  \A i \in DOMAIN c : \A k, m \in 1 .. Len(c[i]) : k < m
    /\ c[i][k] \notin hs => c[i][k] < c[i][m]

(* n comes after what is there, but for the lines of handlers. *)
After(c, hs, n) == \A m \in Nat : In(c, m) /\ m \notin hs => m < n

(* Line n at the end of the file i                                         *)
Written(c, i, n) == [c EXCEPT ![i] = Append(@, n)]

(* Files are numbered in the order they were made; 0 is the console.       *)
FileSets(c) == \E k \in Nat : DOMAIN c = 0 .. k

LogTyped ==
  /\ path \in Paths \cup {""} /\ mode \in {"KEEP_OPEN", "REOPEN"}
  /\ pc \in {"none", "open", "format", "print", "flush"}
  /\ lines \in Nat /\ lines <= MaxLines
  /\ Contents(content) /\ FileSets(content)
  /\ dir \in [Paths -> DOMAIN content] /\ fp \in DOMAIN content
  /\ old \subseteq DOMAIN content \ {0}

(* Lines are numbered by the calls; the line of the call under way is the  *)
(* last that no handler wrote; a line is somewhere unless it failed or is  *)
(* under way.                                                              *)
UnderWay(n) == n = line /\ pc # "none"
LogLines ==
  /\ \A n : In(content, n) => n \in 1 .. lines
  /\ failed \subseteq 1 .. lines
  /\ \A n \in 1 .. lines : In(content, n) <=> ~ (n \in failed \/ UnderWay(n))
  /\ pc # "none" =>
       line \in (1 .. lines) \ failed
         /\ \A n \in line + 1 .. lines : n \in inside

(* Until it is misused, a call prints its own line to a file that is open. *)
LogCall ==
  /\ pc \in {"open", "flush"} => path # ""
  /\ ~ astray /\ pc = "print" => tmp = line
  /\ ~ astray /\ pc \in {"format", "print", "flush"} /\ path # "" => fp # 0

(* Neither the file that is open nor the one that would be opened had been *)
(* renamed away when the log was last closed.                              *)
LogFiles == fp \notin old /\ (path # "" => dir[path] \notin old)

(* All of it. LinesRight says where a line may be; that no line is written *)
(* twice needs also that the line of the call under way is in no file yet, *)
(* is the last that no handler wrote, and is what the call prints.         *)
LogInv ==
  /\ LogTyped /\ Apart(content) /\ Ordered(content, inside)
  /\ LogLines /\ LogCall /\ LogFiles

(* A line that is in no file and comes after all that handlers did not     *)
(* write keeps the lines apart and in order, wherever it is written.       *)
LEMMA LineAdded ==
  ASSUME NEW c, NEW hs, Contents(c), NEW i \in DOMAIN c, NEW n \in Nat,
         ~ In(c, n),
         Apart(c), Ordered(c, hs), After(c, hs, n),
         NEW d, d = Written(c, i, n)
  PROVE  /\ DOMAIN d = DOMAIN c /\ Contents(d) /\ Apart(d) /\ Ordered(d, hs)
         /\ \A m : In(d, m) <=> In(c, m) \/ m = n
<1> DEFINE l == Len(c[i])
<1>1. c[i] \in Seq(Nat) /\ l \in Nat
  BY DEF Contents
<1>2. DOMAIN d = DOMAIN c /\ d[i] = Append(c[i], n)
        /\ \A j \in DOMAIN c : j # i => d[j] = c[j]
  BY DEF Written
<1>3. d[i] \in Seq(Nat) /\ Len(d[i]) = l + 1 /\ d[i][l + 1] = n
        /\ \A k \in 1 .. l : d[i][k] = c[i][k]
  BY <1>1, <1>2
<1>4. Contents(d)
  BY <1>2, <1>3 DEF Contents
<1>5. \A j \in DOMAIN c : \A k \in 1 .. Len(d[j]) :
        \/ k \in 1 .. Len(c[j]) /\ d[j][k] = c[j][k]
        \/ j = i /\ k = l + 1 /\ d[j][k] = n
  <2>1. ASSUME NEW k \in 1 .. Len(d[i])
        PROVE  (k \in 1 .. l /\ d[i][k] = c[i][k])
               \/ (k = l + 1 /\ d[i][k] = n)
    BY <1>1, <1>3
  <2> QED BY <1>2, <2>1
<1>6. \A j \in DOMAIN c : \A k \in 1 .. Len(c[j]) : k \in 1 .. Len(d[j])
        /\ d[j][k] = c[j][k]
  BY <1>1, <1>2, <1>3
<1>7. l + 1 \in 1 .. Len(d[i])
  BY <1>1, <1>3
<1>8. \A j \in DOMAIN c : \A k \in 1 .. Len(c[j]) : c[j][k] # n
        /\ c[j][k] \in Nat
  BY DEF In, Contents
<1>9. Apart(d)
  BY <1>2, <1>5, <1>8 DEF Apart
<1>10. Ordered(d, hs)
  <2>1. SUFFICES ASSUME NEW j \in DOMAIN c, NEW k \in 1 .. Len(d[j]),
                        NEW m \in 1 .. Len(d[j]),
                        k < m, d[j][k] \notin hs
                 PROVE  d[j][k] < d[j][m]
    BY <1>2 DEF Ordered
  <2>2. CASE k \in 1 .. Len(c[j]) /\ m \in 1 .. Len(c[j])
    BY <1>6, <2>1, <2>2 DEF Ordered
  <2>3. CASE k \in 1 .. Len(c[j]) /\ j = i /\ m = l + 1 /\ d[j][m] = n
    <3>1. In(c, c[j][k]) /\ c[j][k] \in Nat /\ d[j][k] = c[j][k]
      BY <1>6, <1>8, <2>3 DEF In
    <3> QED BY <2>1, <2>3, <3>1 DEF After
  <2>4. CASE ~ (k \in 1 .. Len(c[j]))
    <3>1. j = i /\ k = l + 1 /\ m <= l + 1 /\ m \in Nat
      BY <1>1, <1>3, <1>5, <2>4
    <3> QED BY <1>1, <2>1, <3>1
  <2> QED BY <1>5, <2>2, <2>3, <2>4
<1>11. \A m : In(d, m) <=> In(c, m) \/ m = n
  <2>1. ASSUME NEW m, In(d, m) PROVE In(c, m) \/ m = n
    BY <1>2, <1>5, <2>1 DEF In
  <2>2. ASSUME NEW m, In(c, m) PROVE In(d, m)
    BY <1>2, <1>6, <2>2 DEF In
  <2>3. In(d, n)
    BY <1>2, <1>3, <1>7 DEF In
  <2> QED BY <2>1, <2>2, <2>3
<1> QED BY <1>2, <1>4, <1>9, <1>10, <1>11

(* The initial state satisfies the invariant.                              *)
LEMMA LogInit == ASSUME MaxLines \in Nat, Log!Init PROVE LogInv
<1>1. DOMAIN content = {0} /\ content[0] = << >> /\ {0} = 0 .. 0
  <2>1. content = [i \in {0} |-> << >>]
    BY DEF Log!Init, Log!Console
  <2> QED BY <2>1
<1>2. \A i \in DOMAIN content : content[i] \in Seq(Nat) /\ Len(content[i]) = 0
  <2>1. << >> \in Seq(Nat) /\ Len(<< >>) = 0
    OBVIOUS
  <2> QED BY <1>1, <2>1
<1>3. LogTyped
  <2>1. FileSets(content)
    BY <1>1 DEF FileSets
  <2>2. dir \in [Paths -> DOMAIN content] /\ fp \in DOMAIN content
    BY <1>1 DEF Log!Init
  <2>3. Contents(content)
    BY <1>2 DEF Contents
  <2>4. lines \in Nat /\ lines <= MaxLines /\ old = {}
    <3>1. lines = 0 /\ old = {}
      BY DEF Log!Init
    <3> QED BY <3>1
  <2> QED BY <2>1, <2>2, <2>3, <2>4 DEF Log!Init, LogTyped
<1>4. Apart(content) /\ Ordered(content, inside) /\ \A n : ~ In(content, n)
  BY <1>2 DEF Apart, Ordered, In
<1>5. LogLines /\ LogCall /\ LogFiles
  <2>1. lines = 0 /\ pc = "none" /\ failed = {} /\ fp = 0 /\ old = {}
    BY DEF Log!Init
  <2>2. \A n : n \notin 1 .. lines
    BY <2>1
  <2> QED BY <1>4, <2>1, <2>2 DEF LogLines, LogCall, LogFiles, UnderWay
<1> QED BY <1>3, <1>4, <1>5 DEF LogInv

(* The console is file 0, the others are the files on disk.                *)
LEMMA Console0 == Log!Console = 0 /\ Log!Exists = DOMAIN content \ {0}
BY DEF Log!Console, Log!Exists

(* As files are numbered from 0 on, their number is the last one.          *)
LEMMA FilesNumbered ==
  ASSUME LogTyped
  PROVE  /\ 0 \in DOMAIN content /\ DOMAIN content \subseteq Nat
         /\ Log!Cardinality(Log!Exists) \in Nat
         /\ DOMAIN content = 0 .. Log!Cardinality(Log!Exists)
<1>1. PICK k \in Nat : DOMAIN content = 0 .. k
  BY DEF LogTyped, FileSets
<1>2. Log!Exists = 1 .. k
  BY <1>1, Console0
<1>3. Cardinality(1 .. k) = k
  <2>1. 1 \in Int /\ k \in Int
    OBVIOUS
  <2>2. Cardinality(1 .. k) = IF 1 > k THEN 0 ELSE k - 1 + 1
    BY <2>1, FS_Interval
  <2> QED BY <2>2
<1>4. Log!Cardinality(Log!Exists) = k
  BY <1>2, <1>3 DEF Log!Cardinality, Cardinality
<1> QED BY <1>1, <1>4

(* The files that the name of the log does not lead to                     *)
LEMMA NotNamedFacts ==
  ASSUME LogTyped
  PROVE  /\ Log!NotNamed \subseteq DOMAIN content \ {0}
         /\ path \in Paths => dir[path] \notin Log!NotNamed
BY Console0 DEF Log!NotNamed

(* The operations between which nothing of the lines changes *)
LEMMA LinesKept ==
  ASSUME LogInv, UNCHANGED <<content, lines, inside, failed, line>>,
         pc' = "none" <=> pc = "none"
  PROVE  Apart(content') /\ Ordered(content', inside') /\ LogLines'
BY DEF LogInv, LogLines, UnderWay

(* A call begins: its line is numbered.                                    *)
LEMMA LogWrite ==
  ASSUME MaxLines \in Nat, LogInv, NEW l, Log!Write(l)
  PROVE  LogInv'
<1>1. /\ pc = "none" /\ lines < MaxLines /\ lines' = lines + 1
         /\ line' = lines + 1
      /\ pc' = IF path = "" THEN "format" ELSE "open"
      /\ UNCHANGED <<path, mode, level, fp, tmp, dir, content, failed, inside,
         old, astray>>
  BY DEF Log!Write, Log!set, Log!out
<1>2. lines \in Nat
  BY DEF LogInv, LogTyped
<1>3. lines' = lines + 1 /\ line' = lines' /\ lines' \in Nat
        /\ lines' <= MaxLines
  <2>1. lines < MaxLines /\ lines' = lines + 1 /\ line' = lines + 1
    BY <1>1
  <2> QED BY <1>2, <2>1
<1>4. LogTyped'
  BY <1>1, <1>3 DEF LogInv, LogTyped
<1>5. LogLines'
  <2>1. \A n \in 1 .. lines' : n \in 1 .. lines \/ n = lines'
    BY <1>2, <1>3
  <2>2. \A n \in 1 .. lines : n \in 1 .. lines' /\ n # line'
    BY <1>2, <1>3
  <2>3. lines' \notin 1 .. lines /\ line' \in 1 .. lines'
    BY <1>2, <1>3
  <2>4. lines' \notin failed /\ ~ In(content, lines')
    BY <2>3 DEF LogInv, LogLines
  <2>5. \A n \in line' + 1 .. lines' : n \in inside'
    BY <1>2, <1>3
  <2>6. pc' # "none"
    BY <1>1
  <2> QED BY <1>1, <2>1, <2>2, <2>3, <2>4, <2>5, <2>6 DEF LogInv, LogLines,
             UnderWay
<1>6. LogCall' /\ LogFiles'
  BY <1>1 DEF LogInv, LogCall, LogFiles
<1> QED BY <1>1, <1>4, <1>5, <1>6 DEF LogInv

(* nxs_log_open finds the file open, or by its name, or makes it; or it    *)
(* fails and the line is lost.                                             *)
LEMMA LogOpen == ASSUME LogInv, Log!Open PROVE LogInv'
<1>1. /\ pc = "open" /\ path # "" /\ path \in Paths /\ LogTyped
         /\ 0 \in DOMAIN content
      /\ UNCHANGED <<path, mode, level, tmp, line, lines, inside, old, astray>>
  BY FilesNumbered DEF LogInv, LogTyped, LogCall, Log!Open, Log!To, Log!set
<1>2. CASE /\ fp # 0 \/ dir[path] # 0
           /\ fp' = IF fp # 0 THEN fp ELSE dir[path]
           /\ pc' = "format" /\ UNCHANGED <<content, dir, failed>>
  <2>1. LogTyped'
    BY <1>1, <1>2 DEF LogTyped
  <2>2. Apart(content') /\ Ordered(content', inside') /\ LogLines'
    BY <1>1, <1>2, LinesKept
  <2>3. LogCall' /\ LogFiles'
    BY <1>1, <1>2 DEF LogInv, LogCall, LogFiles
  <2> QED BY <2>1, <2>2, <2>3 DEF LogInv
<1>3. CASE /\ fp' = Log!Cardinality(Log!Exists) + 1
           /\ dir' = [dir EXCEPT ![path] = fp']
           /\ content'
              = [i \in DOMAIN content \cup {fp'} |-> IF i = fp' THEN << >> ELSE
                content[i]]
           /\ pc' = "format" /\ UNCHANGED failed
  <2>1. /\ DOMAIN content' = DOMAIN content \cup {fp'}
           /\ fp' \notin DOMAIN content /\ fp' # 0
        /\ FileSets(content')
    <3>1. PICK k \in Nat : k = Log!Cardinality(Log!Exists)
            /\ DOMAIN content = 0 .. k
      BY <1>1, FilesNumbered
    <3>2. fp' = k + 1 /\ DOMAIN content' = 0 .. k + 1 /\ k + 1 \in Nat
      BY <1>3, <3>1
    <3> QED BY <1>3, <3>1, <3>2 DEF FileSets
  <2>2. content'[fp'] = << >>
          /\ \A i \in DOMAIN content : content'[i] = content[i]
    BY <1>3, <2>1
  <2>3. /\ \A n : In(content', n) <=> In(content, n)
        /\ Contents(content') /\ Apart(content') /\ Ordered(content', inside')
    <3>1. Contents(content) /\ Apart(content) /\ Ordered(content, inside)
            /\ inside' = inside
      BY <1>1 DEF LogInv, LogTyped
    <3>2. << >> \in Seq(Nat) /\ Len(<< >>) = 0
      OBVIOUS
    <3>3. \A i \in DOMAIN content' : \A k \in 1 .. Len(content'[i]) :
            i \in DOMAIN content /\ content'[i] = content[i]
      BY <2>1, <2>2, <3>2
    <3>4. \A n : In(content', n) <=> In(content, n)
      BY <2>1, <2>2, <3>3 DEF In
    <3>5. Contents(content')
      BY <2>1, <2>2, <3>1, <3>2 DEF Contents
    <3>6. Apart(content') /\ Ordered(content', inside)
      BY <3>1, <3>3 DEF Apart, Ordered
    <3> QED BY <3>1, <3>4, <3>5, <3>6
  <2>4. LogTyped'
    <3>1. dir' \in [Paths -> DOMAIN content']
      BY <1>1, <1>3, <2>1 DEF LogTyped
    <3> QED BY <1>1, <1>3, <2>1, <2>3, <3>1 DEF LogTyped
  <2>5. LogLines'
    BY <1>1, <1>3, <2>3 DEF LogInv, LogLines, UnderWay
  <2>6. LogCall' /\ LogFiles'
    <3>1. dir'[path'] = fp' /\ fp' \notin old'
      BY <1>1, <1>3, <2>1 DEF LogTyped
    <3>2. LogFiles'
      BY <3>1 DEF LogFiles
    <3> QED BY <1>1, <1>3, <2>1, <3>2 DEF LogCall
  <2> QED BY <2>3, <2>4, <2>5, <2>6 DEF LogInv
<1>4. CASE failed' = failed \cup {line} /\ pc' = "none"
        /\ UNCHANGED <<fp, content, dir>>
  <2>1. LogTyped'
    BY <1>1, <1>4 DEF LogTyped
  <2>2. LogLines'
    BY <1>1, <1>4 DEF LogInv, LogLines, UnderWay
  <2>3. LogCall' /\ LogFiles'
    BY <1>1, <1>4 DEF LogInv, LogCall, LogFiles
  <2> QED BY <1>1, <1>4, <2>1, <2>2, <2>3 DEF LogInv
<1> QED BY <1>2, <1>3, <1>4 DEF Log!Open, Log!To, Log!out

(* The line is formatted into what the calls share.                        *)
LEMMA LogFormat == ASSUME LogInv, Log!Format PROVE LogInv'
<1>1. /\ pc = "format" /\ pc' = "print" /\ tmp' = line
      /\ UNCHANGED <<path, mode, fp, line, lines, content, dir, failed, inside,
         old, astray>>
  BY DEF Log!Format, Log!To, Log!set, Log!out
<1>2. LogTyped' /\ LogCall' /\ LogFiles'
  BY <1>1 DEF LogInv, LogTyped, LogCall, LogFiles
<1> QED BY <1>1, <1>2, LinesKept DEF LogInv

(* The line of the call under way comes to the file i. *)
LEMMA LineWritten ==
  ASSUME LogInv, pc # "none", NEW i \in DOMAIN content,
         content' = [content EXCEPT ![i] = Append(@, line)],
         UNCHANGED <<line, lines, failed, inside>>, pc' = "none"
  PROVE  /\ DOMAIN content' = DOMAIN content /\ Contents(content')
         /\ Apart(content') /\ Ordered(content', inside') /\ LogLines'
<1>1. /\ lines \in Nat /\ line \in (1 .. lines) \ failed
         /\ \A n \in line + 1 .. lines : n \in inside
      /\ \A n : In(content, n) => n \in 1 .. lines
      /\ \A n \in 1 .. lines : In(content, n)
         <=> ~ (n \in failed \/ UnderWay(n))
      /\ Contents(content) /\ Apart(content) /\ Ordered(content, inside)
  BY DEF LogInv, LogTyped, LogLines
<1>2. ~ In(content, line) /\ line \in Nat
  BY <1>1 DEF UnderWay
<1>3. \A m \in Nat : In(content, m) /\ m \notin inside => m < line
  <2>1. SUFFICES ASSUME NEW m \in Nat, In(content, m), m \notin inside
        PROVE  m < line
    OBVIOUS
  <2>2. m # line /\ m \in 1 .. lines
    BY <1>1, <1>2, <2>1
  <2>3. m \notin line + 1 .. lines
    BY <1>1, <2>1
  <2> QED BY <1>1, <2>2, <2>3
<1>4. /\ DOMAIN content' = DOMAIN content /\ Contents(content')
      /\ Apart(content') /\ Ordered(content', inside)
      /\ \A m : In(content', m) <=> In(content, m) \/ m = line
  <2> DEFINE c == content
             d == content'
  <2>1. Contents(c) /\ Apart(c) /\ Ordered(c, inside) /\ ~ In(c, line)
          /\ i \in DOMAIN c
        /\ d = Written(c, i, line)
    BY <1>1, <1>2 DEF Written
  <2>2. After(c, inside, line)
    BY <1>3 DEF After
  <2> HIDE DEF c, d
  <2>3. /\ DOMAIN d = DOMAIN c /\ Contents(d) /\ Apart(d) /\ Ordered(d, inside)
        /\ \A m : In(d, m) <=> In(c, m) \/ m = line
    BY <1>2, <2>1, <2>2, LineAdded
  <2> QED BY <2>3 DEF c, d
<1>5. line \notin failed
  BY <1>1 DEF LogInv, LogLines, UnderWay
<1>6. LogLines'
  BY <1>1, <1>4, <1>5 DEF LogInv, LogLines, UnderWay
<1> QED BY <1>4, <1>6

(* It goes to the memory of stdio or, without a path, to the console.      *)
LEMMA LogFilePrint == ASSUME LogInv, ~ astray, Log!FilePrint PROVE LogInv'
<1>1. /\ pc = "print" /\ tmp = line /\ LogTyped /\ 0 \in DOMAIN content
      /\ UNCHANGED <<path, mode, fp, tmp, line, lines, dir, failed, inside,
         old, astray>>
  BY FilesNumbered DEF LogInv, LogCall, Log!FilePrint, Log!To, Log!set
<1>2. CASE path = ""
  <2>1. content' = [content EXCEPT ![0] = Append(@, line)] /\ pc' = "none"
    BY <1>1, <1>2, Console0 DEF Log!FilePrint, Log!To
  <2>2. /\ DOMAIN content' = DOMAIN content /\ Contents(content')
        /\ Apart(content') /\ Ordered(content', inside') /\ LogLines'
    BY <1>1, <2>1, LineWritten
  <2>3. LogTyped'
    BY <1>1, <2>1, <2>2 DEF LogTyped, FileSets
  <2> QED BY <1>1, <1>2, <2>1, <2>2, <2>3 DEF LogInv, LogCall, LogFiles
<1>3. CASE path # ""
  <2>1. content' = content /\ pc' = "flush"
    BY <1>3 DEF Log!FilePrint, Log!To
  <2>2. LogTyped' /\ LogCall' /\ LogFiles'
    BY <1>1, <1>3, <2>1 DEF LogInv, LogTyped, LogCall, LogFiles
  <2> QED BY <1>1, <2>1, <2>2, LinesKept DEF LogInv
<1> QED BY <1>2, <1>3

(* The line comes to the file or is lost; the file is closed unless it is  *)
(* kept open and was written.                                              *)
LEMMA LogFlush == ASSUME LogInv, ~ astray, Log!Flush PROVE LogInv'
<1>1. /\ pc = "flush" /\ pc' = "none" /\ path # "" /\ fp # 0 /\ LogTyped
      /\ UNCHANGED <<path, mode, line, lines, dir, inside, astray>>
  BY DEF LogInv, LogCall, Log!Flush, Log!set
<1>2. /\ path \in Paths /\ fp \in DOMAIN content
         /\ dir[path] \in DOMAIN content
      /\ old \subseteq DOMAIN content \ {0} /\ 0 \in DOMAIN content
  BY <1>1, FilesNumbered DEF LogTyped
<1>3. /\ fp' \in {0, fp} /\ old' = IF fp' = 0 THEN Log!NotNamed ELSE old
  BY DEF Log!Flush
<1>4. /\ old' \subseteq DOMAIN content \ {0} /\ fp' \in DOMAIN content
         /\ fp' \notin old'
      /\ dir[path] \notin old'
  <2>1. CASE fp' = 0
    BY <1>1, <1>2, <1>3, <2>1, NotNamedFacts
  <2>2. CASE fp' # 0
    BY <1>1, <1>2, <1>3, <2>2 DEF LogInv, LogFiles
  <2> QED BY <2>1, <2>2
<1>5. CASE content' = [content EXCEPT ![fp] = Append(@, line)]
        /\ failed' = failed
  <2>1. /\ DOMAIN content' = DOMAIN content /\ Contents(content')
        /\ Apart(content') /\ Ordered(content', inside') /\ LogLines'
    BY <1>1, <1>2, <1>5, LineWritten
  <2>2. LogTyped'
    BY <1>1, <1>2, <1>4, <2>1 DEF LogTyped, FileSets
  <2>3. LogCall' /\ LogFiles'
    BY <1>1, <1>4 DEF LogCall, LogFiles
  <2> QED BY <2>1, <2>2, <2>3 DEF LogInv
<1>6. CASE failed' = failed \cup {line} /\ content' = content
  <2>1. LogLines'
    BY <1>1, <1>6 DEF LogInv, LogLines, UnderWay
  <2>2. LogTyped'
    BY <1>1, <1>2, <1>4, <1>6 DEF LogTyped
  <2>3. LogCall' /\ LogFiles'
    BY <1>1, <1>4 DEF LogCall, LogFiles
  <2> QED BY <1>1, <1>6, <2>1, <2>2, <2>3 DEF LogInv
<1> QED BY <1>5, <1>6 DEF Log!Flush

(* nxs_log_reopen                                                          *)
LEMMA LogReopen == ASSUME LogInv, ~ astray, Log!Reopen PROVE LogInv'
<1>1. /\ astray'
         = (fp = 0 \/ (path # "" /\ pc \in {"format", "print", "flush"}))
      /\ fp' = 0 /\ old' = Log!NotNamed /\ LogTyped /\ 0 \in DOMAIN content
      /\ UNCHANGED <<path, mode, tmp, pc, line, dir, content, lines, failed,
         inside>>
  BY FilesNumbered DEF LogInv, Log!Reopen, Log!set, Log!out
<1>2. LogTyped'
  BY <1>1, NotNamedFacts DEF LogTyped
<1>3. LogFiles'
  BY <1>1, NotNamedFacts DEF LogTyped, LogFiles
<1>4. ASSUME ~ astray'
      PROVE  ~ astray /\ (path # "" => pc \notin {"format", "print", "flush"})
  BY <1>1, <1>4
<1>5. LogCall'
  BY <1>1, <1>4 DEF LogInv, LogCall
<1> QED BY <1>1, <1>2, <1>3, <1>5, LinesKept DEF LogInv

(* A whole call in a signal handler, between two steps of another: its     *)
(* line goes past the one that is under way.                               *)
LEMMA LogWriteInHandler ==
  ASSUME MaxLines \in Nat, LogInv, ~ astray, Log!WriteInHandler
  PROVE  LogInv'
<1> DEFINE i == IF path = "" THEN 0 ELSE fp
           n == lines'
           ins == inside'
<1>1. /\ pc \in {"format", "print", "flush"} /\ lines < MaxLines
      /\ n = lines + 1 /\ ins = inside \cup {n}
      /\ astray' = (pc = "print" \/ (path # "" /\ mode = "REOPEN"))
      /\ pc' = IF pc = "flush" THEN "none" ELSE pc
      /\ UNCHANGED <<path, mode, fp, line, dir, failed, old>>
  BY DEF Log!WriteInHandler, Log!set
<1>2. content'
        = [content EXCEPT ![i] = @ \o (IF pc = "flush" THEN <<line>> ELSE <<
          >>) \o <<n>>]
  BY DEF Log!WriteInHandler, Log!Console
<1>3. /\ lines \in Nat /\ Contents(content) /\ Apart(content)
         /\ Ordered(content, inside)
      /\ i \in DOMAIN content /\ content[i] \in Seq(Nat)
  BY FilesNumbered DEF LogInv, LogTyped, Contents
<1>4. n \in Nat /\ n <= MaxLines /\ n \notin 1 .. lines /\ n \in 1 .. n
      /\ (\A m \in 1 .. lines : m \in 1 .. n /\ m < n)
         /\ (\A m \in 1 .. n : m \in 1 .. lines \/ m = n)
  <2>1. n = lines + 1 /\ lines < MaxLines /\ lines \in Nat
    BY <1>1, <1>3
  <2> HIDE DEF n
  <2>2. n \in Nat /\ n <= MaxLines
    BY <2>1
  <2> QED BY <2>1, <2>2
<1>5. pc # "none"
  BY <1>1
<1>6. /\ line \in (1 .. lines) \ failed
         /\ \A m \in line + 1 .. lines : m \in inside
      /\ \A m : In(content, m) => m \in 1 .. lines
      /\ \A m \in 1 .. lines : In(content, m) <=> ~ (m \in failed \/ m = line)
      /\ failed \subseteq 1 .. lines
  BY <1>5 DEF LogInv, LogLines, UnderWay
<1>7. Ordered(content, ins)
  BY <1>1, <1>3 DEF Ordered
<1> HIDE DEF i, n, ins
<1>8. CASE pc # "flush"
  <2>1. content' = Written(content, i, n)
    <3>1. content[i] \o << >> \o <<n>> = Append(content[i], n)
      BY <1>3, <1>4
    <3> QED BY <1>2, <1>8, <3>1 DEF Written
  <2>2. After(content, ins, n) /\ ~ In(content, n)
    BY <1>4, <1>6 DEF After
  <2>3. /\ DOMAIN content' = DOMAIN content /\ Contents(content')
        /\ Apart(content') /\ Ordered(content', ins)
        /\ \A m : In(content', m) <=> In(content, m) \/ m = n
    <3> DEFINE d == content'
    <3>1. d = Written(content, i, n)
      BY <2>1
    <3> HIDE DEF d
    <3>2. /\ DOMAIN d = DOMAIN content /\ Contents(d) /\ Apart(d)
             /\ Ordered(d, ins)
          /\ \A m : In(d, m) <=> In(content, m) \/ m = n
      BY <1>3, <1>4, <1>7, <2>2, <3>1, LineAdded
    <3> QED BY <3>2 DEF d
  <2>4. pc' = pc
    BY <1>1, <1>8
  <2>5. LogLines'
    <3>1. \A m \in line + 1 .. n : m \in ins
      <4>1. \A m \in line + 1 .. n : m = n \/ m \in line + 1 .. lines
        BY <1>3, <1>4, <1>6
      <4> QED BY <1>1, <1>6, <4>1 DEF n, ins
    <3>2. \A m : In(content', m) => m \in 1 .. n
      BY <1>4, <1>6, <2>3
    <3>3. failed \subseteq 1 .. n /\ line \in (1 .. n) \ failed
      BY <1>4, <1>6
    <3>4. \A m \in 1 .. n : In(content', m) <=> ~ (m \in failed \/ m = line)
      <4>1. n # line /\ n \notin failed
        BY <1>4, <1>6
      <4> QED BY <1>4, <1>6, <2>3, <4>1
    <3> QED BY <1>1, <1>5, <2>4, <3>1, <3>2, <3>3, <3>4 DEF LogLines, UnderWay,
               n, ins
  <2>6. LogTyped'
    BY <1>1, <1>4, <2>3 DEF LogInv, LogTyped, FileSets, n
  <2>7. LogCall' /\ LogFiles'
    BY <1>1, <2>4 DEF LogInv, LogCall, LogFiles
  <2> QED BY <2>3, <2>5, <2>6, <2>7 DEF LogInv, ins
<1>9. CASE pc = "flush"
  <2> DEFINE c == Written(content, i, line)
             d == content'
  <2>1. line \in Nat /\ line < n
    BY <1>4, <1>6
  <2>2. d = Written(c, i, n)
    <3>1. content[i] \o <<line>> \o <<n>> = Append(Append(content[i], line), n)
      BY <1>3, <1>4, <2>1
    <3>2. c[i] = Append(content[i], line) /\ DOMAIN c = DOMAIN content
      BY <1>3 DEF Written
    <3>3. d = [content EXCEPT ![i] = Append(Append(content[i], line), n)]
      BY <1>2, <1>9, <3>1
    <3> QED BY <1>3, <3>2, <3>3 DEF Written
  <2>3. After(content, ins, line) /\ ~ In(content, line)
    <3>1. ASSUME NEW m \in Nat, In(content, m), m \notin ins PROVE m < line
      <4>1. m \in 1 .. lines /\ m # line /\ m \notin inside
        BY <1>1, <1>6, <3>1 DEF n, ins
      <4>2. m \notin line + 1 .. lines
        BY <1>6, <4>1
      <4> QED BY <1>3, <1>6, <4>1, <4>2
    <3> QED BY <1>6, <3>1 DEF After
  <2> HIDE DEF c, d
  <2>4. /\ DOMAIN c = DOMAIN content /\ Contents(c) /\ Apart(c)
           /\ Ordered(c, ins)
        /\ \A m : In(c, m) <=> In(content, m) \/ m = line
    BY <1>3, <1>7, <2>1, <2>3, LineAdded DEF c
  <2>5. After(c, ins, n) /\ ~ In(c, n)
    BY <1>4, <1>6, <2>1, <2>4 DEF After
  <2>6. /\ DOMAIN d = DOMAIN content /\ Contents(d) /\ Apart(d)
           /\ Ordered(d, ins)
        /\ \A m : In(d, m) <=> In(content, m) \/ m = line \/ m = n
    <3>1. /\ DOMAIN d = DOMAIN c /\ Contents(d) /\ Apart(d) /\ Ordered(d, ins)
          /\ \A m : In(d, m) <=> In(c, m) \/ m = n
      BY <1>3, <1>4, <2>2, <2>4, <2>5, LineAdded
    <3> QED BY <2>4, <3>1
  <2>7. pc' = "none"
    BY <1>1, <1>9
  <2>8. LogLines'
    <3>1. \A m : In(d, m) => m \in 1 .. n
      BY <1>4, <1>6, <2>6
    <3>2. failed \subseteq 1 .. n
      BY <1>4, <1>6
    <3>3. \A m \in 1 .. n : In(d, m) <=> m \notin failed
      <4>1. n \notin failed
        BY <1>4, <1>6
      <4> QED BY <1>4, <1>6, <2>6, <4>1
    <3> QED BY <1>1, <2>7, <3>1, <3>2, <3>3 DEF LogLines, UnderWay, n, d
  <2>9. LogTyped'
    BY <1>1, <1>4, <2>6, <2>7 DEF LogInv, LogTyped, FileSets, n, d
  <2>10. LogCall' /\ LogFiles'
    BY <1>1, <2>7 DEF LogInv, LogCall, LogFiles
  <2> QED BY <2>6, <2>8, <2>9, <2>10 DEF LogInv, ins, d
<1> QED BY <1>8, <1>9

(* What happens between two calls, or to the names *)
LEMMA LogAside ==
  ASSUME LogInv,
         \/ \E ls : Log!SetLevel(ls)
         \/ \E p \in Paths \cup {""} : Log!SetPath(p)
            \/ \E m \in {"KEEP_OPEN", "REOPEN"} : Log!Again(p, m)
         \/ \E p \in Paths : Log!Rotate(p)
  PROVE  LogInv'
<1>1. LogTyped /\ 0 \in DOMAIN content /\ LogCall /\ LogFiles
  BY FilesNumbered DEF LogInv
<1>2. UNCHANGED <<content, lines, inside, failed, line, pc>>
  BY DEF Log!SetLevel, Log!SetPath, Log!Again, Log!Rotate, Log!set, Log!out
<1>3. ASSUME NEW ls, Log!SetLevel(ls) PROVE LogTyped' /\ LogCall' /\ LogFiles'
  BY <1>1, <1>3 DEF Log!SetLevel, Log!out, LogTyped, LogCall, LogFiles
<1>4. ASSUME NEW p \in Paths \cup {""}, Log!SetPath(p)
      PROVE  LogTyped' /\ LogCall' /\ LogFiles'
  BY <1>1, <1>4 DEF Log!SetPath, Log!out, LogTyped, LogCall, LogFiles
<1>5. ASSUME NEW p \in Paths \cup {""}, NEW m \in {"KEEP_OPEN", "REOPEN"},
             Log!Again(p, m)
      PROVE  LogTyped' /\ LogCall' /\ LogFiles'
  BY <1>1, <1>5 DEF Log!Again, Log!out, LogTyped, LogCall, LogFiles
<1>6. ASSUME NEW p \in Paths, Log!Rotate(p)
      PROVE  LogTyped' /\ LogCall' /\ LogFiles'
  <2>1. /\ dir' = [dir EXCEPT ![p] = 0]
        /\ path' = path /\ mode' = mode /\ fp' = fp /\ tmp' = tmp /\ pc' = pc
           /\ line' = line
        /\ content' = content /\ lines' = lines /\ old' = old
           /\ astray' = astray
    BY <1>6 DEF Log!Rotate, Log!set
  <2>2. dir' \in [Paths -> DOMAIN content]
          /\ \A q \in Paths : dir'[q] \in {0, dir[q]}
    BY <1>1, <2>1 DEF LogTyped
  <2>3. LogFiles'
    <3>1. path # "" => path \in Paths
      BY <1>1 DEF LogTyped
    <3>2. 0 \notin old /\ (path # "" => dir'[path] \notin old)
      BY <1>1, <2>2, <3>1 DEF LogTyped, LogFiles
    <3>3. fp' \notin old'
      BY <1>1, <2>1 DEF LogFiles
    <3>4. path' # "" => dir'[path'] \notin old'
      <4>1. path' = path /\ old' = old
        BY <2>1
      <4> QED BY <3>2, <4>1
    <3> QED BY <3>3, <3>4 DEF LogFiles
  <2> QED BY <1>1, <2>1, <2>2, <2>3 DEF LogTyped, LogCall
<1> QED BY <1>2, <1>3, <1>4, <1>5, <1>6, LinesKept DEF LogInv

(* Every step keeps the invariant.                                         *)
LEMMA LogNext == ASSUME MaxLines \in Nat, LogInv, [Log!Next]_(Log!vars)
PROVE  LogInv'
<1>1. CASE UNCHANGED Log!vars
  BY <1>1, LinesKept DEF Log!vars, Log!set, Log!out, LogInv, LogTyped, LogCall,
     LogFiles
<1>2. CASE Log!Next
  BY <1>2, LogWrite, LogOpen, LogFormat, LogFilePrint, LogFlush, LogReopen,
     LogWriteInHandler, LogAside DEF Log!Next
<1> QED BY <1>1, <1>2

(* What the elements of a product are                                      *)
LEMMA Pairs ==
  ASSUME NEW A, NEW B, NEW p
  PROVE  p \in A \X B <=> p = <<p[1], p[2]>> /\ p[1] \in A /\ p[2] \in B
<1>1. ASSUME p \in A \X B
      PROVE  p = <<p[1], p[2]>> /\ p[1] \in A /\ p[2] \in B
  BY <1>1
<1>2. ASSUME p = <<p[1], p[2]>>, p[1] \in A, p[2] \in B
      PROVE  p \in A \X B
  <2>1. \A a \in A, b \in B : <<a, b>> \in A \X B
    OBVIOUS
  <2> QED BY <1>2, <2>1, Zenon
<1> QED BY <1>1, <1>2

(* The invariant says that every line is where it must be.                 *)
LEMMA LogInvRight == ASSUME MaxLines \in Nat, LogInv PROVE Log!LinesRight
<1>1. /\ lines \in Nat /\ lines <= MaxLines /\ Contents(content)
         /\ Apart(content)
      /\ Ordered(content, inside)
  BY DEF LogInv, LogTyped
<1>2. ASSUME NEW i \in DOMAIN content
      PROVE  /\ content[i] \in Seq(Nat)
                /\ DOMAIN content[i] = 1 .. Len(content[i])
             /\ Len(content[i]) \in Nat /\ Len(content[i]) <= lines
  <2> DEFINE s == content[i]
             l == Len(s)
  <2>1. s \in Seq(Nat) /\ DOMAIN s = 1 .. l /\ l \in Nat
    <3>1. s \in Seq(Nat)
      BY <1>1 DEF Contents
    <3> HIDE DEF s
    <3> QED BY <3>1
  <2>2. \A k \in 1 .. l : s[k] \in 1 .. lines
    BY DEF LogInv, LogLines, In
  <2>3. \A k, m \in 1 .. l : s[k] = s[m] => k = m
    BY <1>1 DEF Apart
  <2> HIDE DEF s
  <2>4. s \in Injection(1 .. l, 1 .. lines)
    BY <2>1, <2>2, <2>3 DEF Injection, IsInjective
  <2>5. IsFiniteSet(1 .. lines) /\ Cardinality(1 .. lines) = lines
        /\ Cardinality(1 .. l) = l
    <3>1. 1 \in Int /\ lines \in Int /\ l \in Int
      BY <1>1, <2>1
    <3>2. /\ IsFiniteSet(1 .. lines)
          /\ Cardinality(1 .. lines) = IF 1 > lines THEN 0 ELSE lines - 1 + 1
          /\ Cardinality(1 .. l) = IF 1 > l THEN 0 ELSE l - 1 + 1
      BY <3>1, FS_Interval
    <3> QED BY <1>1, <2>1, <3>2
  <2>6. l <= lines
    BY <2>4, <2>5, FS_Injection
  <2> QED BY <2>1, <2>6 DEF s
<1>3. ASSUME NEW i \in DOMAIN content PROVE Log!InOrder(content[i])
  BY <1>1, <1>2 DEF Log!InOrder, Ordered
<1>4. ASSUME NEW n, NEW p
      PROVE  p \in Log!Places(n) <=>
               /\ p = <<p[1], p[2]>> /\ p[1] \in DOMAIN content
                  /\ p[2] \in 1 .. MaxLines
               /\ p[2] \in 1 .. Len(content[p[1]]) /\ content[p[1]][p[2]] = n
  <2>1. p \in (DOMAIN content) \X (1 .. MaxLines) <=>
          p = <<p[1], p[2]>> /\ p[1] \in DOMAIN content
            /\ p[2] \in 1 .. MaxLines
    BY Pairs
  <2>2. p[1] \in DOMAIN content => DOMAIN content[p[1]]
          = 1 .. Len(content[p[1]])
    BY <1>2
  <2> QED BY <2>1, <2>2 DEF Log!Places
<1>5. ASSUME NEW n \in 1 .. lines
      PROVE  IF n \in failed
             \/ (n = line /\ pc # "none") THEN Log!Places(n) = {}
             ELSE Log!Cardinality(Log!Places(n)) = 1
  <2>1. In(content, n) <=> ~ (n \in failed \/ (n = line /\ pc # "none"))
    BY DEF LogInv, LogLines, UnderWay
  <2>2. CASE ~ In(content, n)
    <3>1. ASSUME NEW p, p \in Log!Places(n) PROVE FALSE
      BY <1>4, <2>2, <3>1 DEF In
    <3> QED BY <2>1, <2>2, <3>1
  <2>3. CASE In(content, n)
    <3>0. PICK i \in DOMAIN content : \E k \in 1 .. Len(content[i]) :
            content[i][k] = n
      BY <2>3 DEF In
    <3>1. PICK k \in 1 .. Len(content[i]) : content[i][k] = n
      BY <3>0
    <3>2. k \in 1 .. MaxLines
      BY <1>1, <1>2
    <3>3. <<i, k>> \in Log!Places(n)
      <4> DEFINE p == <<i, k>>
      <4>1. p[1] = i /\ p[2] = k /\ p = <<p[1], p[2]>>
        OBVIOUS
      <4> HIDE DEF p
      <4>2. p \in Log!Places(n)
        BY <1>4, <3>1, <3>2, <4>1
      <4> QED BY <4>2 DEF p
    <3>4. ASSUME NEW p \in Log!Places(n) PROVE p = <<i, k>>
      <4>1. /\ p = <<p[1], p[2]>> /\ p[1] \in DOMAIN content
            /\ p[2] \in 1 .. Len(content[p[1]]) /\ content[p[1]][p[2]] = n
        BY <1>4
      <4>2. p[1] = i /\ p[2] = k
        BY <1>1, <3>1, <4>1 DEF Apart
      <4> QED BY <4>1, <4>2
    <3>5. Log!Places(n) = {<<i, k>>}
      BY <3>3, <3>4
    <3>6. Cardinality({<<i, k>>}) = 1
      BY FS_Singleton
    <3>7. Log!Cardinality(Log!Places(n)) = 1
      BY <3>5, <3>6 DEF Log!Cardinality, Cardinality
    <3> QED BY <2>1, <2>3, <3>7
  <2> QED BY <2>2, <2>3
<1>6. ~ astray /\ pc = "flush" => fp # 0 /\ fp \notin old
  BY DEF LogInv, LogCall, LogFiles
<1> QED BY <1>3, <1>5, <1>6 DEF Log!LinesRight

(* A call of nxs-log whose level is written leaves its line in one place,  *)
(* in order, or nowhere if it could not be written; once the log was       *)
(* closed no line goes to a file that had been renamed away by then.       *)
THEOREM LinesRightAlways == ASSUME MaxLines \in Nat
PROVE  Log!Spec => []Log!LinesRight
<1>1. Log!Init => LogInv
  BY LogInit
<1>2. LogInv /\ [Log!Next]_(Log!vars) => LogInv'
  BY LogNext
<1>3. LogInv => Log!LinesRight
  BY LogInvRight
<1> QED BY <1>1, <1>2, <1>3, PTL DEF Log!Spec

-----------------------------------------------------------------------------
(***************************************************************************)
(* nxs-array                                                               *)
(***************************************************************************)
CONSTANTS MaxCount, Steps
VARIABLES el, elCount, step, hooks, added, stale, lost
Arr == INSTANCE Array

(* What memory can hold                                                    *)
State == {"zero", "used", "freed"}

(* What the memory holds at i, used or not *)
Holds(mem, i) ==
  mem[i] = IF i \in added \/ (i \in stale /\ ~hooks) THEN "used"
           ELSE IF i \in stale THEN "freed" ELSE "zero"
(* Memory in which this is so for every element there is                   *)
Kept(mem) == mem \in Seq(State) /\ \A i \in 1 .. Len(mem) : Holds(mem, i)

(* What a clear left behind is in the memory there is.                     *)
ArrInv ==
  /\ elCount \in Nat /\ step \in Steps \cup {0} /\ hooks \in BOOLEAN
     /\ stale \subseteq 1 .. Len(el)
  /\ Kept(el)
  /\ elCount <= Len(el) /\ added \subseteq 1 .. elCount /\ lost = FALSE

(* The maximum of two numbers, as Array takes it from FiniteSetsExt        *)
LEMMA MaxIs ==
  ASSUME NEW a \in Nat, NEW b \in Nat
  PROVE  Arr!Max({a, b}) = IF a < b THEN b ELSE a
<1> DEFINE m == IF a < b THEN b ELSE a
<1>1. m \in {a, b} /\ \A y \in {a, b} : m >= y
  OBVIOUS
<1>2. \A x \in {a, b} : (\A y \in {a, b} : x >= y) => x = m
  OBVIOUS
<1> HIDE DEF m
<1>3. (CHOOSE x \in {a, b} : \A y \in {a, b} : x >= y) = m
  BY <1>1, <1>2
<1> QED BY <1>3 DEF Arr!Max, m

(* More memory holds what was there before, and zeroes.                    *)
LEMMA GrownIs ==
  ASSUME ArrInv, NEW n \in Nat
  PROVE  /\ Kept(Arr!Grown(n))
            /\ Len(Arr!Grown(n)) = IF n < Len(el) THEN Len(el) ELSE n
<1> DEFINE l == Len(el)
           x == IF n < l THEN l ELSE n
           g == Arr!Grown(n)
<1>1. el \in Seq(State) /\ l \in Nat /\ DOMAIN el = 1 .. l
  BY DEF ArrInv, Kept
<1>2. Arr!Max({n, l}) = x /\ x \in Nat /\ l <= x
  BY <1>1, MaxIs
<1>3. g = [i \in 1 .. x |-> IF i \in 1 .. l THEN el[i] ELSE "zero"]
  BY <1>1, <1>2 DEF Arr!Grown
<1>4. \A i \in 1 .. x : g[i] \in State /\ (i \in 1 .. l => g[i] = el[i])
        /\ (i \notin 1 .. l => g[i] = "zero")
  BY <1>1, <1>3 DEF State
<1> HIDE DEF g, x
<1>5. g \in Seq(State) /\ Len(g) = x
  <2>1. g \in [1 .. x -> State]
    BY <1>3, <1>4
  <2> QED BY <1>2, <2>1
<1>6. ASSUME NEW i \in 1 .. x PROVE Holds(g, i)
  <2>1. CASE i \in 1 .. l
    <3>1. Holds(el, i)
      BY <2>1 DEF ArrInv, Kept
    <3> QED BY <1>4, <2>1, <3>1 DEF Holds
  <2>2. CASE i \notin 1 .. l
    <3>1. i \notin added /\ i \notin stale
      <4>1. stale \subseteq 1 .. l
              /\ added \subseteq 1 .. elCount /\ elCount <= l /\ elCount \in Nat
        BY DEF ArrInv
      <4>2. 1 .. elCount \subseteq 1 .. l
        BY <1>1, <4>1
      <4> QED BY <2>2, <4>1, <4>2
    <3> QED BY <1>4, <2>2, <3>1 DEF Holds
  <2> QED BY <2>1, <2>2
<1> QED BY <1>5, <1>6 DEF Kept, x, g

(* An element that is not in use comes into use, behind the others or      *)
(* between them.                                                           *)
LEMMA UseIs ==
  ASSUME ArrInv, NEW mem, Kept(mem), NEW i \in 1 .. Len(mem), i \notin added,
         Arr!Use(mem, i), elCount' \in Nat, elCount <= elCount', i <= elCount',
         elCount' <= Len(mem), Len(el) <= Len(mem), UNCHANGED <<step, hooks>>
  PROVE  ArrInv'
<1> DEFINE n == Len(mem)
<1>1. mem \in Seq(State) /\ n \in Nat /\ \A k \in 1 .. n : mem[k] \in State
        /\ Holds(mem, k)
  BY DEF Kept
<1>2. el' = [mem EXCEPT ![i] = "used"] /\ added' = added \cup {i}
      /\ stale' = stale \ {i}
      /\ lost' = (lost \/ (hooks /\ mem[i] = "used"))
  BY DEF Arr!Use
<1>3. "used" \in State
  BY DEF State
<1>4. el' \in Seq(State) /\ Len(el') = n /\ el'[i] = "used"
        /\ \A k \in 1 .. n : k # i => el'[k] = mem[k]
  BY <1>1, <1>2, <1>3
<1>5. ASSUME NEW k \in 1 .. n PROVE Holds(el, k)'
  BY <1>1, <1>2, <1>4 DEF Holds
<1>6. Kept(el)'
  BY <1>4, <1>5 DEF Kept
<1>7. lost' = FALSE
  <2>1. Holds(mem, i)
    BY <1>1
  <2> QED BY <1>2, <2>1 DEF Holds, ArrInv
<1>8. added' \subseteq 1 .. elCount'
  <2>1. elCount \in Nat /\ added \subseteq 1 .. elCount /\ i \in Nat /\ 1 <= i
    BY <1>1 DEF ArrInv
  <2>2. 1 .. elCount \subseteq 1 .. elCount' /\ i \in 1 .. elCount'
    BY <2>1
  <2> QED BY <1>2, <2>1, <2>2
<1>9. stale' \subseteq 1 .. Len(el')
  <2>1. PICK l \in Nat : l = Len(el)
    BY DEF ArrInv, Kept
  <2>2. stale \subseteq 1 .. l /\ l <= n
    BY <2>1 DEF ArrInv
  <2>3. 1 .. l \subseteq 1 .. n
    BY <1>1, <2>1, <2>2
  <2> QED BY <1>2, <1>4, <2>2, <2>3
<1> QED BY <1>4, <1>6, <1>7, <1>8, <1>9 DEF ArrInv

(* An array that was made, or freed, holds zeroes only.                    *)
LEMMA ArrEmpty ==
  ASSUME elCount' = 0, el' \in Seq(State),
         \A i \in 1 .. Len(el') : el'[i] = "zero",
         step' \in Steps \cup {0}, hooks' \in BOOLEAN, stale' = {},
         added' = {}, lost' = FALSE
  PROVE  ArrInv'
<1>1. Kept(el)'
  BY DEF Kept, Holds
<1>2. elCount' <= Len(el')
  <2>1. PICK n \in Nat : n = Len(el')
    OBVIOUS
  <2>2. 0 <= n
    BY <2>1
  <2> QED BY <2>1, <2>2
<1>3. added' \subseteq 1 .. elCount'
  OBVIOUS
<1> QED BY <1>1, <1>2, <1>3 DEF ArrInv

(* Every step keeps the invariant.                                         *)
LEMMA ArrNext ==
  ASSUME Steps \subseteq Nat \ {0}, MaxCount \in Nat, ArrInv,
         [Arr!Next]_(Arr!vars)
  PROVE  ArrInv'
<1> DEFINE l == Len(el)
<1>1. /\ el \in Seq(State) /\ l \in Nat /\ DOMAIN el = 1 .. l
         /\ elCount \in Nat /\ elCount <= l
      /\ added \subseteq 1 .. elCount /\ lost = FALSE
      /\ \A i \in 1 .. l : el[i] \in State /\ Holds(el, i)
      /\ stale \subseteq 1 .. l
  BY DEF ArrInv, Kept
<1>2. CASE UNCHANGED Arr!vars
  BY <1>2 DEF Arr!vars, ArrInv, Kept, Holds
<1>3. CASE Arr!ArrayInit
  <2>1. PICK by \in Steps, with \in BOOLEAN,
             nalloc \in {0, 2} : Arr!Make(nalloc, by, with)
    BY <1>3 DEF Arr!ArrayInit
  <2>2. el' = [i \in 1 .. nalloc |-> "zero"] /\ nalloc \in Nat
          /\ "zero" \in State
    BY <2>1 DEF Arr!Make, Arr!Zeros, State
  <2>3. el' \in [1 .. nalloc -> State]
    BY <2>2
  <2>4. el' \in Seq(State) /\ Len(el') = nalloc
    BY <2>2, <2>3
  <2>5. \A i \in 1 .. Len(el') : el'[i] = "zero"
    BY <2>2, <2>4
  <2> QED BY <2>1, <2>4, <2>5, ArrEmpty DEF Arr!Make
<1>4. CASE Arr!Add
  <2> DEFINE n == IF elCount' > l THEN l + step ELSE 0
             g == Arr!Grown(n)
  <2>1. elCount' = elCount + 1 /\ step \in Nat \ {0} /\ Arr!Use(g, elCount')
        /\ UNCHANGED <<step, hooks>>
    BY <1>4 DEF Arr!Add, ArrInv
  <2>2. n \in Nat
    BY <1>1, <2>1
  <2>3. Kept(g) /\ Len(g) = IF n < l THEN l ELSE n
    BY <2>2, GrownIs
  <2>4. elCount' \in Nat /\ elCount <= elCount' /\ elCount' <= Len(g)
          /\ elCount' \in 1 .. Len(g) /\ l <= Len(g)
    <3>1. l + step > l /\ ~ (l + step < l) /\ (0 < l \/ l = 0)
      BY <1>1, <2>1
    <3>2. Len(g) \in Nat /\ elCount' <= Len(g) /\ l <= Len(g)
      BY <1>1, <2>1, <2>3, <3>1
    <3> HIDE DEF g
    <3> QED BY <1>1, <2>1, <3>2
  <2>5. elCount' \notin added
    BY <1>1, <2>1
  <2> HIDE DEF g
  <2> QED BY <2>1, <2>3, <2>4, <2>5, UseIs
<1>5. ASSUME NEW i \in 1 .. MaxCount, Arr!AddI(i) PROVE ArrInv'
  <2> DEFINE g == Arr!Grown(elCount')
  <2>1. i \notin added /\ elCount' = Arr!Max({i, elCount}) /\ Arr!Use(g, i)
        /\ UNCHANGED <<step, hooks>>
    BY <1>5 DEF Arr!AddI
  <2>2. elCount' = (IF i < elCount THEN elCount ELSE i) /\ i \in Nat /\ 1 <= i
    BY <1>1, <2>1, MaxIs
  <2>3. elCount' \in Nat /\ elCount <= elCount' /\ i <= elCount'
    BY <1>1, <2>2
  <2>4. Kept(g) /\ Len(g) = IF elCount' < l THEN l ELSE elCount'
    BY <2>3, GrownIs
  <2>5. elCount' <= Len(g) /\ i \in 1 .. Len(g) /\ l <= Len(g)
    <3> HIDE DEF g
    <3> QED BY <1>1, <2>2, <2>3, <2>4
  <2> HIDE DEF g
  <2> QED BY <2>1, <2>3, <2>4, <2>5, UseIs
<1>6. \A i \in 1 .. l : /\ hooks => Arr!Freed[i] \in {"zero", "freed"}
                        /\ Arr!Freed[i] \in State
  BY <1>1 DEF Arr!Freed, Holds, State
<1>7. CASE Arr!Clear
  <2>1. el' = Arr!Freed /\ elCount' = 0 /\ added' = {}
        /\ stale' = stale \cup added
        /\ UNCHANGED <<step, hooks, lost>>
    BY <1>7 DEF Arr!Clear
  <2>2. el' \in [1 .. l -> State]
    BY <1>1, <1>6, <2>1 DEF Arr!Freed
  <2>3. el' \in Seq(State) /\ Len(el') = l
    BY <1>1, <2>2
  <2>4. \A i \in 1 .. l : Holds(el, i)'
    BY <1>1, <2>1 DEF Holds, Arr!Freed
  <2>6. 1 .. elCount \subseteq 1 .. l
    BY <1>1
  <2>5. Kept(el)'
    BY <2>3, <2>4 DEF Kept
  <2>7. stale' \subseteq 1 .. l
    BY <1>1, <2>1, <2>6
  <2> QED BY <1>1, <2>1, <2>3, <2>5, <2>7 DEF ArrInv
<1>8. CASE Arr!Free
  <2>1. \A i \in 1 .. l : ~ (hooks /\ Arr!Freed[i] = "used")
    BY <1>6
  <2>2. lost' = FALSE
    BY <1>1, <1>8, <2>1 DEF Arr!Free
  <2>3. el' = << >>
    BY <1>8 DEF Arr!Free
  <2>4. el' \in Seq(State) /\ \A i \in 1 .. Len(el') : el'[i] = "zero"
    BY <2>3
  <2>5. /\ elCount' = 0 /\ step' \in Steps \cup {0} /\ hooks' \in BOOLEAN
           /\ stale' = {}
        /\ added' = {}
    BY <1>8 DEF Arr!Free
  <2> QED BY <2>2, <2>4, <2>5, ArrEmpty
<1> QED BY <1>2, <1>3, <1>4, <1>5, <1>7, <1>8 DEF Arr!Next

(* The initial state satisfies it.                                         *)
LEMMA ArrInitInv == ASSUME Arr!Init PROVE ArrInv
<1>1. el = << >>
  BY DEF Arr!Init
<1>2. el \in Seq(State) /\ \A i \in 1 .. Len(el) : FALSE
  BY <1>1
<1>3. Kept(el)
  BY <1>2 DEF Kept
<1>4. elCount <= Len(el)
  <2>1. PICK n \in Nat : n = Len(el)
    BY <1>2
  <2>2. elCount = 0 /\ 0 <= n
    BY <2>1 DEF Arr!Init
  <2> QED BY <2>1, <2>2
<1> QED BY <1>3, <1>4 DEF Arr!Init, ArrInv

(* Elements added to an nxs-array are in use and no others; those that      *)
(* nxs_array_add_i jumps over are zero, except exactly the ones a clear    *)
(* left behind; what init_callback made is freed before anything takes its *)
(* place; however often the memory grows or is cleared.                    *)
THEOREM ArrayRightAlways ==
  ASSUME Steps \subseteq Nat \ {0}, MaxCount \in Nat
  PROVE  Arr!Spec => []Arr!MemoryRight
<1>1. Arr!Init => ArrInv
  BY ArrInitInv
<1>2. ArrInv /\ [Arr!Next]_(Arr!vars) => ArrInv'
  BY ArrNext
<1>3. ArrInv => Arr!MemoryRight
  BY DEF ArrInv, Kept, Holds, Arr!MemoryRight
<1> QED BY <1>1, <1>2, <1>3, PTL DEF Arr!Spec

-----------------------------------------------------------------------------
(***************************************************************************)
(* nxs-buf                                                                 *)
(***************************************************************************)
CONSTANTS Strings, MaxLen, Junk, Zero,
  Chars      (* what strings are made of                                   *)
VARIABLES buf, other, known, answer
Bu == INSTANCE BufUse

(* What a place of the memory, or what is known of it, can be              *)
Value == Chars \cup {Junk, Zero, "any"}
(* A buffer with its length in the memory                                  *)
IsBuf(b) == b \in [mem : Seq(Value), len : Nat] /\ b.len <= Len(b.mem)
(* It holds what is known of it.                                           *)
Agrees(b, s) == b.len = Len(s)
  /\ \A i \in 1 .. Len(s) : s[i] # "any" => b.mem[i] = s[i]
(* What was read is a part of what is known.                               *)
IsPart(a, s) ==
  \E i \in 0 .. Len(s) : \A k \in DOMAIN a : i + k <= Len(s)
    /\ s[i + k] \in {"any", a[k]}

(* The invariant; of the other buffer nothing more is needed than that it  *)
(* is one.                                                                 *)
BufInv ==
  /\ IsBuf(buf) /\ IsBuf(other)
  /\ known \in Seq(Value) /\ Agrees(buf, known) /\ IsPart(answer, known)

(* The maximum and the minimum of two numbers, as Buf takes them           *)
LEMMA BMaxIs ==
  ASSUME NEW a \in Nat, NEW b \in Nat
  PROVE  Bu!Max({a, b}) = IF a < b THEN b ELSE a
<1> DEFINE m == IF a < b THEN b ELSE a
<1>1. m \in {a, b} /\ \A y \in {a, b} : m >= y
  OBVIOUS
<1>2. \A x \in {a, b} : (\A y \in {a, b} : x >= y) => x = m
  OBVIOUS
<1> HIDE DEF m
<1>3. (CHOOSE x \in {a, b} : \A y \in {a, b} : x >= y) = m
  BY <1>1, <1>2
<1> QED BY <1>3 DEF Bu!Max, m

LEMMA BMinIs ==
  ASSUME NEW a \in Nat, NEW b \in Nat
  PROVE  Bu!Min({a, b}) = IF a < b THEN a ELSE b
<1> DEFINE m == IF a < b THEN a ELSE b
<1>1. m \in {a, b} /\ \A y \in {a, b} : m =< y
  OBVIOUS
<1>2. \A x \in {a, b} : (\A y \in {a, b} : x =< y) => x = m
  OBVIOUS
<1> HIDE DEF m
<1>3. (CHOOSE x \in {a, b} : \A y \in {a, b} : x =< y) = m
  BY <1>1, <1>2
<1> QED BY <1>3 DEF Bu!Min, m

(* nxs_buf_init makes an empty buffer.                                     *)
LEMMA MadeIs ==
  ASSUME NEW n \in Nat
  PROVE  /\ IsBuf(Bu!Made(n)) /\ Bu!Made(n).len = 0 /\ Len(Bu!Made(n).mem) = n
<1> DEFINE m == [i \in 1 .. n |-> Zero]
<1>1. m \in [1 .. n -> Value]
  BY DEF Value
<1>2. m \in Seq(Value) /\ Len(m) = n
  BY <1>1
<1>3. Bu!Made(n) = [mem |-> m, len |-> 0]
  BY DEF Bu!Made
<1> HIDE DEF m
<1>4. Bu!Made(n).mem = m /\ Bu!Made(n).len = 0
        /\ Bu!Made(n) \in [mem : Seq(Value), len : Nat]
  BY <1>2, <1>3
<1>5. 0 <= n
  OBVIOUS
<1> QED BY <1>2, <1>4, <1>5 DEF IsBuf

(* nxs_buf_resize keeps the beginning, as far as there is memory for it.   *)
LEMMA ResizeIs ==
  ASSUME NEW b, IsBuf(b), NEW n \in Nat
  PROVE  /\ IsBuf(Bu!Resize(b, n)) /\ Len(Bu!Resize(b, n).mem) = n
         /\ Bu!Resize(b, n).len = (IF n < b.len THEN n ELSE b.len)
         /\ \A i \in 1 .. Bu!Resize(b, n).len : Bu!Resize(b, n).mem[i]
            = b.mem[i]
<1>1. PICK z \in Nat : z = Len(b.mem)
  BY DEF IsBuf
<1>2. b.len \in Nat /\ b.mem \in Seq(Value) /\ b.len <= z /\ Bu!Size(b) = z
  BY <1>1 DEF IsBuf, Bu!Size
<1>3. CASE z = 0
  <2>1. Bu!Resize(b, n) = Bu!Made(n)
    BY <1>2, <1>3 DEF Bu!Resize
  <2>2. b.len = 0
    BY <1>2, <1>3
  <2> QED BY <2>1, <2>2, MadeIs
<1>4. CASE z # 0
  <2> DEFINE m == [i \in 1 .. n |-> IF i <= z THEN b.mem[i] ELSE Junk]
             l == IF n < b.len THEN n ELSE b.len
  <2>1. Bu!Resize(b, n) = [mem |-> m, len |-> l]
    BY <1>2, <1>4, BMinIs DEF Bu!Resize
  <2>2. \A i \in 1 .. n : m[i] \in Value
    BY <1>1, <1>2 DEF Value
  <2>3. m \in [1 .. n -> Value]
    BY <2>2
  <2>4. m \in Seq(Value) /\ Len(m) = n
    BY <2>3
  <2>5. l \in Nat /\ l <= n /\ l <= z
    BY <1>2
  <2>6. \A i \in 1 .. l : m[i] = b.mem[i]
    BY <2>5
  <2> HIDE DEF m, l
  <2>7. /\ Bu!Resize(b, n).mem = m /\ Bu!Resize(b, n).len = l
        /\ Bu!Resize(b, n) \in [mem : Seq(Value), len : Nat]
    BY <2>1, <2>4, <2>5
  <2> QED BY <2>4, <2>5, <2>6, <2>7 DEF IsBuf, l
<1> QED BY <1>3, <1>4

(* More memory for the same content                                        *)
LEMMA GrowIs ==
  ASSUME NEW b, IsBuf(b), NEW n \in Nat
  PROVE  /\ IsBuf(Bu!Grow(b, n)) /\ n <= Len(Bu!Grow(b, n).mem)
            /\ Bu!Grow(b, n).len = b.len
         /\ \A i \in 1 .. b.len : Bu!Grow(b, n).mem[i] = b.mem[i]
<1>1. PICK z \in Nat : z = Len(b.mem)
  BY DEF IsBuf
<1>2. b.len \in Nat /\ b.len <= z /\ Bu!Size(b) = z
  BY <1>1 DEF IsBuf, Bu!Size
<1>3. CASE n > z
  <2>1. Bu!Grow(b, n) = Bu!Resize(b, n)
    BY <1>2, <1>3 DEF Bu!Grow
  <2>2. (IF n < b.len THEN n ELSE b.len) = b.len /\ n <= n
    BY <1>2, <1>3
  <2> DEFINE r == Bu!Resize(b, n)
  <2>3. IsBuf(r) /\ Len(r.mem) = n /\ r.len = b.len
          /\ \A i \in 1 .. r.len : r.mem[i] = b.mem[i]
    BY <2>2, ResizeIs
  <2> HIDE DEF r
  <2>4. n <= Len(r.mem)
    BY <2>3
  <2> QED BY <2>1, <2>3, <2>4 DEF r
<1>4. CASE ~ n > z
  <2>1. Bu!Grow(b, n) = b
    BY <1>2, <1>4 DEF Bu!Grow
  <2>2. n <= Len(b.mem)
    BY <1>1, <1>4
  <2> QED BY <2>1, <2>2
<1> QED BY <1>3, <1>4

(* The length after d was put at off, and what is at i then *)
LenAfter(l, off, d) == IF d = << >>
  \/ off + Len(d) < l THEN l ELSE off + Len(d)

(* A write within the memory leaves a buffer, and what is behind and       *)
(* before it.                                                              *)
LEMMA PutIs ==
  ASSUME NEW b, IsBuf(b), NEW off \in Nat, NEW d \in Seq(Value),
         off + Len(d) <= Len(b.mem)
  PROVE  /\ IsBuf(Bu!Put(b, off, d)) /\ Len(Bu!Put(b, off, d).mem) = Len(b.mem)
         /\ Bu!Put(b, off, d).len = LenAfter(b.len, off, d)
         /\ \A i \in 1 .. Len(b.mem) :
              Bu!Put(b, off, d).mem[i] = IF i - off \in DOMAIN d
                THEN d[i - off] ELSE b.mem[i]
<1>1. PICK z \in Nat : z = Len(b.mem)
  BY DEF IsBuf
<1>2. PICK e \in Nat : e = Len(d)
  OBVIOUS
<1>3. b.len \in Nat /\ b.mem \in Seq(Value) /\ b.len <= z /\ Bu!Size(b) = z
        /\ off + e <= z
  BY <1>1, <1>2 DEF IsBuf, Bu!Size
<1> DEFINE m == [i \in 1 .. z |-> IF i - off \in DOMAIN d THEN d[i - off] ELSE
      b.mem[i]]
           l == LenAfter(b.len, off, d)
<1>4. Bu!Max({b.len, off + e}) = IF b.len < off + e THEN off + e ELSE b.len
  BY <1>3, BMaxIs
<1>5. l = IF d = << >> THEN b.len ELSE Bu!Max({b.len, off + e})
  <2>1. off + e \in Nat
    OBVIOUS
  <2> QED BY <1>2, <1>3, <1>4, <2>1 DEF LenAfter
<1>6. Bu!Put(b, off, d) = [mem |-> m, len |-> l]
  BY <1>2, <1>3, <1>5 DEF Bu!Put
<1>7. \A i \in 1 .. z : m[i] \in Value
  <2>1. \A i \in DOMAIN d : d[i] \in Value
    OBVIOUS
  <2>2. \A i \in 1 .. z : b.mem[i] \in Value
    BY <1>1, <1>3
  <2> QED BY <2>1, <2>2
<1>8. m \in [1 .. z -> Value]
  BY <1>7
<1>9. m \in Seq(Value) /\ Len(m) = z
  BY <1>8
<1>10. l \in Nat /\ l <= z
  BY <1>2, <1>3 DEF LenAfter
<1>11. \A i \in 1 .. z : m[i] = IF i - off \in DOMAIN d THEN d[i - off]
         ELSE b.mem[i]
  OBVIOUS
<1> HIDE DEF m, l
<1>12. /\ Bu!Put(b, off, d).mem = m /\ Bu!Put(b, off, d).len = l
       /\ Bu!Put(b, off, d) \in [mem : Seq(Value), len : Nat]
  BY <1>6, <1>9, <1>10
<1> QED BY <1>1, <1>9, <1>10, <1>11, <1>12 DEF IsBuf, l

(* The same of what is known                                               *)
LEMMA OverIs ==
  ASSUME NEW s \in Seq(Value), NEW off \in Nat, NEW d \in Seq(Value)
  PROVE  /\ Bu!Over(s, off, d) \in Seq(Value)
            /\ Len(Bu!Over(s, off, d)) = LenAfter(Len(s), off, d)
         /\ \A i \in 1 .. LenAfter(Len(s), off, d) :
              Bu!Over(s, off, d)[i] =
                IF i - off \in DOMAIN d THEN d[i - off]
                  ELSE IF i <= Len(s) THEN s[i] ELSE "any"
<1>1. PICK z \in Nat : z = Len(s)
  OBVIOUS
<1>2. PICK e \in Nat : e = Len(d)
  OBVIOUS
<1> DEFINE l == LenAfter(Len(s), off, d)
           m == [i \in 1 .. l |->
                   IF i - off \in DOMAIN d THEN d[i - off]
                     ELSE IF i <= Len(s) THEN s[i] ELSE "any"]
<1>3. Bu!Max({z, off + e}) = IF z < off + e THEN off + e ELSE z
  BY BMaxIs
<1>4. l = (IF d = << >> THEN z ELSE Bu!Max({z, off + e})) /\ l \in Nat
  <2>1. off + e \in Nat
    OBVIOUS
  <2> QED BY <1>1, <1>2, <1>3, <2>1 DEF LenAfter
<1>5. Bu!Over(s, off, d) = m
  BY <1>1, <1>2, <1>4 DEF Bu!Over
<1>6. \A i \in 1 .. l : m[i] \in Value
  <2>1. \A i \in DOMAIN d : d[i] \in Value
    OBVIOUS
  <2>2. \A i \in 1 .. l : i <= Len(s) => s[i] \in Value
    BY <1>1, <1>4
  <2>3. "any" \in Value
    BY DEF Value
  <2> QED BY <2>1, <2>2, <2>3
<1>7. m \in [1 .. l -> Value]
  BY <1>6
<1>8. m \in Seq(Value) /\ Len(m) = l
  <2> HIDE DEF m, l
  <2>1. l \in Nat
    BY <1>4
  <2>2. m \in Seq(Value)
    BY <1>7, <2>1
  <2>3. Len(m) = l
    BY <1>7, <2>1
  <2> QED BY <2>2, <2>3
<1> QED BY <1>5, <1>8

(* So a write keeps the buffer as it is known.                             *)
LEMMA PutAgrees ==
  ASSUME NEW b, IsBuf(b), NEW off \in Nat, NEW d \in Seq(Value),
         off + Len(d) <= Len(b.mem),
         NEW s \in Seq(Value), Agrees(b, s)
  PROVE  Agrees(Bu!Put(b, off, d), Bu!Over(s, off, d))
<1> DEFINE l == LenAfter(b.len, off, d)
           o == Bu!Over(s, off, d)
           p == Bu!Put(b, off, d)
<1>1. PICK z \in Nat : z = Len(b.mem)
  BY DEF IsBuf
<1>2. b.len = Len(s) /\ \A i \in 1 .. Len(s) : s[i] # "any" => b.mem[i] = s[i]
  BY DEF Agrees
<1>3. IsBuf(p) /\ p.len = l /\ Len(p.mem) = z
      /\ \A i \in 1 .. z : p.mem[i] = IF i - off \in DOMAIN d THEN d[i - off]
         ELSE b.mem[i]
  BY <1>1, PutIs
<1>4. Len(o) = l /\ \A i \in 1 .. l :
        o[i] = IF i - off \in DOMAIN d THEN d[i - off]
          ELSE IF i <= Len(s) THEN s[i] ELSE "any"
  BY <1>2, OverIs
<1>5. l \in Nat /\ l <= z
  BY <1>3 DEF IsBuf
<1> HIDE DEF l, o, p
<1>6. ASSUME NEW i \in 1 .. l, o[i] # "any" PROVE p.mem[i] = o[i]
  <2>1. i \in 1 .. z
    BY <1>5
  <2>2. CASE i - off \in DOMAIN d
    BY <1>3, <1>4, <2>1, <2>2
  <2>3. CASE i - off \notin DOMAIN d
    <3>1. i <= Len(s) /\ o[i] = s[i] /\ p.mem[i] = b.mem[i]
      BY <1>3, <1>4, <1>6, <2>1, <2>3
    <3>2. PICK y \in Nat : y = Len(s)
      OBVIOUS
    <3>3. i \in 1 .. Len(s)
      BY <3>1, <3>2
    <3> QED BY <1>2, <1>6, <3>1, <3>3
  <2> QED BY <2>2, <2>3
<1>7. p.len = Len(o) /\ \A i \in 1 .. Len(o) : o[i] # "any" => p.mem[i] = o[i]
  BY <1>3, <1>4, <1>6
<1> QED BY <1>7 DEF Agrees, o, p

(* Sequences of the same elements agree with the same buffers.             *)
LEMMA AgreesSame ==
  ASSUME NEW b, NEW s, NEW t, Agrees(b, s), Len(t) = Len(s),
         \A i \in 1 .. Len(s) : t[i] = s[i]
  PROVE  Agrees(b, t)
BY DEF Agrees

(* nxs_buf_cpy                                                             *)
LEMMA CpyAgrees ==
  ASSUME NEW b, IsBuf(b), NEW off \in Nat, NEW d \in Seq(Value),
         NEW s \in Seq(Value), Agrees(b, s)
  PROVE  IsBuf(Bu!Cpy(b, off, d))
         /\ Agrees(Bu!Cpy(b, off, d), Bu!Over(s, off, d))
<1> DEFINE g == Bu!Grow(b, off + Len(d))
<1>1. off + Len(d) \in Nat
  OBVIOUS
<1>2. /\ IsBuf(g) /\ off + Len(d) <= Len(g.mem) /\ g.len = b.len
      /\ \A i \in 1 .. b.len : g.mem[i] = b.mem[i]
  BY <1>1, GrowIs
<1>3. Bu!Cpy(b, off, d) = Bu!Put(g, off, d)
  BY DEF Bu!Cpy
<1> HIDE DEF g
<1>4. Agrees(g, s)
  BY <1>2 DEF Agrees
<1> QED BY <1>2, <1>3, <1>4, PutIs, PutAgrees

(* nxs_buf_cat, a write at the end                                         *)
LEMMA CatAgrees ==
  ASSUME NEW b, IsBuf(b), NEW d \in Seq(Value), NEW s \in Seq(Value),
         Agrees(b, s)
  PROVE  /\ IsBuf(Bu!Cat(b, d)) /\ s \o d \in Seq(Value)
         /\ Agrees(Bu!Cat(b, d), s \o d)
<1> DEFINE o == Bu!Over(s, Len(s), d)
           c == s \o d
<1>1. PICK z \in Nat : z = Len(s)
  OBVIOUS
<1>2. PICK e \in Nat : e = Len(d) /\ DOMAIN d = 1 .. e
  OBVIOUS
<1>3. b.len = z /\ Bu!Cat(b, d) = Bu!Cpy(b, z, d)
  BY <1>1 DEF Agrees, Bu!Cat
<1>4. IsBuf(Bu!Cat(b, d)) /\ Agrees(Bu!Cat(b, d), o)
  BY <1>1, <1>3, CpyAgrees
<1>5. c \in Seq(Value) /\ Len(c) = z + e
      /\ \A i \in 1 .. z + e : c[i] = IF i <= z THEN s[i] ELSE d[i - z]
  BY <1>1, <1>2, ConcatProperties
<1>6. LenAfter(z, z, d) = z + e
  <2>1. d = << >> => e = 0
    BY <1>2
  <2>2. ~ z + e < z
    OBVIOUS
  <2> QED BY <1>2, <2>1, <2>2 DEF LenAfter
<1>7. Len(o) = z + e /\ \A i \in 1 .. z + e :
        o[i] = IF i - z \in DOMAIN d THEN d[i - z] ELSE IF i <= z THEN s[i]
          ELSE "any"
  BY <1>1, <1>6, OverIs
<1> HIDE DEF o, c
<1>8. ASSUME NEW i \in 1 .. z + e PROVE c[i] = o[i]
  <2>1. CASE i <= z
    <3>1. i - z \notin DOMAIN d
      BY <1>2, <2>1
    <3> QED BY <1>5, <1>7, <2>1, <3>1
  <2>2. CASE ~ i <= z
    <3>1. i - z \in DOMAIN d
      BY <1>2, <2>2
    <3> QED BY <1>5, <1>7, <2>2, <3>1
  <2> QED BY <2>1, <2>2
<1>9. Agrees(Bu!Cat(b, d), c)
  BY <1>4, <1>5, <1>7, <1>8, AgreesSame
<1> QED BY <1>4, <1>5, <1>9 DEF c

(* nxs_buf_add_char, the same of one byte                                  *)
LEMMA AddCharAgrees ==
  ASSUME NEW b, IsBuf(b), NEW ch \in Value, NEW s \in Seq(Value), Agrees(b, s)
  PROVE  /\ IsBuf(Bu!AddChar(b, ch)) /\ Append(s, ch) \in Seq(Value)
         /\ Agrees(Bu!AddChar(b, ch), Append(s, ch))
<1>1. Bu!AddChar(b, ch) = Bu!Cat(b, <<ch>>)
  BY DEF Bu!AddChar, Bu!Cat
<1>2. <<ch>> \in Seq(Value)
  OBVIOUS
<1>3. Append(s, ch) = s \o <<ch>>
  BY AppendIsConcat
<1>4. /\ IsBuf(Bu!Cat(b, <<ch>>)) /\ s \o <<ch>> \in Seq(Value)
      /\ Agrees(Bu!Cat(b, <<ch>>), s \o <<ch>>)
  BY <1>2, CatAgrees
<1> QED BY <1>1, <1>3, <1>4

(* What is known when the length is set                                    *)
LEMMA CutIs ==
  ASSUME NEW s \in Seq(Value), NEW n \in Nat
  PROVE  /\ Bu!Cut(s, n) \in Seq(Value) /\ Len(Bu!Cut(s, n)) = n
         /\ \A i \in 1 .. n : Bu!Cut(s, n)[i] = IF i <= Len(s) THEN s[i]
            ELSE "any"
<1> DEFINE m == [i \in 1 .. n |-> IF i <= Len(s) THEN s[i] ELSE "any"]
<1>1. PICK z \in Nat : z = Len(s)
  OBVIOUS
<1>2. Bu!Cut(s, n) = m
  BY DEF Bu!Cut
<1>3. \A i \in 1 .. n : m[i] \in Value
  BY <1>1 DEF Value
<1>4. m \in [1 .. n -> Value]
  BY <1>3
<1>5. m \in Seq(Value) /\ Len(m) = n
  <2> HIDE DEF m
  <2> QED BY <1>4
<1> QED BY <1>2, <1>5

(* nxs_buf_resize never leaves a length behind the memory.                 *)
LEMMA ResizeAgrees ==
  ASSUME NEW b, IsBuf(b), NEW n \in Nat, NEW s \in Seq(Value), Agrees(b, s)
  PROVE  LET c == Bu!Cut(s, Bu!Min({n, Len(s)}))
         IN  IsBuf(Bu!Resize(b, n)) /\ c \in Seq(Value)
           /\ Agrees(Bu!Resize(b, n), c)
<1>1. PICK z \in Nat : z = Len(s)
  OBVIOUS
<1>2. b.len = z /\ \A i \in 1 .. z : s[i] # "any" => b.mem[i] = s[i]
  BY <1>1 DEF Agrees
<1> DEFINE l == IF n < z THEN n ELSE z
           c == Bu!Cut(s, l)
           r == Bu!Resize(b, n)
<1>3. Bu!Min({n, Len(s)}) = l
  BY <1>1, BMinIs
<1>4. IsBuf(r) /\ r.len = l /\ \A i \in 1 .. l : r.mem[i] = b.mem[i]
  BY <1>2, ResizeIs
<1>5. l \in Nat /\ l <= z
  OBVIOUS
<1> HIDE DEF l
<1>6. c \in Seq(Value) /\ Len(c) = l /\ \A i \in 1 .. l : c[i] = s[i]
  <2>1. \A i \in 1 .. l : i <= z
    BY <1>5
  <2> QED BY <1>1, <1>5, <2>1, CutIs
<1> HIDE DEF r, c
<1>7. Agrees(r, c)
  <2>1. \A i \in 1 .. l : i \in 1 .. z
    BY <1>5
  <2>2. \A i \in 1 .. l : c[i] # "any" => r.mem[i] = c[i]
    BY <1>2, <1>4, <1>6, <2>1
  <2> QED BY <1>4, <1>6, <2>2 DEF Agrees
<1> QED BY <1>3, <1>4, <1>6, <1>7 DEF r, c

(* nxs_buf_set_len does not either.                                        *)
LEMMA SetLenAgrees ==
  ASSUME NEW b, IsBuf(b), NEW n \in Nat, n <= Bu!Size(b), NEW s \in Seq(Value),
         Agrees(b, s)
  PROVE  /\ IsBuf(Bu!SetLen(b, n)) /\ Bu!Cut(s, n) \in Seq(Value)
         /\ Agrees(Bu!SetLen(b, n), Bu!Cut(s, n))
<1>1. PICK z \in Nat : z = Len(b.mem)
  BY DEF IsBuf
<1>2. PICK y \in Nat : y = Len(s)
  OBVIOUS
<1>3. /\ b \in [mem : Seq(Value), len : Nat] /\ n <= z
      /\ \A i \in 1 .. y : s[i] # "any" => b.mem[i] = s[i]
  BY <1>1, <1>2 DEF IsBuf, Agrees, Bu!Size
<1> DEFINE c == Bu!Cut(s, n)
           r == Bu!SetLen(b, n)
<1>4. r = [b EXCEPT !.len = n]
  BY <1>1, <1>3 DEF Bu!SetLen, Bu!Size
<1>5. r \in [mem : Seq(Value), len : Nat] /\ r.len = n /\ r.mem = b.mem
  BY <1>3, <1>4
<1>6. c \in Seq(Value) /\ Len(c) = n
      /\ \A i \in 1 .. n : c[i] = IF i <= y THEN s[i] ELSE "any"
  BY <1>2, CutIs
<1> HIDE DEF r, c
<1>7. Agrees(r, c)
  <2>1. \A i \in 1 .. n : c[i] # "any" => r.mem[i] = c[i]
    BY <1>3, <1>5, <1>6
  <2> QED BY <1>5, <1>6, <2>1 DEF Agrees
<1>8. IsBuf(r)
  BY <1>1, <1>3, <1>5 DEF IsBuf
<1> QED BY <1>6, <1>7, <1>8 DEF r, c

(* The bytes in use                                                        *)
LEMMA ContentIs ==
  ASSUME NEW b, IsBuf(b)
  PROVE  /\ Bu!Content(b) \in Seq(Value) /\ Len(Bu!Content(b)) = b.len
         /\ \A i \in 1 .. b.len : Bu!Content(b)[i] = b.mem[i]
<1>1. PICK z \in Nat : z = Len(b.mem)
  BY DEF IsBuf
<1>2. b.len \in Nat /\ b.len <= z /\ b.mem \in Seq(Value)
  BY <1>1 DEF IsBuf
<1>3. \A i \in 1 .. b.len : b.mem[i] \in Value
  BY <1>1, <1>2
<1>4. /\ SubSeq(b.mem, 1, b.len) \in Seq(Value)
      /\ Len(SubSeq(b.mem, 1, b.len)) = IF 1 <= b.len THEN b.len - 1 + 1 ELSE 0
      /\ \A i \in 1 .. b.len - 1 + 1 : SubSeq(b.mem, 1, b.len)[i]
         = b.mem[1 + i - 1]
  BY <1>2, <1>3, SubSeqProperties
<1>5. (IF 1 <= b.len THEN b.len - 1 + 1 ELSE 0) = b.len
        /\ b.len - 1 + 1 = b.len
  BY <1>2
<1>6. \A i \in 1 .. b.len : 1 + i - 1 = i
  BY <1>2
<1> QED BY <1>4, <1>5, <1>6 DEF Bu!Content

(* nxs_buf_clone makes the one buffer hold what the other holds.           *)
LEMMA CloneAgrees ==
  ASSUME NEW b, IsBuf(b), NEW c, IsBuf(c)
  PROVE  /\ IsBuf(Bu!Clone(b, c)) /\ Bu!Content(c) \in Seq(Value)
         /\ Agrees(Bu!Clone(b, c), Bu!Content(c))
<1> DEFINE r == Bu!Resize(b, c.len)
           d == Bu!Content(c)
           p == Bu!Put(r, 0, d)
           k == Bu!Clone(b, c)
<1>1. c.len \in Nat
  BY DEF IsBuf
<1>2. IsBuf(r) /\ Len(r.mem) = c.len
  BY <1>1, ResizeIs
<1>3. d \in Seq(Value) /\ Len(d) = c.len
  BY ContentIs
<1>4. k = [p EXCEPT !.len = c.len]
  BY DEF Bu!Clone
<1> HIDE DEF r, d, p, k
<1>5. 0 + Len(d) <= Len(r.mem)
  BY <1>1, <1>2, <1>3
<1>6. IsBuf(p) /\ Len(p.mem) = c.len
      /\ \A i \in 1 .. c.len : p.mem[i] = IF i - 0 \in DOMAIN d THEN d[i - 0]
         ELSE r.mem[i]
  BY <1>2, <1>3, <1>5, PutIs DEF p
<1>7. p \in [mem : Seq(Value), len : Nat]
  BY <1>6 DEF IsBuf
<1>8. k \in [mem : Seq(Value), len : Nat] /\ k.len = c.len /\ k.mem = p.mem
  BY <1>1, <1>4, <1>7
<1>9. \A i \in 1 .. c.len : k.mem[i] = d[i]
  <2>1. \A i \in 1 .. c.len : i - 0 = i /\ i \in DOMAIN d
    BY <1>1, <1>3
  <2> QED BY <1>6, <1>8, <2>1
<1>10. IsBuf(k)
  BY <1>1, <1>6, <1>8 DEF IsBuf
<1>11. Agrees(k, d)
  BY <1>3, <1>8, <1>9 DEF Agrees
<1> QED BY <1>3, <1>10, <1>11 DEF k, d

(* A part of the memory within the length                                  *)
LEMMA MemIs ==
  ASSUME NEW b, IsBuf(b), NEW off \in Nat, NEW n \in Nat, off + n <= b.len
  PROVE  LET a == SubSeq(b.mem, off + 1, off + n)
         IN  DOMAIN a = 1 .. n /\ \A k \in 1 .. n : a[k] = b.mem[off + k]
<1>1. PICK z \in Nat : z = Len(b.mem)
  BY DEF IsBuf
<1>2. b.len \in Nat /\ b.len <= z /\ b.mem \in Seq(Value)
  BY <1>1 DEF IsBuf
<1>3. off + 1 \in Int /\ off + n \in Int
        /\ \A i \in off + 1 .. off + n : i \in 1 .. z
  BY <1>2
<1>4. \A i \in off + 1 .. off + n : b.mem[i] \in Value
  BY <1>1, <1>2, <1>3
<1> DEFINE a == SubSeq(b.mem, off + 1, off + n)
<1>5. /\ a \in Seq(Value)
      /\ Len(a) = IF off + 1 <= off + n THEN off + n - (off + 1) + 1 ELSE 0
      /\ \A i \in 1 .. off + n - (off + 1) + 1 : a[i] = b.mem[off + 1 + i - 1]
  BY <1>3, <1>4, SubSeqProperties
<1> HIDE DEF a
<1>6. /\ off + n - (off + 1) + 1 = n
      /\ (IF off + 1 <= off + n THEN off + n - (off + 1) + 1 ELSE 0) = n
  OBVIOUS
<1>7. Len(a) = n /\ \A i \in 1 .. n : a[i] = b.mem[off + 1 + i - 1]
  BY <1>5, <1>6
<1>8. \A i \in 1 .. n : off + 1 + i - 1 = off + i
  OBVIOUS
<1>9. DOMAIN a = 1 .. n
  BY <1>5, <1>7
<1> QED BY <1>7, <1>8, <1>9 DEF a

(* A part of the bytes in use is a part of what is known,                  *)
LEMMA PartIs ==
  ASSUME NEW b, NEW s \in Seq(Value), Agrees(b, s), NEW off \in Nat,
         NEW n \in Nat,
         off + n <= b.len, NEW a, DOMAIN a = 1 .. n,
         \A k \in 1 .. n : a[k] = b.mem[off + k]
  PROVE  IsPart(a, s)
<1>1. PICK z \in Nat : z = Len(s)
  OBVIOUS
<1>2. b.len = z /\ \A i \in 1 .. z : s[i] # "any" => b.mem[i] = s[i]
  BY <1>1 DEF Agrees
<1>3. off \in 0 .. Len(s)
  BY <1>1, <1>2
<1>4. ASSUME NEW k \in DOMAIN a
      PROVE  off + k <= Len(s) /\ s[off + k] \in {"any", a[k]}
  <2>1. k \in 1 .. n
    OBVIOUS
  <2>2. off + k \in 1 .. z
    BY <1>2, <2>1
  <2> QED BY <1>1, <1>2, <2>1, <2>2
<1> QED BY <1>3, <1>4 DEF IsPart

(* as is nothing.                                                          *)
LEMMA NoPart ==
  ASSUME NEW s \in Seq(Value)
  PROVE  IsPart(<< >>, s)
<1>1. PICK z \in Nat : z = Len(s)
  OBVIOUS
<1>2. 0 \in 0 .. Len(s)
  BY <1>1
<1> QED BY <1>2 DEF IsPart

(* A write whose result agrees with what is known then keeps the           *)
(* invariant.                                                              *)
LEMMA BecomesIs ==
  ASSUME BufInv, NEW b, NEW s, Bu!Becomes(b, s), IsBuf(b), s \in Seq(Value),
         Agrees(b, s)
  PROVE  BufInv'
<1>1. buf' = b /\ known' = s /\ answer' = << >> /\ other' = other
  BY DEF Bu!Becomes
<1>2. IsPart(answer', known')
  BY <1>1, NoPart
<1> QED BY <1>1, <1>2 DEF BufInv

(* nxs_buf_init_string                                                     *)
LEMMA StringIs ==
  ASSUME Strings \subseteq Seq(Chars), NEW s \in Strings
  PROVE  s \in Seq(Value) /\ IsBuf(Bu!OfString(s)) /\ Agrees(Bu!OfString(s), s)
<1>1. PICK z \in Nat : z = Len(s)
  OBVIOUS
<1>2. s \in Seq(Value)
  BY DEF Value
<1> DEFINE m == Append(s, Zero)
<1>3. m \in Seq(Value) /\ Len(m) = z + 1 /\ \A i \in 1 .. z : m[i] = s[i]
  BY <1>1, <1>2, AppendProperties DEF Value
<1> HIDE DEF m
<1>4. Bu!OfString(s) = [mem |-> m, len |-> z]
  BY <1>1 DEF Bu!OfString, m
<1>5. /\ Bu!OfString(s).mem = m /\ Bu!OfString(s).len = z
      /\ Bu!OfString(s) \in [mem : Seq(Value), len : Nat]
  BY <1>3, <1>4
<1>6. z <= z + 1
  OBVIOUS
<1> QED BY <1>1, <1>2, <1>3, <1>5, <1>6 DEF IsBuf, Agrees

(* nxs_buf_get_mem gives a part of the bytes in use, or nothing,           *)
LEMMA GetMemPart ==
  ASSUME NEW b, IsBuf(b), NEW s \in Seq(Value), Agrees(b, s), NEW off \in Nat,
         NEW n \in Nat
  PROVE  IsPart(Bu!GetMem(b, off, n), s)
<1>1. b.len \in Nat
  BY DEF IsBuf
<1>2. CASE off >= b.len \/ off + n > b.len
  BY <1>2, NoPart DEF Bu!GetMem
<1>3. CASE ~ (off >= b.len \/ off + n > b.len)
  <2>1. off + n <= b.len
    BY <1>1, <1>3
  <2>2. Bu!GetMem(b, off, n) = SubSeq(b.mem, off + 1, off + n)
    BY <1>3 DEF Bu!GetMem
  <2> DEFINE a == SubSeq(b.mem, off + 1, off + n)
  <2>3. DOMAIN a = 1 .. n /\ \A k \in 1 .. n : a[k] = b.mem[off + k]
    BY <2>1, MemIs
  <2> HIDE DEF a
  <2>4. IsPart(a, s)
    BY <2>1, <2>3, PartIs
  <2> QED BY <2>2, <2>4 DEF a
<1> QED BY <1>2, <1>3

(* and nxs_buf_to_string what is from the offset on.                       *)
LEMMA AsStringPart ==
  ASSUME NEW b, IsBuf(b), NEW s \in Seq(Value), Agrees(b, s),
         NEW off \in 0 .. b.len - 1
  PROVE  IsPart(Bu!AsString(b, off), s)
<1>1. b.len \in Nat
  BY DEF IsBuf
<1> DEFINE e == IF b.mem[b.len] = Zero THEN b.len - 1 ELSE b.len
           n == e - off
<1>2. n \in Nat /\ off \in Nat /\ off + n = e /\ e <= b.len
  BY <1>1
<1>3. Bu!AsString(b, off) = SubSeq(b.mem, off + 1, e)
  BY DEF Bu!AsString
<1> HIDE DEF n, e
<1>4. Bu!AsString(b, off) = SubSeq(b.mem, off + 1, off + n) /\ off + n <= b.len
  BY <1>2, <1>3
<1> DEFINE a == SubSeq(b.mem, off + 1, off + n)
<1>5. DOMAIN a = 1 .. n /\ \A k \in 1 .. n : a[k] = b.mem[off + k]
  BY <1>2, <1>4, MemIs
<1> HIDE DEF a
<1>6. IsPart(a, s)
  BY <1>2, <1>4, <1>5, PartIs
<1> QED BY <1>4, <1>6 DEF a

(* n bytes of two buffers are the same,                                    *)
Alike(b, off, c, coff, n) == \A k \in 1 .. n : b.mem[off + k] = c.mem[coff + k]

(* as nxs_buf_cmp and nxs_buf_ncmp find.                                   *)
LEMMA SameMem ==
  ASSUME NEW b, IsBuf(b), NEW c, IsBuf(c), NEW off \in Nat, NEW coff \in Nat,
         NEW n \in Nat, NEW m \in Nat, off + n <= b.len, coff + m <= c.len,
         n <= m,
         SubSeq(b.mem, off + 1, off + n) = SubSeq(c.mem, coff + 1, coff + m)
  PROVE  Alike(b, off, c, coff, n)
<1> DEFINE x == SubSeq(b.mem, off + 1, off + n)
           y == SubSeq(c.mem, coff + 1, coff + m)
<1>1. \A k \in 1 .. n : x[k] = b.mem[off + k]
  BY MemIs
<1>2. \A k \in 1 .. m : y[k] = c.mem[coff + k]
  BY MemIs
<1>3. \A k \in 1 .. n : k \in 1 .. m
  OBVIOUS
<1>4. x = y
  OBVIOUS
<1> HIDE DEF x, y
<1> QED BY <1>1, <1>2, <1>3, <1>4 DEF Alike

(* What is equal to a part of the buffer is read from the other one *)
LEMMA EqualPart ==
  ASSUME NEW b, IsBuf(b), NEW s \in Seq(Value), Agrees(b, s), NEW c, IsBuf(c),
         NEW off \in Nat, NEW coff \in Nat, NEW n \in Nat, off + n <= b.len,
         Alike(b, off, c, coff, n)
  PROVE  IsPart(Bu!GetMem(c, coff, n), s)
<1>1. c.len \in Nat
  BY DEF IsBuf
<1>2. CASE coff >= c.len \/ coff + n > c.len
  BY <1>2, NoPart DEF Bu!GetMem
<1>3. CASE ~ (coff >= c.len \/ coff + n > c.len)
  <2> DEFINE a == SubSeq(c.mem, coff + 1, coff + n)
  <2>1. coff + n <= c.len
    BY <1>1, <1>3
  <2>2. Bu!GetMem(c, coff, n) = a
    BY <1>3 DEF Bu!GetMem
  <2>3. DOMAIN a = 1 .. n /\ \A k \in 1 .. n : a[k] = c.mem[coff + k]
    BY <2>1, MemIs
  <2> HIDE DEF a
  <2>4. \A k \in 1 .. n : a[k] = b.mem[off + k]
    BY <2>3 DEF Alike
  <2>5. DOMAIN a = 1 .. n
    BY <2>3
  <2>6. IsPart(a, s)
    BY <2>4, <2>5, PartIs
  <2> QED BY <2>2, <2>6
<1> QED BY <1>2, <1>3

(* Reading and comparing keep the invariant.                               *)
LEMMA ReadIs ==
  ASSUME MaxLen \in Nat, BufInv, Bu!Read
  PROVE  BufInv'
<1>1. IsBuf(buf) /\ IsBuf(other) /\ known \in Seq(Value) /\ Agrees(buf, known)
  BY DEF BufInv
<1>2. buf.len \in Nat /\ other.len \in Nat
  BY <1>1 DEF IsBuf
<1>3. IsPart(answer', known)
  <2>1. CASE \E off, n \in 0 .. MaxLen : answer' = Bu!GetMem(buf, off, n)
    <3>1. PICK off \in 0 .. MaxLen,
               n \in 0 .. MaxLen : answer' = Bu!GetMem(buf, off, n)
      BY <2>1
    <3> QED BY <1>1, <3>1, GetMemPart
  <2>2. CASE \E off \in 0 .. buf.len - 1 : answer' = Bu!AsString(buf, off)
    BY <1>1, <2>2, AsStringPart
  <2>3. CASE \E off \in 0 .. MaxLen :
               Bu!Same(buf, 0, other, off)
                 /\ answer' = Bu!GetMem(other, off, buf.len)
    <3>1. PICK off \in 0 .. MaxLen :
            Bu!Same(buf, 0, other, off)
              /\ answer' = Bu!GetMem(other, off, buf.len)
      BY <2>3
    <3> DEFINE m == other.len - off
    <3>2. off \in Nat /\ off <= other.len
      BY <3>1 DEF Bu!Same
    <3>3. SubSeq(buf.mem, 0 + 1, buf.len)
            = SubSeq(other.mem, off + 1, other.len)
      BY <3>1, Zenon DEF Bu!Same
    <3>4. PICK o \in Nat : o = 0
      OBVIOUS
    <3>5. m \in Nat /\ off + m = other.len /\ o + buf.len = buf.len
      BY <1>2, <3>2, <3>4
    <3> HIDE DEF m
    <3>7. SubSeq(buf.mem, o + 1, o + buf.len)
            = SubSeq(other.mem, off + 1, off + m)
      BY <3>3, <3>4, <3>5
    <3>8. CASE buf.len <= m
      <4>1. o + buf.len <= buf.len /\ off + m <= other.len
        BY <1>2, <3>5
      <4>2. Alike(buf, o, other, off, buf.len)
        BY <1>1, <1>2, <3>2, <3>4, <3>5, <3>7, <3>8, <4>1, SameMem
      <4> QED BY <1>1, <1>2, <3>1, <3>2, <4>1, <4>2, EqualPart
    <3>6. CASE ~ buf.len <= m
      <4>1. off + buf.len > other.len
        BY <1>2, <3>2, <3>5, <3>6
      <4>2. answer' = << >>
        BY <3>1, <4>1 DEF Bu!GetMem
      <4> QED BY <1>1, <4>2, NoPart
    <3> QED BY <3>6, <3>8
  <2>4. CASE \E off, n \in 0 .. MaxLen :
               Bu!SameN(buf, off, other, 0, n)
                 /\ answer' = Bu!GetMem(other, 0, n)
    <3>1. PICK off \in 0 .. MaxLen, n \in 0 .. MaxLen :
            Bu!SameN(buf, off, other, 0, n) /\ answer' = Bu!GetMem(other, 0, n)
      BY <2>4
    <3>2. off \in Nat /\ n \in Nat
      OBVIOUS
    <3>3. n <= buf.len - off /\ n <= other.len - 0
      BY <3>1 DEF Bu!SameN
    <3>4. SubSeq(buf.mem, off + 1, off + n) = SubSeq(other.mem, 0 + 1, 0 + n)
      BY <3>1, Zenon DEF Bu!SameN
    <3>5. PICK o \in Nat : o = 0
      OBVIOUS
    <3>6. off + n <= buf.len /\ o + n <= other.len /\ n <= n
      BY <1>2, <3>2, <3>3, <3>5
    <3>7. Alike(buf, off, other, o, n)
      BY <1>1, <3>2, <3>4, <3>5, <3>6, SameMem
    <3> QED BY <1>1, <3>1, <3>2, <3>5, <3>6, <3>7, EqualPart
  <2> QED BY <2>1, <2>2, <2>3, <2>4 DEF Bu!Read
<1> QED BY <1>3 DEF BufInv, Bu!Read

(* Writing keeps the invariant.                                            *)
LEMMA WriteIs ==
  ASSUME Strings \subseteq Seq(Chars), MaxLen \in Nat, BufInv, Bu!Write
  PROVE  BufInv'
<1>1. IsBuf(buf) /\ known \in Seq(Value) /\ Agrees(buf, known)
  BY DEF BufInv
<1>2. PICK d \in Strings, off \in 0 .. MaxLen :
        \/ Bu!Becomes(Bu!Cpy(buf, off, d), Bu!Over(known, off, d))
        \/ Bu!Becomes(Bu!Cat(buf, d), known \o d)
        \/ /\ off + Len(d) <= Bu!Size(buf)
           /\ Bu!Becomes(Bu!PutStatic(buf, off, d), Bu!Over(known, off, d))
        \/ off + Len(d) > Bu!Size(buf)
           /\ Bu!Becomes(Bu!PutStatic(buf, off, d), known)
  BY DEF Bu!Write
<1>3. d \in Seq(Value) /\ off \in Nat
  BY StringIs
<1>4. CASE Bu!Becomes(Bu!Cpy(buf, off, d), Bu!Over(known, off, d))
  BY <1>1, <1>3, <1>4, CpyAgrees, OverIs, BecomesIs
<1>5. CASE Bu!Becomes(Bu!Cat(buf, d), known \o d)
  BY <1>1, <1>3, <1>5, CatAgrees, BecomesIs
<1>6. CASE /\ off + Len(d) <= Bu!Size(buf)
           /\ Bu!Becomes(Bu!PutStatic(buf, off, d), Bu!Over(known, off, d))
  <2>1. PICK z \in Nat : z = Len(buf.mem)
    BY <1>1 DEF IsBuf
  <2>2. PICK e \in Nat : e = Len(d)
    BY <1>3
  <2>3. off + e <= z
    BY <1>6, <2>1, <2>2 DEF Bu!Size
  <2>4. Bu!PutStatic(buf, off, d) = Bu!Put(buf, off, d)
    <3>1. ~ off + e > z
      BY <1>3, <2>3
    <3> QED BY <2>1, <2>2, <3>1 DEF Bu!PutStatic, Bu!Size
  <2>5. off + Len(d) <= Len(buf.mem)
    BY <2>1, <2>2, <2>3
  <2>6. /\ IsBuf(Bu!Put(buf, off, d))
           /\ Agrees(Bu!Put(buf, off, d), Bu!Over(known, off, d))
        /\ Bu!Over(known, off, d) \in Seq(Value)
    BY <1>1, <1>3, <2>5, PutIs, PutAgrees, OverIs
  <2> QED BY <1>6, <2>4, <2>6, BecomesIs
<1>7. CASE off + Len(d) > Bu!Size(buf)
        /\ Bu!Becomes(Bu!PutStatic(buf, off, d), known)
  BY <1>1, <1>7, BecomesIs DEF Bu!PutStatic
<1> QED BY <1>2, <1>4, <1>5, <1>6, <1>7

(* Every step keeps it.                                                    *)
LEMMA BufNext ==
  ASSUME Strings \subseteq Seq(Chars), MaxLen \in Nat, BufInv,
         [Bu!Next]_(Bu!vars)
  PROVE  BufInv'
<1>1. IsBuf(buf) /\ IsBuf(other) /\ known \in Seq(Value) /\ Agrees(buf, known)
  BY DEF BufInv
<1>2. PICK z \in Nat : z = Len(buf.mem)
  BY <1>1 DEF IsBuf
<1>3. buf \in [mem : Seq(Value), len : Nat] /\ buf.len <= z /\ Bu!Size(buf) = z
  BY <1>1, <1>2 DEF IsBuf, Bu!Size
<1>4. CASE UNCHANGED Bu!vars
  BY <1>4 DEF Bu!vars, BufInv
<1>5. CASE Bu!WriteChar
  <2>1. PICK d \in Strings : d # << >>
          /\ Bu!Becomes(Bu!AddChar(buf, d[1]), Append(known, d[1]))
    BY <1>5 DEF Bu!WriteChar
  <2>2. d \in Seq(Value)
    BY StringIs
  <2>3. d[1] \in Value
    BY <2>1, <2>2
  <2> QED BY <1>1, <2>1, <2>3, AddCharAgrees, BecomesIs
<1>6. CASE Bu!Fill
  <2>1. PICK s \in Strings :
          Bu!Becomes(Bu!FillStr(buf, s), Append(Bu!Over(known, 0, s), Zero))
    BY <1>6 DEF Bu!Fill
  <2>2. s \in Seq(Value) /\ 0 \in Nat /\ Zero \in Value
    BY StringIs DEF Value
  <2> DEFINE b == Bu!Cpy(buf, 0, s)
             o == Bu!Over(known, 0, s)
  <2>3. IsBuf(b) /\ Agrees(b, o) /\ o \in Seq(Value)
    BY <1>1, <2>2, CpyAgrees, OverIs
  <2>4. Bu!FillStr(buf, s) = Bu!AddChar(b, Zero)
    BY DEF Bu!FillStr
  <2> HIDE DEF b
  <2>5. /\ IsBuf(Bu!AddChar(b, Zero)) /\ Append(o, Zero) \in Seq(Value)
        /\ Agrees(Bu!AddChar(b, Zero), Append(o, Zero))
    BY <2>2, <2>3, AddCharAgrees
  <2> QED BY <2>1, <2>4, <2>5, BecomesIs
<1>7. CASE Bu!CloneIt
  BY <1>1, <1>7, CloneAgrees, BecomesIs DEF Bu!CloneIt
<1>8. CASE Bu!ResizeIt
  <2>1. PICK n \in 0 .. MaxLen :
          Bu!Becomes(Bu!Resize(buf, n), Bu!Cut(known, Bu!Min({n, Len(known)})))
    BY <1>8 DEF Bu!ResizeIt
  <2>2. n \in Nat
    OBVIOUS
  <2> QED BY <1>1, <2>1, <2>2, ResizeAgrees, BecomesIs
<1>9. CASE Bu!SetLenIt
  <2>1. PICK n \in 0 .. MaxLen :
          n <= Bu!Size(buf) /\ Bu!Becomes(Bu!SetLen(buf, n), Bu!Cut(known, n))
    BY <1>9 DEF Bu!SetLenIt
  <2>2. n \in Nat
    OBVIOUS
  <2> QED BY <1>1, <2>1, <2>2, SetLenAgrees, BecomesIs
<1>10. ASSUME NEW b, b.len = 0 PROVE Agrees(b, << >>) /\ << >> \in Seq(Value)
  BY <1>10 DEF Agrees
<1>11. z = 0 => buf.len = 0
  BY <1>3
<1>12. CASE Bu!Becomes(Bu!Clear(buf), << >>)
  <2> DEFINE c == [buf EXCEPT !.len = 0]
  <2>1. Bu!Clear(buf) = IF z = 0 THEN buf ELSE c
    BY <1>3 DEF Bu!Clear
  <2>2. c.len = 0 /\ c.mem = buf.mem /\ c \in [mem : Seq(Value), len : Nat]
    BY <1>3
  <2> HIDE DEF c
  <2>3. IsBuf(c)
    BY <1>2, <2>2 DEF IsBuf
  <2>4. IsBuf(Bu!Clear(buf)) /\ Bu!Clear(buf).len = 0
    BY <1>1, <1>11, <2>1, <2>2, <2>3
  <2> QED BY <1>10, <1>12, <2>4, BecomesIs
<1>13. CASE Bu!Becomes(Bu!Free(buf), << >>)
  <2>1. Bu!Free(buf) = IF z = 0 THEN buf ELSE Bu!Made(0)
    BY <1>3 DEF Bu!Free, Bu!None
  <2>2. IsBuf(Bu!Made(0)) /\ Bu!Made(0).len = 0
    BY MadeIs
  <2>3. IsBuf(Bu!Free(buf)) /\ Bu!Free(buf).len = 0
    BY <1>1, <1>11, <2>1, <2>2
  <2> QED BY <1>10, <1>13, <2>3, BecomesIs
<1> QED BY <1>4, <1>5, <1>6, <1>7, <1>8, <1>9, <1>12, <1>13, WriteIs, ReadIs
           DEF Bu!Next, Bu!Empty

(* The initial state satisfies it.                                         *)
LEMMA BufInitInv ==
  ASSUME Strings \subseteq Seq(Chars), Bu!Init
  PROVE  BufInv
<1>1. IsBuf(other)
  BY StringIs DEF Bu!Init
<1>2. IsBuf(buf) /\ known \in Seq(Value) /\ Agrees(buf, known)
  <2>1. CASE buf = Bu!None /\ known = << >>
    <3>1. IsBuf(buf) /\ buf.len = 0
      BY <2>1, MadeIs DEF Bu!None
    <3> QED BY <2>1, <3>1 DEF Agrees
  <2>2. CASE \E s \in Strings : buf = Bu!OfString(s) /\ known = s
    BY <2>2, StringIs
  <2> QED BY <2>1, <2>2 DEF Bu!Init
<1> QED BY <1>1, <1>2, NoPart DEF Bu!Init, BufInv

(* A buffer holds what its user wrote where it was written, however often  *)
(* its memory was moved, cut and cleared, and what is read from it, or     *)
(* found to be like it, is part of what was written.                       *)
THEOREM BufRightAlways ==
  ASSUME Strings \subseteq Seq(Chars), MaxLen \in Nat
  PROVE  Bu!Spec => []Bu!MemoryRight
<1>1. Bu!Init => BufInv
  BY BufInitInv
<1>2. BufInv /\ [Bu!Next]_(Bu!vars) => BufInv'
  BY BufNext
<1>3. BufInv => Bu!MemoryRight
  <2> SUFFICES ASSUME BufInv PROVE Bu!MemoryRight
    OBVIOUS
  <2>1. PICK z \in Nat : z = Len(known)
    BY DEF BufInv
  <2>2. DOMAIN known = 1 .. z
    BY <2>1 DEF BufInv
  <2>3. \A i \in DOMAIN known : known[i] # "any" => buf.mem[i] = known[i]
    BY <2>1, <2>2 DEF BufInv, Agrees
  <2>4. PICK i \in 0 .. z : \A k \in DOMAIN answer : i + k <= z
          /\ known[i + k] \in {"any", answer[k]}
    BY <2>1 DEF BufInv, IsPart
  <2>5. i \in DOMAIN known \cup {0}
    BY <2>2
  <2>6. buf.len = Len(known) /\ buf.len <= Bu!Size(buf)
    BY DEF BufInv, IsBuf, Agrees, Bu!Size
  <2> QED BY <2>1, <2>3, <2>4, <2>5, <2>6 DEF Bu!MemoryRight
<1> QED BY <1>1, <1>2, <1>3, PTL DEF Bu!Spec

-----------------------------------------------------------------------------
(***************************************************************************)
(* nxs-metadata: the fields of a version are found where they were packed. *)
(***************************************************************************)
CONSTANTS Width, ByteMax, Files, Names, Users, MaxCells, MaxChanges
VARIABLES md, cells, packed, changes
Md == INSTANCE Metadata WITH buf <- cells, Junk <- <<-1, -1>>, Zero <- <<0, 0>>

Cell == Int \X Int

Kinds == {"byte", "len", "size", "mode", "id", "time"}

(* Fields are as wide as their kinds of numbers, a version is a byte; what *)
(* lstat finds is text or numbers.                                         *)
WellSized ==
  /\ Width \in [{"byte", "len", "size", "mode", "id", "time"} -> Nat \ {0}]
  /\ Width["byte"] = 1 /\ ByteMax \in Nat \ {0}
  /\ Names \subseteq Seq(Int \X Int)
  /\ \A file \in Files :
       /\ \A x \in Md!TextFields : file[x] \in Seq(Int \X Int)
       /\ \A x \in {"size", "type", "mode"} \cup Md!Owners \cup Md!Times :
          file[x] \in Int

Numbers == {"size", "mode"} \cup Md!Owners \cup Md!Times

(* The widths, and the values that a field has                             *)
LEMMA WidthIs ==
  ASSUME WellSized
  PROVE  /\ \A k \in Kinds : Width[k] \in Nat \ {0}
         /\ Width["byte"] = 1 /\ ByteMax \in Nat \ {0}
         /\ Names \subseteq Seq(Cell)
<1>1. Width \in [Kinds -> Nat \ {0}] /\ Width["byte"] = 1
        /\ ByteMax \in Nat \ {0}
      /\ Names \subseteq Seq(Cell)
  BY ONLY WellSized, Zenon DEF WellSized, Kinds, Cell
<1> QED BY <1>1

LEMMA FileIs ==
  ASSUME WellSized, NEW file \in Files
  PROVE  /\ \A x \in Md!TextFields : file[x] \in Seq(Cell)
         /\ file.type \in Int /\ \A x \in Numbers : file[x] \in Int
<1>1. /\ \A x \in Md!TextFields : file[x] \in Seq(Int \X Int)
      /\ \A x \in {"size", "type", "mode"} \cup Md!Owners \cup Md!Times :
         file[x] \in Int
  BY ONLY WellSized, file \in Files, Zenon DEF WellSized
<1>2. "type" \in {"size", "type", "mode"} \cup Md!Owners \cup Md!Times
  OBVIOUS
<1>3. \A x \in Numbers :
        x \in {"size", "type", "mode"} \cup Md!Owners \cup Md!Times
  BY DEF Numbers
<1> QED BY <1>1, <1>2, <1>3 DEF Cell

IsValue(x, value) ==
  IF x \in Md!TextFields THEN value \in Seq(Cell) ELSE value \in Int

LEMMA LayoutRange ==
  ASSUME NEW v \in 1 .. 3, NEW n \in Nat, DOMAIN Md!Layout[v] = 1 .. n
  PROVE  /\ \A i \in 1 .. n : Md!Layout[v][i] \in Md!FieldsOf(v)
         /\ \A x \in Md!FieldsOf(v) : \E i \in 1 .. n : x = Md!Layout[v][i]
BY DEF Md!FieldsOf, Md!Range

(* The fields of a version, in order; the last is a number.                *)
LEMMA LayoutIs ==
  ASSUME NEW v \in 1 .. 3
  PROVE  \E n \in Nat \ {0} :
           /\ Len(Md!Layout[v]) = n /\ DOMAIN Md!Layout[v] = 1 .. n
           /\ \A i \in 1 .. n : Md!Layout[v][i] \in Md!TextFields \cup Numbers
           /\ Md!Layout[v][n] \notin Md!TextFields
           /\ \A i \in 1 .. n : Md!Layout[v][i] \in Md!FieldsOf(v)
           /\ \A x \in Md!FieldsOf(v) : \E i \in 1 .. n : x = Md!Layout[v][i]
<1>1. CASE v = 1
  <2>1. Md!Layout[v] =
          <<"name", "size", "mode", "uid", "gid", "atime", "mtime", "ctime">>
    BY <1>1 DEF Md!Layout
  <2>2. /\ Len(Md!Layout[v]) = 8 /\ DOMAIN Md!Layout[v] = 1 .. 8
        /\ Md!Layout[v][8] = "ctime"
        /\ \A i \in 1 .. 8 : Md!Layout[v][i] \in Md!TextFields \cup Numbers
    BY <2>1 DEF Md!TextFields, Numbers, Md!Owners, Md!Times
  <2>3. /\ \A i \in 1 .. 8 : Md!Layout[v][i] \in Md!FieldsOf(v)
        /\ \A x \in Md!FieldsOf(v) : \E i \in 1 .. 8 : x = Md!Layout[v][i]
    BY <2>2, LayoutRange
  <2>4. Md!Layout[v][8] \notin Md!TextFields
    BY <2>2 DEF Md!TextFields
  <2>5. 8 \in Nat \ {0}
    OBVIOUS
  <2> QED BY ONLY <2>2, <2>3, <2>4, <2>5
<1>2. CASE v = 2
  <2>1. Md!Layout[v] = <<"name", "size", "mode">>
    BY <1>2 DEF Md!Layout
  <2>2. /\ Len(Md!Layout[v]) = 3 /\ DOMAIN Md!Layout[v] = 1 .. 3
        /\ Md!Layout[v][3] = "mode"
        /\ \A i \in 1 .. 3 : Md!Layout[v][i] \in Md!TextFields \cup Numbers
    BY <2>1 DEF Md!TextFields, Numbers, Md!Owners, Md!Times
  <2>3. /\ \A i \in 1 .. 3 : Md!Layout[v][i] \in Md!FieldsOf(v)
        /\ \A x \in Md!FieldsOf(v) : \E i \in 1 .. 3 : x = Md!Layout[v][i]
    BY <2>2, LayoutRange
  <2>4. Md!Layout[v][3] \notin Md!TextFields
    BY <2>2 DEF Md!TextFields
  <2>5. 3 \in Nat \ {0}
    OBVIOUS
  <2> QED BY ONLY <2>2, <2>3, <2>4, <2>5
<1>3. CASE v = 3
  <2>1. Md!Layout[v] =
          <<"name", "size", "mode", "uname", "gname",
            "atime", "mtime", "ctime">>
    BY <1>3 DEF Md!Layout
  <2>2. /\ Len(Md!Layout[v]) = 8 /\ DOMAIN Md!Layout[v] = 1 .. 8
        /\ Md!Layout[v][8] = "ctime"
        /\ \A i \in 1 .. 8 : Md!Layout[v][i] \in Md!TextFields \cup Numbers
    BY <2>1 DEF Md!TextFields, Numbers, Md!Owners, Md!Times
  <2>3. /\ \A i \in 1 .. 8 : Md!Layout[v][i] \in Md!FieldsOf(v)
        /\ \A x \in Md!FieldsOf(v) : \E i \in 1 .. 8 : x = Md!Layout[v][i]
    BY <2>2, LayoutRange
  <2>4. Md!Layout[v][8] \notin Md!TextFields
    BY <2>2 DEF Md!TextFields
  <2>5. 8 \in Nat \ {0}
    OBVIOUS
  <2> QED BY ONLY <2>2, <2>3, <2>4, <2>5
<1> QED BY <1>1, <1>2, <1>3

(* What a byte counts to                                                   *)
LEMMA ModIs ==
  ASSUME WellSized, NEW n \in Nat
  PROVE  n % ByteMax \in 0 .. n /\ (n < ByteMax => n % ByteMax = n)
<1>1. PICK d \in Nat \ {0} : d = ByteMax
  BY WidthIs
<1>2. n % d \in 0 .. n /\ (n < d => n % d = n)
  OBVIOUS
<1> QED BY <1>1, <1>2

(* A piece: how much of a text is packed, and what the piece looks like    *)
Count(x, value) == IF x = "name" THEN Len(value) ELSE Len(value) % ByteMax
Counter(x) == Width[IF x = "name" THEN "len" ELSE "byte"]
Sent(x, value) ==
  IF x \in Md!OwnerNames THEN SubSeq(value, 1, Len(value) % ByteMax) ELSE value

LEMMA NumIs ==
  ASSUME WellSized, NEW n \in Int, NEW k \in Kinds
  PROVE  /\ Md!Num(n, k) \in Seq(Cell) /\ Len(Md!Num(n, k)) = Width[k]
         /\ Width[k] \in Nat \ {0} /\ Md!Num(n, k)[1][1] = n
<1>1. PICK w \in Nat \ {0} : w = Width[k]
  BY WidthIs
<1>2. PICK s : s = Md!Num(n, k)
  OBVIOUS
<1>3. s = [i \in 1 .. w |-> <<n, i>>]
  BY <1>1, <1>2 DEF Md!Num
<1>4. \A i \in 1 .. w : <<n, i>> \in Cell
  BY DEF Cell
<1>5. s \in [1 .. w -> Cell]
  BY <1>3, <1>4
<1>6. s \in Seq(Cell) /\ Len(s) = w
  BY <1>5
<1>7. 1 \in 1 .. w /\ s[1] = <<n, 1>>
  BY <1>3
<1> QED BY <1>1, <1>2, <1>6, <1>7

LEMMA NumberPiece ==
  ASSUME NEW x \in Numbers, NEW value \in Int
  PROVE  /\ Md!KindOf(x) \in Kinds /\ x \notin Md!TextFields
         /\ Md!Piece(x, value) = Md!Num(value, Md!KindOf(x))
         /\ Sent(x, value) = value
<1>1. x \notin Md!TextFields /\ x # "name" /\ x \notin Md!OwnerNames
  BY DEF Numbers, Md!TextFields, Md!OwnerNames, Md!Owners, Md!Times
<1>2. Md!Piece(x, value) = Md!Num(value, Md!KindOf(x))
  BY <1>1 DEF Md!Piece
<1>3. CASE x \in Md!Times
  <2>1. Md!KindOf(x) = "time"
    BY <1>3 DEF Md!KindOf, Md!Times, Md!Owners
  <2> QED BY <1>1, <1>2, <2>1 DEF Kinds, Sent
<1>4. CASE x \in Md!Owners
  <2>1. Md!KindOf(x) = "id"
    BY <1>4 DEF Md!KindOf, Md!Times, Md!Owners
  <2> QED BY <1>1, <1>2, <2>1 DEF Kinds, Sent
<1>5. CASE x \in {"size", "mode"}
  <2>1. Md!KindOf(x) = x
    BY <1>5 DEF Md!KindOf, Md!Times, Md!Owners
  <2> QED BY <1>1, <1>2, <1>5, <2>1 DEF Kinds, Sent
<1> QED BY <1>3, <1>4, <1>5 DEF Numbers

LEMMA TextPiece ==
  ASSUME WellSized, NEW x \in Md!TextFields, NEW value \in Seq(Cell)
  PROVE  /\ Counter(x) \in Nat \ {0} /\ Count(x, value) \in Nat
         /\ Count(x, value) <= Len(value)
         /\ Md!Piece(x, value) \in Seq(Cell)
         /\ Len(Md!Piece(x, value)) = Counter(x) + Count(x, value)
         /\ Md!Piece(x, value)[1][1] = Count(x, value)
         /\ Sent(x, value) = SubSeq(value, 1, Count(x, value))
         /\ \A i \in 1 .. Count(x, value) :
              Md!Piece(x, value)[Counter(x) + i] = value[i]
<1>1. PICK l \in Nat : l = Len(value)
  OBVIOUS
<1>2. PICK k \in Kinds : k = IF x = "name" THEN "len" ELSE "byte"
  BY DEF Kinds
<1>3. PICK c \in Nat : c = Count(x, value) /\ c <= l
  BY <1>1, ModIs DEF Count
<1>4. PICK t : t = SubSeq(value, 1, c)
  OBVIOUS
<1>5. t \in Seq(Cell) /\ Len(t) = c /\ \A i \in 1 .. c : t[i] = value[i]
  BY <1>1, <1>3, <1>4
<1>6. Sent(x, value) = t /\ Md!Piece(x, value) = Md!Num(c, k) \o t
  <2>1. CASE x = "name"
    <3>1. c = l /\ k = "len" /\ x \notin Md!OwnerNames
      BY <1>1, <1>2, <1>3, <2>1 DEF Count, Md!OwnerNames
    <3>2. t = value
      BY <1>1, <1>4, <3>1
    <3>3. x \notin Md!OwnerNames /\ x \in Md!TextFields
      BY <2>1 DEF Md!OwnerNames, Md!TextFields
    <3>4. Md!Piece(x, value) = Md!Num(Len(value), "len") \o value
      BY <2>1, <3>3 DEF Md!Piece
    <3> QED BY <1>1, <3>1, <3>2, <3>4 DEF Sent
  <2>2. CASE x \in Md!OwnerNames
    <3>1. x # "name" /\ x \in Md!TextFields /\ k = "byte"
      BY <1>2, <2>2 DEF Md!OwnerNames, Md!TextFields
    <3>2. c = Len(value) % ByteMax
      BY <1>3, <3>1 DEF Count
    <3>3. Md!Piece(x, value) = Md!Num(c, "byte") \o SubSeq(value, 1, c)
      BY <2>2, <3>1, <3>2 DEF Md!Piece
    <3> QED BY <1>4, <2>2, <3>1, <3>2, <3>3 DEF Sent
  <2> QED BY <2>1, <2>2 DEF Md!TextFields, Md!OwnerNames
<1>7. PICK s : s = Md!Num(c, k)
  OBVIOUS
<1>8. PICK w \in Nat \ {0} : w = Counter(x) /\ w = Width[k]
  BY <1>2, WidthIs DEF Counter
<1>9. s \in Seq(Cell) /\ Len(s) = w /\ s[1][1] = c
  BY <1>3, <1>7, <1>8, NumIs
<1>10. /\ s \o t \in Seq(Cell) /\ Len(s \o t) = Len(s) + Len(t)
       /\ \A i \in 1 .. Len(s) + Len(t) :
            (s \o t)[i] = IF i <= Len(s) THEN s[i] ELSE t[i - Len(s)]
  BY <1>5, <1>9, ConcatProperties
<1>11. PICK y : y = s \o t
  OBVIOUS
<1>12. /\ y \in Seq(Cell) /\ Len(y) = w + c
       /\ \A i \in 1 .. w + c : y[i] = IF i <= w THEN s[i] ELSE t[i - w]
  BY ONLY <1>5, <1>9, <1>10, <1>11
<1>13. y[1] = s[1]
  <2>1. 1 \in 1 .. w + c /\ 1 <= w
    OBVIOUS
  <2> QED BY <1>12, <2>1
<1>14. ASSUME NEW i \in 1 .. c PROVE y[w + i] = value[i]
  <2>1. w + i \in 1 .. w + c /\ ~ w + i <= w /\ w + i - w = i
    OBVIOUS
  <2> QED BY <1>5, <1>12, <2>1
<1>15. y = Md!Piece(x, value)
  BY <1>6, <1>7, <1>11
<1> QED BY <1>1, <1>3, <1>4, <1>6, <1>8, <1>9, <1>12, <1>13, <1>14, <1>15

(* Texts joined one after the other                                        *)
LEMMA JoinsExist ==
  ASSUME NEW n \in Nat, NEW q, \A j \in 1 .. n : q[j] \in Seq(Cell)
  PROVE  \E w \in [0 .. n -> Seq(Cell)] :
           w[0] = << >> /\ \A j \in 1 .. n : w[j] = w[j - 1] \o q[j]
<1> DEFINE Has(k) == \E w \in [0 .. k -> Seq(Cell)] :
                       w[0] = << >>
                         /\ \A j \in 1 .. k : w[j] = w[j - 1] \o q[j]
           Bad == {k \in 0 .. n : ~ Has(k)}
<1>1. Has(0)
  <2>1. << >> \in Seq(Cell)
    OBVIOUS
  <2>2. [j \in 0 .. 0 |-> << >>] \in [0 .. 0 -> Seq(Cell)]
    BY <2>1
  <2>3. 0 \in 0 .. 0 /\ 1 .. 0 = {}
    OBVIOUS
  <2> QED BY <2>2, <2>3
<1>2. ASSUME NEW k \in 0 .. n, k # 0, Has(k - 1)
      PROVE  Has(k)
  <2>1. k \in 1 .. n /\ k \in Nat /\ k - 1 \in 0 .. k - 1 /\ k - 1 \in Nat
    BY <1>2
  <2>2. PICK w \in [0 .. k - 1 -> Seq(Cell)] :
          w[0] = << >> /\ \A j \in 1 .. k - 1 : w[j] = w[j - 1] \o q[j]
    BY <1>2
  <2>3. PICK t : t = w[k - 1] \o q[k]
    OBVIOUS
  <2>4. w[k - 1] \in Seq(Cell) /\ q[k] \in Seq(Cell)
    BY <2>1, <2>2
  <2>5. t \in Seq(Cell)
    BY <2>3, <2>4, ConcatProperties
  <2> DEFINE g == [j \in 0 .. k |-> IF j = k THEN t ELSE w[j]]
  <2>6. g \in [0 .. k -> Seq(Cell)]
    BY <2>1, <2>2, <2>5
  <2>7. g[0] = << >>
    BY <2>1, <2>2
  <2>8. ASSUME NEW j \in 1 .. k PROVE g[j] = g[j - 1] \o q[j]
    <3>1. CASE j = k
      <4>1. k \in 0 .. k /\ k - 1 \in 0 .. k /\ k - 1 # k
        BY <2>1
      <4>2. g[k] = t /\ g[k - 1] = w[k - 1]
        BY <4>1
      <4> HIDE DEF g
      <4> QED BY <2>3, <3>1, <4>2
    <3>2. CASE j # k
      <4>1. j \in 1 .. k - 1 /\ j \in 0 .. k /\ j - 1 \in 0 .. k /\ j - 1 # k
        BY <2>1, <3>2
      <4>2. g[j] = w[j] /\ g[j - 1] = w[j - 1]
        BY <3>2, <4>1
      <4> HIDE DEF g
      <4> QED BY <2>2, <4>1, <4>2
    <3> QED BY <3>1, <3>2
  <2> HIDE DEF g
  <2> QED BY <2>6, <2>7, <2>8
<1> HIDE DEF Has
<1>3. Bad = {}
  <2>1. SUFFICES ASSUME Bad # {} PROVE FALSE
    OBVIOUS
  <2>2. Bad \in SUBSET Nat
    OBVIOUS
  <2>3. PICK k \in Bad : \A j \in Bad : k <= j
    BY <2>1, <2>2, NatMin
  <2>4. k \in 0 .. n /\ ~ Has(k) /\ k # 0
    BY <1>1, <2>3
  <2>5. k - 1 \in 0 .. n /\ k - 1 \notin Bad
    BY <2>3, <2>4
  <2> QED BY <1>2, <2>4, <2>5
<1>4. Has(n)
  BY <1>3
<1> QED BY <1>4 DEF Has

(* The one before is the beginning of the one after.                       *)
Chained(n, q, w) ==
  /\ n \in Nat /\ w \in [0 .. n -> Seq(Cell)]
  /\ \A j \in 1 .. n : q[j] \in Seq(Cell) /\ w[j] = w[j - 1] \o q[j]

Grown(n, q, w) ==
  /\ \A j \in 1 .. n :
       /\ Len(w[j]) = Len(w[j - 1]) + Len(q[j])
       /\ \A k \in 1 .. Len(w[j - 1]) : w[j][k] = w[j - 1][k]
       /\ \A k \in 1 .. Len(q[j]) : w[j][Len(w[j - 1]) + k] = q[j][k]
  /\ \A i \in 0 .. n :
       /\ Len(w[i]) <= Len(w[n])
       /\ \A k \in 1 .. Len(w[i]) : w[n][k] = w[i][k]

LEMMA JoinsGrow ==
  ASSUME NEW n, NEW q, NEW w, Chained(n, q, w)
  PROVE  Grown(n, q, w)
<1> USE DEF Chained
<1>1. ASSUME NEW j \in 1 .. n
      PROVE  /\ Len(w[j]) = Len(w[j - 1]) + Len(q[j])
             /\ \A k \in 1 .. Len(w[j - 1]) : w[j][k] = w[j - 1][k]
             /\ \A k \in 1 .. Len(q[j]) : w[j][Len(w[j - 1]) + k] = q[j][k]
  <2>1. j \in 0 .. n /\ j - 1 \in 0 .. n
    OBVIOUS
  <2>2. PICK s \in Seq(Cell) : s = w[j - 1]
    BY <2>1
  <2>3. PICK t \in Seq(Cell) : t = q[j]
    OBVIOUS
  <2>4. PICK y : y = s \o t
    OBVIOUS
  <2>5. y = w[j]
    BY <2>2, <2>3, <2>4
  <2>6. /\ s \o t \in Seq(Cell) /\ Len(s \o t) = Len(s) + Len(t)
        /\ \A k \in 1 .. Len(s) + Len(t) :
             (s \o t)[k] = IF k <= Len(s) THEN s[k] ELSE t[k - Len(s)]
    BY ConcatProperties
  <2>7. PICK l \in Nat : l = Len(s)
    OBVIOUS
  <2>8. PICK r \in Nat : r = Len(t)
    OBVIOUS
  <2>9. /\ Len(y) = l + r
        /\ \A k \in 1 .. l + r : y[k] = IF k <= l THEN s[k] ELSE t[k - l]
    BY ONLY <2>4, <2>6, <2>7, <2>8
  <2>10. ASSUME NEW k \in 1 .. l PROVE y[k] = s[k]
    <3>1. k \in 1 .. l + r /\ k <= l
      OBVIOUS
    <3> QED BY <2>9, <3>1
  <2>11. ASSUME NEW k \in 1 .. r PROVE y[l + k] = t[k]
    <3>1. l + k \in 1 .. l + r /\ ~ l + k <= l /\ l + k - l = k
      OBVIOUS
    <3> QED BY <2>9, <3>1
  <2> QED BY <2>2, <2>3, <2>5, <2>7, <2>8, <2>9, <2>10, <2>11
<1> DEFINE Begins(i, j) == /\ Len(w[i]) <= Len(w[j])
                           /\ \A k \in 1 .. Len(w[i]) : w[j][k] = w[i][k]
<1>2. ASSUME NEW i \in 0 .. n PROVE Begins(i, n)
  <2> DEFINE Bad == {j \in i .. n : ~ Begins(i, j)}
  <2>1. Begins(i, i)
    <3>1. w[i] \in Seq(Cell)
      OBVIOUS
    <3> QED BY <3>1
  <2>2. ASSUME NEW j \in i .. n, j # i, Begins(i, j - 1) PROVE Begins(i, j)
    <3>1. j \in 1 .. n /\ j - 1 \in 0 .. n /\ j \in 0 .. n
      BY <2>2
    <3>2. PICK a \in Nat : a = Len(w[i])
      OBVIOUS
    <3>3. PICK c \in Nat : c = Len(w[j - 1])
      BY <3>1
    <3>4. PICK d \in Nat : d = Len(q[j])
      <4>1. q[j] \in Seq(Cell)
        BY <3>1
      <4> QED BY <4>1
    <3>5. a <= c /\ \A k \in 1 .. a : w[j - 1][k] = w[i][k]
      BY <2>2, <3>2, <3>3
    <3>6. Len(w[j]) = c + d /\ \A k \in 1 .. c : w[j][k] = w[j - 1][k]
      BY <1>1, <3>1, <3>3, <3>4
    <3>7. ASSUME NEW k \in 1 .. a PROVE w[j][k] = w[i][k]
      <4>1. k \in 1 .. c
        BY <3>5
      <4> QED BY <3>5, <3>6, <4>1
    <3> QED BY <3>2, <3>5, <3>6, <3>7
  <2> HIDE DEF Begins
  <2>3. Bad = {}
    <3>1. SUFFICES ASSUME Bad # {} PROVE FALSE
      OBVIOUS
    <3>2. Bad \in SUBSET Nat
      OBVIOUS
    <3>3. PICK j \in Bad : \A k \in Bad : j <= k
      BY <3>1, <3>2, NatMin
    <3>4. j \in i .. n /\ ~ Begins(i, j) /\ j # i
      BY <2>1, <3>3
    <3>5. j - 1 \in i .. n /\ j - 1 \notin Bad
      BY <3>3, <3>4
    <3> QED BY <2>2, <3>4, <3>5
  <2>4. n \in i .. n
    OBVIOUS
  <2> QED BY <2>3, <2>4
<1> QED BY <1>1, <1>2 DEF Grown

LEMMA JoinedIs ==
  ASSUME NEW n \in Nat \ {0}, NEW q, Len(q) = n,
         \A j \in 1 .. n : q[j] \in Seq(Cell),
         NEW w \in [0 .. n -> Seq(Cell)],
         w[0] = << >>, \A j \in 1 .. n : w[j] = w[j - 1] \o q[j]
  PROVE  Md!FlattenSeq(q) = w[n]
<1> DEFINE Joins(f) ==
             f = [j \in 1 .. n |-> IF j = 1 THEN q[j] ELSE f[j - 1] \o q[j]]
           g == [j \in 1 .. n |-> w[j]]
           h == CHOOSE f : Joins(f)
<1>1. Md!FlattenSeq(q) = h[n]
  BY DEF Md!FlattenSeq
<1>2. w[1] = q[1]
  <2>1. 1 \in 1 .. n /\ q[1] \in Seq(Cell)
    OBVIOUS
  <2>2. PICK j \in 1 .. n : j = 1
    BY <2>1
  <2>3. w[j] = w[j - 1] \o q[j]
    OBVIOUS
  <2>4. j - 1 = 0
    BY <2>2
  <2> QED BY <2>1, <2>2, <2>3, <2>4, ConcatEmptySeq
<1>3. Joins(g)
  <2>1. ASSUME NEW j \in 1 .. n
        PROVE  g[j] = IF j = 1 THEN q[j] ELSE g[j - 1] \o q[j]
    <3>1. CASE j = 1
      BY <1>2, <3>1
    <3>2. CASE j # 1
      <4>1. j - 1 \in 1 .. n
        BY <3>2
      <4> QED BY <3>2, <4>1
    <3> QED BY <3>1, <3>2
  <2>2. g = [j \in 1 .. n |-> IF j = 1 THEN q[j] ELSE g[j - 1] \o q[j]]
    BY <2>1
  <2> QED BY <2>2
<1>4. Joins(h)
  BY <1>3
<1>5. \A j \in 1 .. n : h[j] = IF j = 1 THEN q[j] ELSE h[j - 1] \o q[j]
  <2> HIDE DEF h
  <2> QED BY <1>4
<1> HIDE DEF h
<1> DEFINE Bad == {j \in 1 .. n : h[j] # w[j]}
<1>6. Bad = {}
  <2>1. SUFFICES ASSUME Bad # {} PROVE FALSE
    OBVIOUS
  <2>2. Bad \in SUBSET Nat
    OBVIOUS
  <2>3. PICK j \in Bad : \A k \in Bad : j <= k
    BY <2>1, <2>2, NatMin
  <2>4. CASE j = 1
    BY <1>2, <1>5, <2>3, <2>4
  <2>5. CASE j # 1
    <3>1. j \in 1 .. n /\ j - 1 \in 1 .. n /\ j - 1 \notin Bad
      BY <2>3, <2>5
    <3>2. h[j] = h[j - 1] \o q[j]
      BY <1>5, <2>5, <3>1
    <3>3. h[j - 1] = w[j - 1] /\ w[j] = w[j - 1] \o q[j]
      BY <3>1
    <3> QED BY <2>3, <3>2, <3>3
  <2> QED BY <2>4, <2>5
<1>7. n \in 1 .. n
  OBVIOUS
<1> QED BY <1>1, <1>6, <1>7

(* The places at which one field after the other is found                  *)
FoundFrom(u, b, n, order, a) ==
  u = [i \in 0 .. n |->
         IF i = 0 THEN a ELSE Md!UnpackField(b, u[i - 1], order[i])]

LEMMA StepsExist ==
  ASSUME NEW b, NEW n \in Nat, NEW order, NEW a
  PROVE  \E u : FoundFrom(u, b, n, order, a)
<1> DEFINE Is(u, k) == u = [i \in 0 .. k |->
                         IF i = 0 THEN a
                           ELSE Md!UnpackField(b, u[i - 1], order[i])]
           Bad == {k \in 0 .. n : ~ \E u : Is(u, k)}
<1>1. \E u : Is(u, 0)
  <2> DEFINE g == [i \in 0 .. 0 |-> a]
  <2>1. ASSUME NEW i \in 0 .. 0 PROVE i = 0
    OBVIOUS
  <2>2. g = [i \in 0 .. 0 |->
               IF i = 0 THEN a ELSE Md!UnpackField(b, g[i - 1], order[i])]
    BY <2>1
  <2>3. Is(g, 0)
    BY ONLY <2>2
  <2> QED BY ONLY <2>3
<1>2. ASSUME NEW k \in 0 .. n, k # 0, \E u : Is(u, k - 1)
      PROVE  \E u : Is(u, k)
  <2>1. PICK u : Is(u, k - 1)
    BY <1>2
  <2>2. k \in 1 .. n /\ k - 1 \in 0 .. k - 1
    BY <1>2
  <2>3. PICK t : t = Md!UnpackField(b, u[k - 1], order[k])
    OBVIOUS
  <2> DEFINE g == [i \in 0 .. k |-> IF i = k THEN t ELSE u[i]]
  <2>4. ASSUME NEW i \in 0 .. k
        PROVE  g[i] = IF i = 0 THEN a
               ELSE Md!UnpackField(b, g[i - 1], order[i])
    <3>1. CASE i = 0
      <4>1. 0 \in 0 .. k - 1 /\ i # k
        BY <2>2, <3>1
      <4>2. u[0] = a
        BY <2>1, <4>1
      <4> QED BY <3>1, <4>1, <4>2
    <3>2. CASE i = k
      <4>1. i # 0 /\ i - 1 \in 0 .. k /\ i - 1 # k
        BY <2>2, <3>2
      <4> QED BY <2>3, <3>2, <4>1
    <3>3. CASE i # 0 /\ i # k
      <4>1. i \in 0 .. k - 1 /\ i - 1 \in 0 .. k /\ i - 1 # k
        BY <2>2, <3>3
      <4>2. u[i] = Md!UnpackField(b, u[i - 1], order[i])
        BY <2>1, <3>3, <4>1
      <4>3. g[i] = u[i] /\ g[i - 1] = u[i - 1]
        BY <3>3, <4>1
      <4> HIDE DEF g
      <4> QED BY <3>3, <4>2, <4>3
    <3> QED BY <3>1, <3>2, <3>3
  <2>5. g = [i \in 0 .. k |->
               IF i = 0 THEN a ELSE Md!UnpackField(b, g[i - 1], order[i])]
    BY <2>4
  <2>6. Is(g, k)
    BY ONLY <2>5
  <2> QED BY ONLY <2>6
<1> DEFINE Some(k) == \E u : Is(u, k)
<1> HIDE DEF Is
<1>3. Bad = {}
  <2>1. SUFFICES ASSUME Bad # {} PROVE FALSE
    OBVIOUS
  <2>2. Bad \in SUBSET Nat
    OBVIOUS
  <2>3. PICK k \in Bad : \A j \in Bad : k <= j
    BY <2>1, <2>2, NatMin
  <2>4. k \in 0 .. n /\ ~ Some(k) /\ k # 0
    BY <1>1, <2>3
  <2>5. k - 1 \in 0 .. n /\ k - 1 \notin Bad
    BY <2>3, <2>4
  <2>6. Some(k - 1)
    BY <2>5
  <2> QED BY <1>2, <2>4, <2>6
<1>4. \E u : Is(u, n)
  BY <1>3
<1> QED BY <1>4 DEF Is, FoundFrom

(* A buffer of cells, and what it has in its memory                        *)
IsCells(b) ==
  /\ b = [mem |-> b.mem, len |-> b.len]
  /\ b.mem \in Seq(Cell) /\ b.len \in 0 .. Len(b.mem)
HasAt(b, at, s) ==
  at \in Nat /\ at + Len(s) <= Len(b.mem)
    /\ \A i \in 1 .. Len(s) : b.mem[at + i] = s[i]

Found(at, g) == [rc |-> "OK", at |-> at, f |-> g]
Failed(u) == u.rc \in {"BUF_SIZE", "SIZE"}

(* A number is read, or the buffer ends before.                            *)
LEMMA NumberStep ==
  ASSUME WellSized, NEW b, IsCells(b), NEW at, NEW g, NEW x \in Numbers,
         NEW value \in Int,
         HasAt(b, at, Md!Piece(x, value))
  PROVE  LET u == Md!UnpackField(b, Found(at, g), x)
             l == Len(Md!Piece(x, value))
         IN /\ l \in Nat \ {0}
            /\ \/ /\ at + l <= b.len
                  /\ u = Found(at + l, [g EXCEPT ![x] = Sent(x, value)])
               \/ at + l > b.len /\ Failed(u)
<1>1. PICK k \in Kinds : k = Md!KindOf(x)
  BY NumberPiece
<1>2. x \notin Md!TextFields /\ Md!Piece(x, value) = Md!Num(value, k)
      /\ Sent(x, value) = value
  BY <1>1, NumberPiece
<1>3. PICK w \in Nat \ {0} : w = Width[k]
  BY WidthIs
<1>4. Len(Md!Piece(x, value)) = w /\ Md!Piece(x, value)[1][1] = value
  BY <1>2, <1>3, NumIs
<1>5. b.mem[at + 1][1] = value /\ at \in Nat
  <2>1. 1 \in 1 .. w
    OBVIOUS
  <2>2. b.mem[at + 1] = Md!Piece(x, value)[1]
    BY <1>4, <2>1 DEF HasAt
  <2> QED BY <1>4, <2>2 DEF HasAt
<1>6. PICK n \in Nat : n = b.len
  BY DEF IsCells
<1>7. Md!UnpackField(b, Found(at, g), x)
        = Md!Taken(b, Found(at, g), x, at, w,
            IF Md!Has(b, at, w) THEN b.mem[at + 1][1] ELSE 0)
  BY <1>1, <1>2, <1>3 DEF Md!UnpackField, Found
<1>8. CASE at + w <= n
  <2>1. Md!Has(b, at, w)
    BY <1>5, <1>6, <1>8 DEF Md!Has
  <2>2. Md!UnpackField(b, Found(at, g), x)
          = Found(at + w, [g EXCEPT ![x] = value])
    BY <1>5, <1>7, <2>1 DEF Md!Taken, Found
  <2> QED BY <1>2, <1>4, <1>6, <1>8, <2>2
<1>9. CASE at + w > n
  <2>1. ~ Md!Has(b, at, w)
    BY <1>5, <1>6, <1>9 DEF Md!Has
  <2>2. Md!UnpackField(b, Found(at, g), x)
          = [Found(at, g) EXCEPT !.rc = "BUF_SIZE"]
    BY <1>7, <2>1 DEF Md!Taken, Found
  <2>3. Failed(Md!UnpackField(b, Found(at, g), x))
    BY <2>2 DEF Failed, Found
  <2> QED BY <1>4, <1>6, <1>9, <2>3
<1> QED BY <1>5, <1>6, <1>8, <1>9

(* A text is read as long as its length says, or the buffer ends before    *)
(* something that is behind it.                                            *)
LEMMA TextStep ==
  ASSUME WellSized, NEW b, IsCells(b), NEW at, NEW g, NEW x \in Md!TextFields,
         NEW value \in Seq(Cell), HasAt(b, at, Md!Piece(x, value))
  PROVE  LET u == Md!UnpackField(b, Found(at, g), x)
             l == Len(Md!Piece(x, value))
         IN /\ l \in Nat \ {0}
            /\ \/ /\ at + l <= b.len
                  /\ u = Found(at + l, [g EXCEPT ![x] = Sent(x, value)])
               \/ at + l >= b.len /\ Failed(u)
<1>1. PICK w \in Nat \ {0} : w = Counter(x)
  BY TextPiece
<1>2. PICK c \in Nat : c = Count(x, value) /\ c <= Len(value)
  BY TextPiece
<1>3. PICK s : s = Md!Piece(x, value)
  OBVIOUS
<1>4. /\ s \in Seq(Cell) /\ Len(s) = w + c /\ s[1][1] = c
      /\ Sent(x, value) = SubSeq(value, 1, c)
      /\ \A i \in 1 .. c : s[w + i] = value[i]
  BY <1>1, <1>2, <1>3, TextPiece
<1>5. at \in Nat /\ b.mem \in Seq(Cell) /\ at + w + c <= Len(b.mem)
      /\ \A i \in 1 .. w + c : b.mem[at + i] = s[i]
  BY <1>3, <1>4 DEF HasAt, IsCells
<1>6. PICK n \in Nat : n = b.len /\ n <= Len(b.mem)
  BY DEF IsCells
<1>7. b.mem[at + 1][1] = c
  <2>1. 1 \in 1 .. w + c
    OBVIOUS
  <2> QED BY <1>4, <1>5, <2>1
<1>8. w = Width[IF x = "name" THEN "len" ELSE "byte"]
  BY <1>1 DEF Counter
<1> DEFINE u == Md!UnpackField(b, Found(at, g), x)
<1>9. CASE at + w > n
  <2>1. ~ Md!Has(b, at, w)
    BY <1>5, <1>6, <1>9 DEF Md!Has
  <2>2. u = [Found(at, g) EXCEPT !.rc = "BUF_SIZE"]
    BY <1>8, <2>1 DEF Md!UnpackField, Found
  <2>3. Failed(u)
    BY <2>2 DEF Failed, Found
  <2> QED BY <1>3, <1>4, <1>5, <1>6, <1>9, <2>3
<1>10. CASE at + w <= n
  <2>1. Md!Has(b, at, w)
    BY <1>5, <1>6, <1>10 DEF Md!Has
  <2>2. u = IF x = "name" /\ c > n THEN [Found(at, g) EXCEPT !.rc = "SIZE"]
            ELSE Md!Taken(b, Found(at, g), x, at + w, c,
                           Md!GetMem(b, at + w, c))
    BY <1>6, <1>7, <1>8, <2>1 DEF Md!UnpackField, Found
  <2>3. CASE x = "name" /\ c > n
    <3>1. Failed(u)
      BY <2>2, <2>3 DEF Failed, Found
    <3>2. at + (w + c) >= n /\ w + c \in Nat \ {0}
      BY <1>5, <2>3
    <3>3. at + Len(s) >= b.len /\ Len(s) \in Nat \ {0}
      BY <1>4, <1>6, <3>2
    <3> QED BY <1>3, <3>1, <3>3
  <2>4. CASE ~ (x = "name" /\ c > n) /\ ~ Md!Has(b, at + w, c)
    <3>1. u = [Found(at, g) EXCEPT !.rc = "BUF_SIZE"]
      BY <2>2, <2>4 DEF Md!Taken, Found
    <3>2. Failed(u)
      BY <3>1 DEF Failed, Found
    <3>3. at + w + c >= n
      BY <1>5, <1>6, <1>10, <2>4 DEF Md!Has
    <3> QED BY <1>3, <1>4, <1>5, <1>6, <3>2, <3>3
  <2>5. CASE ~ (x = "name" /\ c > n) /\ Md!Has(b, at + w, c)
    <3>1. at + w < n /\ at + w + c <= n
      BY <1>5, <1>6, <2>5 DEF Md!Has
    <3>2. PICK y : y = Md!GetMem(b, at + w, c)
      OBVIOUS
    <3>3. y = SubSeq(b.mem, at + w + 1, at + w + c)
      <4>1. ~ (at + w >= b.len \/ at + w + c > b.len)
        BY <1>5, <1>6, <3>1
      <4> QED BY <3>2, <4>1, Zenon DEF Md!GetMem
    <3>4. y = SubSeq(value, 1, c)
      <4>1. PICK m \in Nat : m = at + w
        BY <1>5
      <4>2. y \in Seq(Cell) /\ Len(y) = c
              /\ \A i \in 1 .. c : y[i] = b.mem[m + i]
        BY <1>5, <1>6, <3>1, <3>3, <4>1
      <4>3. ASSUME NEW i \in 1 .. c PROVE b.mem[m + i] = value[i]
        <5>1. w + i \in 1 .. w + c /\ at + (w + i) = m + i
          BY <1>5, <4>1
        <5> QED BY <1>4, <1>5, <5>1
      <4>4. PICK z : z = SubSeq(value, 1, c)
        OBVIOUS
      <4>5. z \in Seq(Cell) /\ Len(z) = c /\ \A i \in 1 .. c : z[i] = value[i]
        BY <1>2, <4>4
      <4>6. y = z
        BY <4>2, <4>3, <4>5
      <4> QED BY <4>4, <4>6
    <3>5. u = Found(at + w + c, [g EXCEPT ![x] = y])
      BY <2>2, <2>5, <3>2 DEF Md!Taken, Found
    <3>6. Len(s) = w + c /\ at + (w + c) = at + w + c
      BY <1>4, <1>5
    <3> QED BY <1>3, <1>4, <1>6, <3>1, <3>4, <3>5, <3>6
  <2> QED BY <2>3, <2>4, <2>5
<1> QED BY <1>5, <1>6, <1>9, <1>10

(* A file as it is filled in                                               *)
IsData(m) ==
  /\ m.version \in 1 .. 3
  /\ m = [version |-> m.version, f |-> m.f]
     /\ DOMAIN m.f = Md!FieldsOf(m.version)
  /\ \A x \in Md!FieldsOf(m.version) : IsValue(x, m.f[x])

PieceOf(m, j) ==
  Md!Piece(Md!Layout[m.version][j], m.f[Md!Layout[m.version][j]])

(* Where the fields are: w[j] is all that is packed up to field j.         *)
Packed(m, n, w) ==
  /\ n \in Nat \ {0} /\ w \in [0 .. n -> Seq(Cell)] /\ w[0] = << >>
  /\ \A j \in 1 .. n :
       /\ PieceOf(m, j) \in Seq(Cell)
       /\ Len(w[j]) = Len(w[j - 1]) + Len(PieceOf(m, j))
       /\ \A k \in 1 .. Len(PieceOf(m, j)) : w[j][Len(w[j - 1]) + k]
          = PieceOf(m, j)[k]
  /\ \A i \in 0 .. n :
       /\ Len(w[i]) <= Len(w[n])
       /\ \A k \in 1 .. Len(w[i]) : w[n][k] = w[i][k]

LEMMA PieceIs ==
  ASSUME WellSized, NEW x \in Md!TextFields \cup Numbers, NEW value,
         IsValue(x, value)
  PROVE  Md!Piece(x, value) \in Seq(Cell)
         /\ Len(Md!Piece(x, value)) \in Nat \ {0}
<1>1. CASE x \in Md!TextFields
  <2>1. value \in Seq(Cell)
    BY <1>1 DEF IsValue
  <2>2. Md!Piece(x, value) \in Seq(Cell)
        /\ Len(Md!Piece(x, value)) = Counter(x) + Count(x, value)
        /\ Counter(x) \in Nat \ {0} /\ Count(x, value) \in Nat
    BY <1>1, <2>1, TextPiece
  <2> QED BY <2>2
<1>2. CASE x \notin Md!TextFields
  <2>1. x \in Numbers /\ value \in Int
    BY <1>2 DEF IsValue
  <2>2. Md!KindOf(x) \in Kinds
          /\ Md!Piece(x, value) = Md!Num(value, Md!KindOf(x))
    BY <2>1, NumberPiece
  <2> QED BY <2>1, <2>2, NumIs
<1> QED BY <1>1, <1>2

LEMMA PackIs ==
  ASSUME WellSized, NEW m, IsData(m)
  PROVE  /\ Md!Pack(m) \in Seq(Cell)
         /\ \E n \in Nat \ {0} : \E w :
              /\ n = Len(Md!Layout[m.version]) /\ Packed(m, n, w)
              /\ Len(Md!Pack(m)) = 1 + Len(w[n])
                 /\ Md!Pack(m)[1][1] = m.version
              /\ \A k \in 1 .. Len(w[n]) : Md!Pack(m)[1 + k] = w[n][k]
<1>1. PICK v \in 1 .. 3 : v = m.version
  BY DEF IsData
<1>2. PICK o : o = Md!Layout[v]
  OBVIOUS
<1>3. PICK n \in Nat \ {0} :
        /\ Len(o) = n /\ DOMAIN o = 1 .. n
        /\ \A i \in 1 .. n : o[i] \in Md!TextFields \cup Numbers
        /\ \A i \in 1 .. n : o[i] \in Md!FieldsOf(v)
  BY <1>2, LayoutIs
<1> DEFINE q == [j \in DOMAIN o |-> Md!Piece(o[j], m.f[o[j]])]
<1>4. ASSUME NEW j \in 1 .. n
      PROVE  q[j] \in Seq(Cell) /\ q[j] = PieceOf(m, j)
  <2>1. o[j] \in Md!FieldsOf(v) /\ o[j] \in Md!TextFields \cup Numbers
    BY <1>3
  <2>2. IsValue(o[j], m.f[o[j]])
    BY <1>1, <2>1 DEF IsData
  <2>3. q[j] = Md!Piece(o[j], m.f[o[j]])
    BY <1>3
  <2>4. q[j] = PieceOf(m, j)
    BY <1>1, <1>2, <2>3 DEF PieceOf
  <2> QED BY <2>1, <2>2, <2>3, <2>4, PieceIs
<1>5. Len(q) = n /\ Md!Pack(m) = Md!Num(v, "byte") \o Md!FlattenSeq(q)
  <2>1. q \in [1 .. n -> Seq(Cell)]
    BY <1>3, <1>4
  <2>2. Len(q) = n
    BY <2>1
  <2>3. Md!Pack(m) = Md!Num(v, "byte") \o Md!FlattenSeq(q)
    BY <1>1, <1>2 DEF Md!Pack
  <2> QED BY <2>2, <2>3
<1> HIDE DEF q
<1>6. PICK w \in [0 .. n -> Seq(Cell)] :
        w[0] = << >> /\ \A j \in 1 .. n : w[j] = w[j - 1] \o q[j]
  BY <1>4, JoinsExist
<1>7. Md!FlattenSeq(q) = w[n]
  BY ONLY <1>3, <1>4, <1>5, <1>6, JoinedIs
<1>8. /\ \A j \in 1 .. n :
           /\ Len(w[j]) = Len(w[j - 1]) + Len(q[j])
           /\ \A k \in 1 .. Len(w[j - 1]) : w[j][k] = w[j - 1][k]
           /\ \A k \in 1 .. Len(q[j]) : w[j][Len(w[j - 1]) + k] = q[j][k]
      /\ \A i \in 0 .. n :
           /\ Len(w[i]) <= Len(w[n])
           /\ \A k \in 1 .. Len(w[i]) : w[n][k] = w[i][k]
  <2>1. n \in Nat /\ \A j \in 1 .. n : q[j] \in Seq(Cell)
    BY <1>4
  <2>2. \A j \in 1 .. n : w[j] = w[j - 1] \o q[j]
    BY <1>6
  <2>3. PICK p : p = q
    OBVIOUS
  <2>4. Chained(n, p, w)
    BY <2>1, <2>2, <2>3 DEF Chained
  <2>5. Grown(n, p, w)
    BY <2>4, JoinsGrow
  <2>6. /\ \A j \in 1 .. n :
             /\ Len(w[j]) = Len(w[j - 1]) + Len(p[j])
             /\ \A k \in 1 .. Len(w[j - 1]) : w[j][k] = w[j - 1][k]
             /\ \A k \in 1 .. Len(p[j]) : w[j][Len(w[j - 1]) + k] = p[j][k]
        /\ \A i \in 0 .. n :
             /\ Len(w[i]) <= Len(w[n])
             /\ \A k \in 1 .. Len(w[i]) : w[n][k] = w[i][k]
    BY <2>5 DEF Grown
  <2> QED BY ONLY <2>3, <2>6
<1>9. Packed(m, n, w)
  <2>1. \A j \in 1 .. n :
          /\ PieceOf(m, j) \in Seq(Cell)
          /\ Len(w[j]) = Len(w[j - 1]) + Len(PieceOf(m, j))
          /\ \A k \in 1 .. Len(PieceOf(m, j)) :
               w[j][Len(w[j - 1]) + k] = PieceOf(m, j)[k]
    <3>1. ASSUME NEW j \in 1 .. n
          PROVE  /\ PieceOf(m, j) \in Seq(Cell)
                 /\ Len(w[j]) = Len(w[j - 1]) + Len(PieceOf(m, j))
                 /\ \A k \in 1 .. Len(PieceOf(m, j)) :
                      w[j][Len(w[j - 1]) + k] = PieceOf(m, j)[k]
      <4>1. q[j] \in Seq(Cell) /\ q[j] = PieceOf(m, j)
        BY <1>4
      <4>2. /\ Len(w[j]) = Len(w[j - 1]) + Len(q[j])
            /\ \A k \in 1 .. Len(q[j]) : w[j][Len(w[j - 1]) + k] = q[j][k]
        BY <1>8
      <4> QED BY ONLY <4>1, <4>2
    <3> QED BY <3>1
  <2>2. n \in Nat \ {0} /\ w \in [0 .. n -> Seq(Cell)] /\ w[0] = << >>
    BY <1>6
  <2>3. \A i \in 0 .. n : /\ Len(w[i]) <= Len(w[n])
                         /\ \A k \in 1 .. Len(w[i]) : w[n][k] = w[i][k]
    BY <1>8
  <2> QED BY ONLY <2>1, <2>2, <2>3 DEF Packed
<1>10. PICK s : s = Md!Num(v, "byte")
  OBVIOUS
<1>11. s \in Seq(Cell) /\ Len(s) = 1 /\ s[1][1] = v
  <2>1. "byte" \in Kinds
    BY DEF Kinds
  <2>2. v \in Int
    OBVIOUS
  <2>3. Width["byte"] = 1
    BY WidthIs
  <2>4. LET p == Md!Num(v, "byte")
        IN p \in Seq(Cell) /\ Len(p) = Width["byte"] /\ p[1][1] = v
    BY ONLY WellSized, <2>1, <2>2, NumIs
  <2> QED BY ONLY <1>10, <2>3, <2>4
<1>12. PICK t \in Seq(Cell) : t = w[n]
  <2>1. n \in 0 .. n
    OBVIOUS
  <2> QED BY <1>6, <2>1
<1>13. PICK l \in Nat : l = Len(t)
  OBVIOUS
<1>14. PICK y : y = s \o t
  OBVIOUS
<1>15. /\ s \o t \in Seq(Cell) /\ Len(s \o t) = Len(s) + Len(t)
       /\ \A i \in 1 .. Len(s) + Len(t) :
            (s \o t)[i] = IF i <= Len(s) THEN s[i] ELSE t[i - Len(s)]
  BY <1>11, ConcatProperties
<1>16. /\ y \in Seq(Cell) /\ Len(y) = 1 + l
       /\ \A i \in 1 .. 1 + l : y[i] = IF i <= 1 THEN s[i] ELSE t[i - 1]
  BY ONLY <1>11, <1>13, <1>14, <1>15
<1>17. y[1] = s[1]
  <2>1. 1 \in 1 .. 1 + l
    OBVIOUS
  <2> QED BY <1>16, <2>1
<1>18. ASSUME NEW k \in 1 .. l PROVE y[1 + k] = t[k]
  <2>1. 1 + k \in 1 .. 1 + l /\ ~ 1 + k <= 1 /\ 1 + k - 1 = k
    OBVIOUS
  <2> QED BY <1>16, <2>1
<1>19. y = Md!Pack(m)
  BY <1>5, <1>7, <1>10, <1>12, <1>14
<1>20. /\ n = Len(Md!Layout[m.version]) /\ Packed(m, n, w)
       /\ Len(Md!Pack(m)) = 1 + Len(w[n]) /\ Md!Pack(m)[1][1] = m.version
       /\ \A k \in 1 .. Len(w[n]) : Md!Pack(m)[1 + k] = w[n][k]
  BY <1>1, <1>2, <1>3, <1>9, <1>11, <1>12, <1>13, <1>16, <1>17, <1>18, <1>19
<1> QED BY ONLY <1>3, <1>16, <1>19, <1>20

(* What is read of the fields 1 .. i                                       *)
Read(g, i, m) ==
  /\ g = [x \in Md!FieldsOf(m.version) |-> g[x]]
  /\ \A j \in 1 .. i : g[Md!Layout[m.version][j]] =
       Sent(Md!Layout[m.version][j], m.f[Md!Layout[m.version][j]])

(* After the fields 1 .. i were read, or one of them could not be          *)
ReadTo(u, i, m, n, w, off, b) ==
  \/ \E g : /\ u = Found(off + 1 + Len(w[i]), g)
            /\ off + 1 + Len(w[i]) <= b.len
            /\ Read(g, i, m)
  \/ Failed(u) /\ off + 1 + Len(w[n]) > b.len

(* Fields are read one after the other; if one cannot be, the buffer ends  *)
(* before the last has ended.                                              *)
LEMMA FieldStep ==
  ASSUME WellSized, NEW m, IsData(m), NEW n, NEW w, Packed(m, n, w),
         n = Len(Md!Layout[m.version]), NEW b, IsCells(b), NEW off \in Nat,
         off + 1 + Len(w[n]) <= Len(b.mem),
         \A k \in 1 .. Len(w[n]) : b.mem[off + 1 + k] = w[n][k],
         NEW i \in 1 .. n, NEW g, Read(g, i - 1, m)
  PROVE  ReadTo(Md!UnpackField(b, Found(off + 1 + Len(w[i - 1]), g),
                              Md!Layout[m.version][i]), i, m, n, w, off, b)
<1>1. PICK v \in 1 .. 3 : v = m.version
  BY DEF IsData
<1>2. PICK o : o = Md!Layout[v]
  OBVIOUS
<1>3. /\ n \in Nat \ {0} /\ Len(o) = n
      /\ \A j \in 1 .. n : o[j] \in Md!TextFields \cup Numbers
      /\ o[n] \notin Md!TextFields /\ \A j \in 1 .. n : o[j] \in Md!FieldsOf(v)
  BY <1>1, <1>2, LayoutIs
<1>4. PICK x : x = o[i]
  OBVIOUS
<1>5. x \in Md!TextFields \cup Numbers /\ x \in Md!FieldsOf(v)
  BY <1>3, <1>4
<1>6. IsValue(x, m.f[x])
  BY <1>1, <1>5 DEF IsData
<1>7. PICK value : value = m.f[x]
  OBVIOUS
<1>8. PICK s : s = Md!Piece(x, value)
  OBVIOUS
<1>9. s = PieceOf(m, i)
  BY <1>1, <1>2, <1>4, <1>7, <1>8 DEF PieceOf
<1>10. PICK l \in Nat \ {0} : l = Len(s)
  BY <1>5, <1>6, <1>7, <1>8, PieceIs
<1>11. i \in 0 .. n /\ i - 1 \in 0 .. n /\ n \in 0 .. n /\ i \in Nat
  BY <1>3
<1>12. PICK c \in Nat : c = Len(w[i - 1])
  <2>1. w[i - 1] \in Seq(Cell)
    BY <1>11 DEF Packed
  <2> QED BY <2>1
<1>13. PICK d \in Nat : d = Len(w[n])
  <2>1. w[n] \in Seq(Cell)
    BY <1>11 DEF Packed
  <2> QED BY <2>1
<1>14. /\ Len(w[i]) = c + l /\ c + l <= d
       /\ \A k \in 1 .. l : w[n][c + k] = s[k]
  <2>1. Len(w[i]) = c + l /\ \A k \in 1 .. l : w[i][c + k] = s[k]
    BY <1>9, <1>10, <1>12 DEF Packed
  <2>2. c + l <= d /\ \A k \in 1 .. c + l : w[n][k] = w[i][k]
    <3>1. Len(w[i]) <= Len(w[n]) /\ \A k \in 1 .. Len(w[i]) : w[n][k] = w[i][k]
      BY <1>11 DEF Packed
    <3> QED BY <1>13, <2>1, <3>1
  <2>3. ASSUME NEW k \in 1 .. l PROVE w[n][c + k] = s[k]
    <3>1. c + k \in 1 .. c + l
      OBVIOUS
    <3> QED BY <2>1, <2>2, <3>1
  <2> QED BY <2>1, <2>2, <2>3
<1>15. PICK at \in Nat : at = off + 1 + c
  OBVIOUS
<1>16. HasAt(b, at, s)
  <2>1. at + l <= Len(b.mem)
    <3>1. PICK r \in Nat : r = Len(b.mem)
      <4>1. b.mem \in Seq(Cell)
        BY DEF IsCells
      <4> QED BY ONLY <4>1
    <3>2. off + 1 + d <= r
      BY <1>13, <3>1
    <3> QED BY <1>14, <1>15, <3>1, <3>2
  <2>2. ASSUME NEW k \in 1 .. l PROVE b.mem[at + k] = s[k]
    <3>1. c + k \in 1 .. d /\ off + 1 + (c + k) = at + k
      BY <1>14, <1>15
    <3> QED BY <1>13, <1>14, <3>1
  <2> QED BY <1>10, <2>1, <2>2 DEF HasAt
<1>17. PICK e \in Nat : e = b.len
  BY DEF IsCells
<1>18. PICK u : u = Md!UnpackField(b, Found(at, g), x)
  OBVIOUS
<1>19. at + l = off + 1 + (c + l)
  BY <1>15
<1>20. CASE at + l <= e /\ u = Found(at + l, [g EXCEPT ![x] = Sent(x, value)])
  <2>1. PICK h : h = [g EXCEPT ![x] = Sent(x, value)]
    OBVIOUS
  <2>2. DOMAIN g = Md!FieldsOf(v) /\ h = [y \in Md!FieldsOf(v) |-> h[y]]
    BY <1>1, <2>1 DEF Read
  <2>3. ASSUME NEW j \in 1 .. i PROVE h[o[j]] = Sent(o[j], m.f[o[j]])
    <3>1. j \in 1 .. n
      BY <1>3
    <3>2. o[j] \in DOMAIN g
      BY <1>3, <2>2, <3>1
    <3>3. CASE o[j] = x
      BY <1>7, <2>1, <3>2, <3>3
    <3>4. CASE o[j] # x
      <4>1. j \in 1 .. i - 1
        BY <1>4, <1>11, <3>4
      <4>2. g[o[j]] = Sent(o[j], m.f[o[j]])
        BY <1>1, <1>2, <4>1 DEF Read
      <4> QED BY <2>1, <3>2, <3>4, <4>2
    <3> QED BY <3>3, <3>4
  <2>4. u = Found(off + 1 + Len(w[i]), h) /\ off + 1 + Len(w[i]) <= b.len
    BY <1>14, <1>17, <1>19, <1>20, <2>1
  <2>5. \A j \in 1 .. i : h[Md!Layout[m.version][j]] =
          Sent(Md!Layout[m.version][j], m.f[Md!Layout[m.version][j]])
    BY <1>1, <1>2, <2>3
  <2>6. h = [y \in Md!FieldsOf(m.version) |-> h[y]]
    BY <1>1, <2>2
  <2>7. u = Md!UnpackField(b, Found(off + 1 + Len(w[i - 1]), g),
        Md!Layout[m.version][i])
    BY <1>1, <1>2, <1>4, <1>12, <1>15, <1>18
  <2> QED BY ONLY <2>4, <2>5, <2>6, <2>7, Zenon DEF ReadTo, Read
<1>21. CASE Failed(u) /\ off + 1 + d > e
  <2>1. u = Md!UnpackField(b, Found(off + 1 + Len(w[i - 1]), g),
        Md!Layout[m.version][i])
    BY <1>1, <1>2, <1>4, <1>12, <1>15, <1>18
  <2>2. Failed(u) /\ off + 1 + Len(w[n]) > b.len
    BY <1>13, <1>17, <1>21
  <2> QED BY ONLY <2>1, <2>2, Zenon DEF ReadTo
<1>22. CASE x \in Md!TextFields
  <2>1. value \in Seq(Cell)
    BY <1>6, <1>7, <1>22 DEF IsValue
  <2>2. \/ at + l <= e /\ u = Found(at + l, [g EXCEPT ![x] = Sent(x, value)])
        \/ at + l >= e /\ Failed(u)
    BY <1>8, <1>10, <1>16, <1>17, <1>18, <1>22, <2>1, TextStep
  <2>3. ASSUME at + l >= e PROVE off + 1 + d > e
    <3>1. i # n
      BY <1>3, <1>4, <1>22
    <3>2. i + 1 \in 1 .. n /\ i + 1 \in 0 .. n /\ i + 1 - 1 = i
      BY <1>3, <1>11, <3>1
    <3>3. PICK j \in 1 .. n : j = i + 1
      BY <3>2
    <3>4. o[j] \in Md!TextFields \cup Numbers /\ o[j] \in Md!FieldsOf(v)
      BY <1>3
    <3>5. IsValue(o[j], m.f[o[j]])
      BY <1>1, <3>4 DEF IsData
    <3>6. Len(PieceOf(m, j)) \in Nat \ {0}
      BY <1>1, <1>2, <3>4, <3>5, PieceIs DEF PieceOf
    <3>7. PICK r \in Nat \ {0} : r = Len(PieceOf(m, j))
      BY <3>6
    <3>8. j - 1 = i /\ j \in 0 .. n
      BY <3>2, <3>3
    <3>9. Len(w[j]) = Len(w[i]) + r
      BY <3>7, <3>8 DEF Packed
    <3>10. Len(w[j]) <= d
      BY <1>13, <3>8 DEF Packed
    <3>11. c + l + r <= d
      BY <1>14, <3>9, <3>10
    <3>12. PICK z \in Nat : z = c + l
      OBVIOUS
    <3>13. z + r <= d /\ off + 1 + z >= e
      BY <1>19, <2>3, <3>11, <3>12
    <3> QED BY ONLY <3>13, z \in Nat, r \in Nat \ {0}, d \in Nat, e \in Nat,
        off \in Nat
  <2> QED BY <1>20, <1>21, <2>2, <2>3
<1>23. CASE x \notin Md!TextFields
  <2>1. x \in Numbers /\ value \in Int
    BY <1>5, <1>6, <1>7, <1>23 DEF IsValue
  <2>2. \/ at + l <= e /\ u = Found(at + l, [g EXCEPT ![x] = Sent(x, value)])
        \/ at + l > e /\ Failed(u)
    BY <1>8, <1>10, <1>16, <1>17, <1>18, <2>1, NumberStep
  <2>3. ASSUME at + l > e PROVE off + 1 + d > e
    BY <1>14, <1>19, <2>3
  <2> QED BY <1>20, <1>21, <2>2, <2>3
<1> QED BY <1>22, <1>23

(* What is unpacked is what was packed there, if the buffer holds it.      *)
LEMMA UnpackIs ==
  ASSUME WellSized, NEW m, IsData(m), NEW b, IsCells(b), NEW off \in Nat,
         HasAt(b, off, Md!Pack(m))
  PROVE  IF off + Len(Md!Pack(m)) <= b.len
         THEN Md!Unpack(b, off) = [rc |-> "OK", md |-> Md!Arrived(m)]
         ELSE /\ Md!Unpack(b, off).rc \in {"BUF_SIZE", "SIZE"}
              /\ Md!Unpack(b, off).md = Md!NoData
<1>1. PICK v \in 1 .. 3 : v = m.version
  BY DEF IsData
<1> DEFINE Lies(n, w) ==
             /\ n = Len(Md!Layout[m.version]) /\ Packed(m, n, w)
             /\ Len(Md!Pack(m)) = 1 + Len(w[n]) /\ Md!Pack(m)[1][1] = m.version
             /\ \A k \in 1 .. Len(w[n]) : Md!Pack(m)[1 + k] = w[n][k]
<1>2. PICK n \in Nat \ {0} : \E w : Lies(n, w)
  BY PackIs
<1>3. PICK w : Lies(n, w)
  BY <1>2
<1>4. PICK d \in Nat : d = Len(w[n])
  <2>1. w[n] \in Seq(Cell)
    <3>1. w \in [0 .. n -> Seq(Cell)] /\ n \in 0 .. n
      BY <1>3 DEF Packed
    <3> QED BY <3>1
  <2> QED BY <2>1
<1>5. PICK e \in Nat : e = b.len
  BY DEF IsCells
<1>6. Len(Md!Pack(m)) = 1 + d /\ off + 1 + d <= Len(b.mem)
  <2>1. Len(Md!Pack(m)) = 1 + d
    BY <1>3, <1>4
  <2>2. PICK r \in Nat : r = Len(b.mem)
    BY DEF IsCells
  <2>3. off + (1 + d) <= r
    BY <2>1, <2>2 DEF HasAt
  <2>4. off + 1 + d <= r
    BY <2>3
  <2> QED BY <2>1, <2>2, <2>4
<1>7. b.mem[off + 1][1] = v
  <2>1. 1 \in 1 .. 1 + d
    OBVIOUS
  <2>2. b.mem[off + 1] = Md!Pack(m)[1]
    BY <1>6, <2>1 DEF HasAt
  <2> QED BY <1>1, <1>3, <2>2
<1>8. ASSUME NEW k \in 1 .. d PROVE b.mem[off + 1 + k] = w[n][k]
  <2>1. 1 + k \in 1 .. 1 + d /\ off + (1 + k) = off + 1 + k
    OBVIOUS
  <2>2. b.mem[off + (1 + k)] = Md!Pack(m)[1 + k]
    BY <1>6, <2>1 DEF HasAt
  <2> QED BY <1>3, <1>4, <2>1, <2>2
<1>9. CASE ~ Md!Has(b, off, 1)
  <2>1. Md!Unpack(b, off) = [rc |-> "BUF_SIZE", md |-> Md!NoData]
    BY <1>9 DEF Md!Unpack
  <2>2. ~ (off + (1 + d) <= e)
    BY <1>5, <1>9 DEF Md!Has
  <2> QED BY <1>5, <1>6, <2>1, <2>2
<1>10. CASE Md!Has(b, off, 1)
  <2>1. PICK o : o = Md!Layout[v]
    OBVIOUS
  <2>2. Len(o) = n /\ v \in DOMAIN Md!Layout
    <3>1. DOMAIN Md!Layout = 1 .. 3
      BY DEF Md!Layout
    <3> QED BY <1>1, <1>3, <2>1, <3>1
  <2>3. PICK a : a = [rc |-> "OK", at |-> off + 1, f |-> Md!Fresh(v).f]
    OBVIOUS
  <2> DEFINE IsRun(f) == f = [i \in 0 .. n |->
               IF i = 0 THEN a ELSE Md!UnpackField(b, f[i - 1], o[i])]
             u == CHOOSE f : IsRun(f)
  <2>4. Md!Unpack(b, off) =
          [rc |-> u[n].rc,
           md |-> IF u[n].rc = "OK" THEN [version |-> v, f |-> u[n].f]
             ELSE Md!NoData]
    BY <1>7, <1>10, <2>1, <2>2, <2>3 DEF Md!Unpack
  <2>5. \E f : IsRun(f)
    <3>1. n \in Nat
      OBVIOUS
    <3>2. PICK f : FoundFrom(f, b, n, o, a)
      BY <3>1, StepsExist
    <3>3. IsRun(f)
      BY <3>2 DEF FoundFrom
    <3> QED BY ONLY <3>3
  <2>6. IsRun(u)
    BY <2>5
  <2>7. \A i \in 0 .. n : u[i] = IF i = 0 THEN a
          ELSE Md!UnpackField(b, u[i - 1], o[i])
    <3> HIDE DEF u
    <3> QED BY <2>6
  <2> HIDE DEF u
  <2>8. ReadTo(u[0], 0, m, n, w, off, b)
    <3>1. PICK g : g = Md!Fresh(v).f
      OBVIOUS
    <3>2. Len(w[0]) = 0
      BY <1>3, EmptySeq DEF Packed
    <3>3. g = [x \in Md!FieldsOf(m.version) |-> g[x]]
      BY <1>1, <3>1 DEF Md!Fresh
    <3>4. 0 \in 0 .. n
      OBVIOUS
    <3>5. u[0] = Found(off + 1 + Len(w[0]), g)
      BY <2>3, <2>7, <3>1, <3>2, <3>4 DEF Found
    <3>6. off + 1 + Len(w[0]) <= b.len
      BY <1>5, <1>10, <3>2 DEF Md!Has
    <3>7. Read(g, 0, m)
      BY <3>3 DEF Read
    <3> QED BY ONLY <3>3, <3>5, <3>6, <3>7, Zenon DEF ReadTo
  <2>9. ASSUME NEW i \in 1 .. n, ReadTo(u[i - 1], i - 1, m, n, w, off, b)
        PROVE  ReadTo(u[i], i, m, n, w, off, b)
    <3>1. i \in 0 .. n /\ i # 0
      OBVIOUS
    <3>2. u[i] = Md!UnpackField(b, u[i - 1], Md!Layout[m.version][i])
      BY <1>1, <2>1, <2>7, <3>1
    <3>3. CASE Failed(u[i - 1]) /\ off + 1 + Len(w[n]) > b.len
      <4>1. u[i] = u[i - 1]
        BY <3>2, <3>3 DEF Failed, Md!UnpackField
      <4> QED BY <3>3, <4>1 DEF ReadTo
    <3>4. ASSUME NEW g, u[i - 1] = Found(off + 1 + Len(w[i - 1]), g),
                 Read(g, i - 1, m)
          PROVE  ReadTo(u[i], i, m, n, w, off, b)
      <4>1. off + 1 + Len(w[n]) <= Len(b.mem)
        BY <1>4, <1>6
      <4>2. \A k \in 1 .. Len(w[n]) : b.mem[off + 1 + k] = w[n][k]
        BY <1>4, <1>8
      <4>3. n = Len(Md!Layout[m.version]) /\ Packed(m, n, w)
        BY <1>3
      <4>4. ReadTo(Md!UnpackField(b, Found(off + 1 + Len(w[i - 1]), g),
                                 Md!Layout[m.version][i]), i, m, n, w, off, b)
        BY <3>4, <4>1, <4>2, <4>3, FieldStep
      <4> QED BY <3>2, <3>4, <4>4
    <3> QED BY <2>9, <3>3, <3>4 DEF ReadTo
  <2> DEFINE Right(i) == ReadTo(u[i], i, m, n, w, off, b)
             Bad == {i \in 0 .. n : ~ Right(i)}
  <2>10. Bad = {}
    <3>1. SUFFICES ASSUME Bad # {} PROVE FALSE
      OBVIOUS
    <3>2. Right(0)
      BY <2>8
    <3>3. \A i \in 1 .. n : Right(i - 1) => Right(i)
      BY <2>9
    <3> HIDE DEF Right
    <3>4. Bad \in SUBSET Nat
      OBVIOUS
    <3>5. PICK i \in Bad : \A k \in Bad : i <= k
      BY <3>1, <3>4, NatMin
    <3>6. i \in 1 .. n /\ ~ Right(i)
      BY <3>2, <3>5
    <3>7. i - 1 \in 0 .. n /\ i - 1 \notin Bad
      BY <3>5, <3>6
    <3> QED BY <3>3, <3>6, <3>7
  <2>11. ReadTo(u[n], n, m, n, w, off, b)
    <3> HIDE DEF u
    <3>1. n \in 0 .. n
      OBVIOUS
    <3> QED BY <2>10, <3>1
  <2>12. CASE Failed(u[n]) /\ off + 1 + Len(w[n]) > b.len
    <3>1. off + 1 + d > e
      BY <1>4, <1>5, <2>12
    <3>2. ~ (off + (1 + d) <= e)
      BY <3>1
    <3>3. Md!Unpack(b, off).rc = u[n].rc /\ Md!Unpack(b, off).md = Md!NoData
      BY <2>4, <2>12 DEF Failed
    <3> QED BY <1>5, <1>6, <2>12, <3>2, <3>3 DEF Failed
  <2>13. ASSUME NEW g, u[n] = Found(off + 1 + Len(w[n]), g),
                off + 1 + Len(w[n]) <= b.len,
                Read(g, n, m)
         PROVE  /\ off + Len(Md!Pack(m)) <= b.len
                /\ Md!Unpack(b, off) = [rc |-> "OK", md |-> Md!Arrived(m)]
    <3>1. off + 1 + d <= e
      BY <1>4, <1>5, <2>13
    <3>2. off + Len(Md!Pack(m)) <= b.len
      BY <1>5, <1>6, <3>1
    <3>3. ASSUME NEW x \in Md!FieldsOf(v) PROVE g[x] = Sent(x, m.f[x])
      <4>1. PICK j \in 1 .. n : x = Md!Layout[v][j]
        BY <2>1, <2>2, LayoutIs
      <4> QED BY <1>1, <2>13, <4>1 DEF Read
    <3>4. DOMAIN m.f = Md!FieldsOf(v) /\ m = [version |-> v, f |-> m.f]
      BY <1>1 DEF IsData
    <3>5. Md!Arrived(m).f = g
      <4>1. Md!Arrived(m).f = [x \in Md!FieldsOf(v) |-> Sent(x, m.f[x])]
        BY <3>4 DEF Md!Arrived, Sent
      <4>2. g = [x \in Md!FieldsOf(v) |-> g[x]]
        BY <1>1, <2>13 DEF Read
      <4> QED BY <3>3, <4>1, <4>2
    <3>6. Md!Arrived(m) = [version |-> v, f |-> Md!Arrived(m).f]
      <4>1. PICK k : Md!Arrived(m) = [m EXCEPT !.f = k]
        BY DEF Md!Arrived
      <4>2. Md!Arrived(m) = [version |-> v, f |-> k]
        BY <3>4, <4>1
      <4> QED BY <4>2
    <3>7. u[n].rc = "OK" /\ u[n].f = g
      BY <2>13 DEF Found
    <3>8. Md!Unpack(b, off) = [rc |-> "OK", md |-> [version |-> v, f |-> g]]
      BY <2>4, <3>7
    <3> QED BY <3>2, <3>5, <3>6, <3>8
  <2> QED BY <2>11, <2>12, <2>13 DEF ReadTo
<1> QED BY <1>9, <1>10

LEMMA LargerIs ==
  ASSUME NEW i \in Nat, NEW j \in Nat
  PROVE  Md!Max({i, j}) = IF i <= j THEN j ELSE i
<1>1. PICK k \in {i, j} : \A l \in {i, j} : k >= l
  OBVIOUS
<1>2. Md!Max({i, j}) \in {i, j} /\ \A l \in {i, j} : Md!Max({i, j}) >= l
  BY <1>1 DEF Md!Max
<1> QED BY <1>2

(* What is put into a buffer is there, and what was before it stays.       *)
LEMMA CpyIs ==
  ASSUME NEW b, IsCells(b), NEW off \in Nat, NEW s \in Seq(Cell), Len(s) # 0
  PROVE  LET c == Md!Cpy(b, off, s)
         IN /\ IsCells(c) /\ HasAt(c, off, s)
            /\ Len(b.mem) <= Len(c.mem)
            /\ \A i \in 1 .. Len(b.mem) : i <= off => c.mem[i] = b.mem[i]
<1>1. PICK l \in Nat \ {0} : l = Len(s)
  OBVIOUS
<1>2. PICK r \in Nat : r = Len(b.mem)
  BY DEF IsCells
<1>3. PICK e \in Nat : e = b.len /\ e <= r
  BY <1>2 DEF IsCells
<1>4. PICK g : g = Md!Grow(b, off + l)
  OBVIOUS
<1>5. PICK t \in Nat : t = IF off + l > r THEN off + l ELSE r
  OBVIOUS
<1>6. /\ g.mem \in [1 .. t -> Cell] /\ g.len \in 0 .. t
      /\ \A i \in 1 .. r : g.mem[i] = b.mem[i]
  <2>1. b.mem \in Seq(Cell) /\ Md!Size(b) = r
    BY <1>2 DEF IsCells, Md!Size
  <2>2. b.mem \in [1 .. r -> Cell]
    BY <1>2, <2>1
  <2>3. CASE off + l <= r
    <3>1. g = b /\ t = r
      BY <1>4, <1>5, <2>1, <2>3 DEF Md!Grow
    <3> QED BY <1>3, <2>2, <3>1
  <2>4. CASE off + l > r /\ r = 0
    <3>1. g = Md!Made(off + l) /\ t = off + l
      BY <1>4, <1>5, <2>1, <2>4 DEF Md!Grow, Md!Resize
    <3>2. g.mem = [i \in 1 .. t |-> <<0, 0>>] /\ g.len = 0
      BY <3>1 DEF Md!Made
    <3>3. <<0, 0>> \in Cell
      BY DEF Cell
    <3>4. g.mem \in [1 .. t -> Cell]
      BY <3>2, <3>3
    <3> QED BY <2>4, <3>2, <3>4
  <2>5. CASE off + l > r /\ r # 0
    <3>1. t = off + l
      BY <1>5, <2>5
    <3>2. g = [mem |-> [i \in 1 .. t |->
                        IF i <= r THEN b.mem[i] ELSE <<-1, -1>>],
               len |-> Md!Min({t, e})]
      BY <1>3, <1>4, <2>1, <2>5, <3>1 DEF Md!Grow, Md!Resize
    <3>3. Md!Min({t, e}) = e
      <4>1. e \in {t, e} /\ \A k \in {t, e} : e <= k
        BY <1>3, <1>5
      <4>2. Md!Min({t, e}) \in {t, e} /\ \A k \in {t, e} : Md!Min({t, e}) <= k
        BY <4>1 DEF Md!Min
      <4> QED BY <4>1, <4>2
    <3>4. <<-1, -1>> \in Cell
      BY DEF Cell
    <3>5. \A i \in 1 .. t : (IF i <= r THEN b.mem[i] ELSE <<-1, -1>>) \in Cell
      BY <2>2, <3>4
    <3>6. g.mem = [i \in 1 .. t |-> IF i <= r THEN b.mem[i] ELSE <<-1, -1>>]
          /\ g.len = e
      BY <3>2, <3>3
    <3>7. g.mem \in [1 .. t -> Cell]
      BY <3>5, <3>6
    <3>8. \A i \in 1 .. r : g.mem[i] = b.mem[i]
      BY <2>5, <3>1, <3>6
    <3> QED BY <1>3, <1>5, <2>5, <3>6, <3>7, <3>8
  <2> QED BY <2>3, <2>4, <2>5
<1>7. Len(g.mem) = t
  BY <1>6
<1>8. PICK c : c = Md!Cpy(b, off, s)
  OBVIOUS
<1>9. PICK k \in 0 .. t : k = g.len
  BY <1>6
<1>10. c = [mem |-> [i \in 1 .. t |->
                     IF i - off \in 1 .. l THEN s[i - off] ELSE g.mem[i]],
            len |-> Md!Max({k, off + l})]
  <2>1. DOMAIN s = 1 .. l /\ s # << >>
    BY <1>1, EmptySeq
  <2>2. Md!Size(g) = t
    BY <1>7 DEF Md!Size
  <2> QED BY <1>1, <1>4, <1>8, <1>9, <2>1, <2>2 DEF Md!Cpy, Md!Put
<1>11. Md!Max({k, off + l}) \in 0 .. t
  <2>1. k \in Nat /\ off + l \in Nat /\ off + l <= t
    BY <1>5
  <2> QED BY <2>1, LargerIs
<1>12. c.mem = [i \in 1 .. t |->
                  IF i - off \in 1 .. l THEN s[i - off] ELSE g.mem[i]]
       /\ c.len \in 0 .. t
  BY <1>10, <1>11
<1>13. c.mem \in [1 .. t -> Cell]
  <2>1. \A i \in 1 .. t :
          (IF i - off \in 1 .. l THEN s[i - off] ELSE g.mem[i]) \in Cell
    BY <1>1, <1>6
  <2> QED BY <1>12, <2>1
<1>14. c.mem \in Seq(Cell) /\ Len(c.mem) = t
  BY <1>13
<1>15. ASSUME NEW i \in 1 .. l PROVE c.mem[off + i] = s[i]
  <2>1. off + i \in 1 .. t /\ off + i - off = i
    BY <1>5
  <2> QED BY <1>12, <2>1
<1>16. ASSUME NEW i \in 1 .. r, i <= off PROVE c.mem[i] = b.mem[i]
  <2>1. i \in 1 .. t /\ ~ (i - off \in 1 .. l)
    BY <1>5, <1>16
  <2> QED BY <1>6, <1>12, <2>1
<1>17. off + l <= t /\ r <= t
  BY <1>5
<1>18. IsCells(c) /\ HasAt(c, off, s)
  BY <1>1, <1>10, <1>12, <1>14, <1>15, <1>17 DEF IsCells, HasAt
<1> QED BY <1>2, <1>8, <1>14, <1>16, <1>17, <1>18

(* What is kept: the data is that of some version or none, and what was    *)
(* packed is in the memory still.                                          *)
MetadataInv ==
  /\ IsCells(cells) /\ (md = Md!NoData \/ IsData(md))
  /\ \A p \in packed : /\ IsData(p.md) /\ p.size = Len(Md!Pack(p.md))
                       /\ HasAt(cells, p.at, Md!Pack(p.md))

LEMMA FieldIs ==
  ASSUME NEW v \in 1 .. 3, NEW x \in Md!FieldsOf(v)
  PROVE  x \in Md!TextFields \cup Numbers
<1>1. PICK n \in Nat \ {0} :
        /\ \A i \in 1 .. n : Md!Layout[v][i] \in Md!TextFields \cup Numbers
        /\ \A y \in Md!FieldsOf(v) : \E i \in 1 .. n : y = Md!Layout[v][i]
  BY LayoutIs
<1> QED BY <1>1

LEMMA UnsetIs ==
  ASSUME NEW v \in 1 .. 3
  PROVE  IsData(Md!Fresh(v))
<1>1. << >> \in Seq(Cell) /\ 0 \in Int
  OBVIOUS
<1> QED BY <1>1 DEF IsData, Md!Fresh, IsValue

LEMMA FilledIs ==
  ASSUME WellSized, NEW v \in 1 .. 3, NEW file \in Files,
         NEW m, m = [version |-> v, f |-> [x \in Md!FieldsOf(v) |->
                       IF x = "mode" /\ v = 2 THEN file.type ELSE file[x]]]
  PROVE  IsData(m)
<1>1. m.version = v /\ m.f = [x \in Md!FieldsOf(v) |->
        IF x = "mode" /\ v = 2 THEN file.type ELSE file[x]]
  OBVIOUS
<1>2. ASSUME NEW x \in Md!FieldsOf(v) PROVE IsValue(x, m.f[x])
  <2>1. x \in Md!TextFields \cup Numbers
    BY FieldIs
  <2>2. CASE x = "mode" /\ v = 2
    BY <1>1, <2>2, FileIs DEF IsValue, Md!TextFields
  <2>3. CASE ~ (x = "mode" /\ v = 2)
    <3>1. m.f[x] = file[x]
      BY <1>1, <2>3
    <3> QED BY <2>1, <3>1, FileIs DEF IsValue
  <2> QED BY <2>2, <2>3
<1> QED BY <1>1, <1>2 DEF IsData

LEMMA SetIs ==
  ASSUME NEW m, IsData(m), NEW xs, NEW values, NEW n,
         \A x \in xs : IsValue(x, values[x]),
         n = [m EXCEPT !.f =
                [x \in DOMAIN @ |-> IF x \in xs THEN values[x] ELSE @[x]]]
  PROVE  IsData(n)
<1>1. PICK v \in 1 .. 3 : v = m.version
  BY DEF IsData
<1>2. m = [version |-> v, f |-> m.f] /\ DOMAIN m.f = Md!FieldsOf(v)
  BY <1>1 DEF IsData
<1>3. PICK g : g
        = [x \in Md!FieldsOf(v) |-> IF x \in xs THEN values[x] ELSE m.f[x]]
  OBVIOUS
<1>4. n = [m EXCEPT !.f = g]
  BY <1>2, <1>3
<1>5. n = [version |-> v, f |-> g]
  BY <1>2, <1>4
<1>6. \A x \in Md!FieldsOf(v) : IsValue(x, g[x])
  BY <1>1, <1>3 DEF IsData
<1> QED BY <1>3, <1>5, <1>6 DEF IsData

LEMMA MetadataInvInit == Md!Init => MetadataInv
<1> SUFFICES ASSUME Md!Init PROVE MetadataInv
  OBVIOUS
<1>1. cells = [mem |-> [i \in 1 .. 1 |-> <<0, 0>>], len |-> 0]
  BY DEF Md!Init, Md!Made
<1>2. cells.mem \in Seq(Cell) /\ cells.len = 0 /\ Len(cells.mem) = 1
  <2>1. <<0, 0>> \in Cell
    BY DEF Cell
  <2>2. cells.mem \in [1 .. 1 -> Cell]
    BY <1>1, <2>1
  <2> QED BY <1>1, <2>2
<1> QED BY <1>1, <1>2 DEF Md!Init, MetadataInv, IsCells

LEMMA MetadataInvNext ==
  ASSUME WellSized
  PROVE  MetadataInv /\ [Md!Next]_(Md!vars) => MetadataInv'
<1> SUFFICES ASSUME MetadataInv, [Md!Next]_(Md!vars) PROVE MetadataInv'
  OBVIOUS
<1>1. ASSUME NEW m, md' = m, m = Md!NoData \/ IsData(m),
             UNCHANGED <<cells, packed>>
      PROVE  MetadataInv'
  <2>1. md' = Md!NoData \/ IsData(md')
    BY <1>1
  <2>2. cells' = cells /\ packed' = packed
    BY <1>1
  <2> QED BY <2>1, <2>2 DEF MetadataInv, IsCells, HasAt, IsData, IsValue
<1>2. ASSUME NEW v \in DOMAIN Md!Layout, Md!Fill(v) PROVE MetadataInv'
  <2>1. v \in 1 .. 3
    BY DEF Md!Layout
  <2>2. CASE md' = Md!Fresh(v)
    BY <1>1, <1>2, <2>1, <2>2, UnsetIs DEF Md!Fill
  <2>3. ASSUME NEW file \in Files,
               md' = [version |-> v, f |-> [x \in Md!FieldsOf(v) |->
                        IF x = "mode" /\ v = 2 THEN file.type ELSE file[x]]]
        PROVE  MetadataInv'
    <3>1. PICK m : m = [version |-> v, f |-> [x \in Md!FieldsOf(v) |->
                        IF x = "mode" /\ v = 2 THEN file.type ELSE file[x]]]
      OBVIOUS
    <3>2. IsData(m)
      BY <2>1, <3>1, FilledIs
    <3> QED BY <1>1, <1>2, <2>3, <3>1, <3>2 DEF Md!Fill
  <2> QED BY <1>2, <2>2, <2>3 DEF Md!Fill
<1>3. ASSUME NEW xs, NEW values, \A x \in xs : IsValue(x, values[x]),
             Md!Sets(xs, values)
      PROVE  MetadataInv'
  <2>1. IsData(md)
    BY <1>3 DEF Md!Sets, Md!NoData, MetadataInv
  <2>2. PICK n : n = [md EXCEPT !.f =
                        [x \in DOMAIN @ |->
                           IF x \in xs THEN values[x] ELSE @[x]]]
    OBVIOUS
  <2>3. IsData(n)
    BY <1>3, <2>1, <2>2, SetIs
  <2> QED BY <1>1, <1>3, <2>2, <2>3 DEF Md!Sets
<1>4. ASSUME Md!Set PROVE MetadataInv'
  <2>1. ASSUME NEW x \in Md!TextFields, NEW n \in Names,
               Md!Sets({x}, [y \in {x} |-> n])
        PROVE  MetadataInv'
    <3>1. \A y \in {x} : IsValue(y, [z \in {x} |-> n][y])
      BY WidthIs DEF IsValue
    <3> QED BY <1>3, <2>1, <3>1
  <2>2. ASSUME NEW file \in Files,
               NEW xs \in {{"mode", "uid", "gid"}, Md!Times, {"size"}},
               Md!Sets(xs, file)
        PROVE  MetadataInv'
    <3>1. \A x \in xs : x \in Numbers /\ x \notin Md!TextFields
      BY DEF Numbers, Md!Owners, Md!Times, Md!TextFields
    <3>2. \A x \in xs : IsValue(x, file[x])
      BY <3>1, FileIs DEF IsValue
    <3> QED BY <1>3, <2>2, <3>2
  <2> QED BY <1>4, <2>1, <2>2 DEF Md!Set
<1>5. ASSUME Md!Forget PROVE MetadataInv'
  <2>1. PICK m \in {Md!NoData, IF md.version = 0 THEN Md!NoData
                             ELSE Md!Fresh(md.version)} :
          md' = m
    BY <1>5 DEF Md!Forget
  <2>2. m = Md!NoData \/ IsData(m)
    <3>1. md.version = 0 \/ md.version \in 1 .. 3
      BY DEF MetadataInv, IsData, Md!NoData
    <3> QED BY <2>1, <3>1, UnsetIs
  <2> QED BY <1>1, <1>5, <2>1, <2>2 DEF Md!Forget
<1>6. ASSUME NEW off \in {0} \cup {p.at + p.size : p \in packed}, Md!ToBuf(off)
      PROVE  MetadataInv'
  <2>1. IsData(md) /\ IsCells(cells)
    BY <1>6 DEF Md!ToBuf, Md!NoData, MetadataInv
  <2>2. PICK s : s = Md!Pack(md)
    OBVIOUS
  <2>3. s \in Seq(Cell) /\ Len(s) \in Nat \ {0}
    <3>1. s \in Seq(Cell) /\ \E n \in Nat \ {0} : \E w :
            Packed(md, n, w) /\ Len(s) = 1 + Len(w[n])
      BY <2>1, <2>2, PackIs
    <3>2. PICK n \in Nat \ {0} : \E w : Packed(md, n, w)
            /\ Len(s) = 1 + Len(w[n])
      BY <3>1
    <3>3. PICK w : Packed(md, n, w) /\ Len(s) = 1 + Len(w[n])
      BY <3>2
    <3>4. w[n] \in Seq(Cell)
      BY <3>3 DEF Packed
    <3>5. Len(w[n]) \in Nat
      BY <3>4
    <3> QED BY <3>1, <3>3, <3>5
  <2>4. off \in Nat
    <3>1. ASSUME NEW p \in packed PROVE p.at + p.size \in Nat
      <4>1. IsData(p.md) /\ p.size = Len(Md!Pack(p.md)) /\ p.at \in Nat
        BY DEF MetadataInv, HasAt
      <4>2. Md!Pack(p.md) \in Seq(Cell)
        BY <4>1, PackIs
      <4>3. Len(Md!Pack(p.md)) \in Nat
        BY <4>2
      <4> QED BY <4>1, <4>3
    <3> QED BY <3>1
  <2>5. PICK c : c = Md!Cpy(cells, off, s)
    OBVIOUS
  <2>6. /\ IsCells(c) /\ HasAt(c, off, s) /\ Len(cells.mem) <= Len(c.mem)
        /\ \A i \in 1 .. Len(cells.mem) : i <= off => c.mem[i] = cells.mem[i]
    BY <2>1, <2>3, <2>4, <2>5, CpyIs
  <2>7. ASSUME NEW p \in packed, p.at + p.size <= off
        PROVE  IsData(p.md) /\ p.size = Len(Md!Pack(p.md))
               /\ HasAt(c, p.at, Md!Pack(p.md))
    <3>1. IsData(p.md) /\ p.size = Len(Md!Pack(p.md))
            /\ HasAt(cells, p.at, Md!Pack(p.md))
      BY DEF MetadataInv
    <3>2. PICK t \in Seq(Cell) : t = Md!Pack(p.md)
      BY <3>1, PackIs
    <3>3. PICK l \in Nat : l = Len(t) /\ l = p.size
      BY <3>1, <3>2
    <3>4. PICK a \in Nat : a = p.at
      BY <3>1 DEF HasAt
    <3>5. PICK r \in Nat : r = Len(cells.mem)
      BY <2>1 DEF IsCells
    <3>6. PICK q \in Nat : q = Len(c.mem)
      BY <2>6 DEF IsCells
    <3>7. a + l <= r /\ \A i \in 1 .. l : cells.mem[a + i] = t[i]
      BY <3>1, <3>2, <3>3, <3>4, <3>5 DEF HasAt
    <3>8. ASSUME NEW i \in 1 .. l PROVE c.mem[a + i] = t[i]
      <4>1. a + i \in 1 .. r /\ a + i <= off
        BY <2>4, <2>7, <3>3, <3>4, <3>7
      <4> QED BY <2>6, <3>5, <3>7, <4>1
    <3>9. a + l <= q
      BY <2>6, <3>5, <3>6, <3>7
    <3>10. HasAt(c, a, t)
      BY <3>3, <3>6, <3>8, <3>9 DEF HasAt
    <3> QED BY <3>1, <3>2, <3>4, <3>10
  <2>8. PICK k : k = [at |-> off, size |-> Len(s), md |-> md]
    OBVIOUS
  <2>9. cells' = c /\ packed' = {p \in packed : p.at + p.size <= off} \cup {k}
          /\ md' = md
    BY <1>6, <2>2, <2>5, <2>8 DEF Md!ToBuf
  <2>10. IsData(k.md) /\ k.size = Len(Md!Pack(k.md))
           /\ HasAt(c, k.at, Md!Pack(k.md))
    BY <2>1, <2>2, <2>6, <2>8
  <2>11. \A p \in packed' : IsData(p.md) /\ p.size = Len(Md!Pack(p.md))
                             /\ HasAt(cells', p.at, Md!Pack(p.md))
    BY <2>7, <2>9, <2>10
  <2>12. IsCells(cells') /\ IsData(md')
    BY <2>1, <2>6, <2>9
  <2> QED BY ONLY <2>11, <2>12 DEF MetadataInv, IsCells, HasAt, IsData, IsValue
<1>7. ASSUME NEW n \in 0 .. cells.len - 1, Md!Cut(n) PROVE MetadataInv'
  <2>1. IsCells(cells)
    BY DEF MetadataInv
  <2>2. PICK r \in Nat : r = Len(cells.mem) /\ cells.len \in 0 .. r
    BY <2>1 DEF IsCells
  <2>3. n \in 0 .. r
    BY <2>2
  <2>4. cells' = [cells EXCEPT !.len = n]
    BY <1>7, <2>2, <2>3 DEF Md!Cut, Md!SetLen, Md!Size
  <2>5. md' = md /\ packed' = packed
    BY <1>7 DEF Md!Cut
  <2>6. cells'.mem = cells.mem /\ cells'.len = n
    <3>1. cells = [mem |-> cells.mem, len |-> cells.len]
      BY <2>1 DEF IsCells
    <3>2. cells' = [mem |-> cells.mem, len |-> n]
      BY <2>4, <3>1
    <3> QED BY <3>2
  <2>7. cells' = [mem |-> cells'.mem, len |-> cells'.len]
    BY <2>1, <2>4, <2>6 DEF IsCells
  <2> QED BY <2>1, <2>2, <2>3, <2>5, <2>6, <2>7 DEF MetadataInv, IsCells,
      HasAt, IsData, IsValue
<1>8. CASE UNCHANGED Md!vars
  BY <1>1, <1>8 DEF Md!vars, MetadataInv
<1> QED BY <1>2, <1>4, <1>5, <1>6, <1>7, <1>8 DEF Md!Next

LEMMA MetadataInvRight ==
  ASSUME WellSized
  PROVE  MetadataInv => Md!MetadataRight
<1> SUFFICES ASSUME MetadataInv, NEW p \in packed
             PROVE  LET u == Md!Unpack(cells, p.at)
                    IN IF p.at + p.size <= cells.len
                       THEN /\ u.rc = "OK" /\ u.md = Md!Arrived(p.md)
                            /\ p.md.version = 3
                               /\ Len(p.md.f.uname) < ByteMax =>
                                 LET uid == Md!Gets(u.md, "uid")
                                 IN IF p.md.f.uname \in DOMAIN Users
                                    THEN uid.value = Users[p.md.f.uname]
                                    ELSE uid.rc = "LOOKUP"
                       ELSE u.rc \in {"BUF_SIZE", "SIZE"} /\ u.md = Md!NoData
  BY DEF Md!MetadataRight
<1>1. PICK m : m = p.md
  OBVIOUS
<1>2. /\ IsData(m) /\ p.size = Len(Md!Pack(m)) /\ IsCells(cells)
      /\ HasAt(cells, p.at, Md!Pack(m)) /\ p.at \in Nat
  BY <1>1 DEF MetadataInv, HasAt
<1>3. IF p.at + p.size <= cells.len
      THEN Md!Unpack(cells, p.at) = [rc |-> "OK", md |-> Md!Arrived(m)]
      ELSE /\ Md!Unpack(cells, p.at).rc \in {"BUF_SIZE", "SIZE"}
           /\ Md!Unpack(cells, p.at).md = Md!NoData
  BY <1>2, UnpackIs
<1>4. ASSUME m.version = 3, Len(m.f.uname) < ByteMax
      PROVE  LET uid == Md!Gets(Md!Arrived(m), "uid")
             IN IF m.f.uname \in DOMAIN Users THEN uid.value = Users[m.f.uname]
                ELSE uid.rc = "LOOKUP"
  <2>1. Md!FieldsOf(3) = {"name", "size", "mode", "uname", "gname",
                         "atime", "mtime", "ctime"}
    <3>1. Md!Layout[3] = <<"name", "size", "mode", "uname", "gname",
                          "atime", "mtime", "ctime">>
      BY DEF Md!Layout
    <3> QED BY <3>1 DEF Md!FieldsOf, Md!Range
  <2>2. PICK s \in Seq(Cell) : s = m.f.uname
    <3>1. IsValue("uname", m.f["uname"])
      BY <1>2, <1>4, <2>1 DEF IsData
    <3> QED BY <3>1 DEF IsValue, Md!TextFields
  <2>3. SubSeq(s, 1, Len(s) % ByteMax) = s
    <3>1. PICK l \in Nat : l = Len(s)
      OBVIOUS
    <3>2. l % ByteMax = l
      BY <1>4, <2>2, <3>1, ModIs
    <3> QED BY <3>1, <3>2
  <2>4. PICK a : a = Md!Arrived(m)
    OBVIOUS
  <2>5. a.version = 3 /\ a.f["uname"] = s
    <3>1. DOMAIN m.f = Md!FieldsOf(3) /\ m = [version |-> m.version, f |-> m.f]
      BY <1>2, <1>4 DEF IsData
    <3>2. a.f = [x \in Md!FieldsOf(3) |-> IF x \in Md!OwnerNames
                   THEN SubSeq(m.f[x], 1, Len(m.f[x]) % ByteMax) ELSE m.f[x]]
      BY <2>4, <3>1 DEF Md!Arrived
    <3>3. a.version = 3
      <4>1. PICK k : a = [m EXCEPT !.f = k]
        BY <2>4 DEF Md!Arrived
      <4> QED BY <1>4, <3>1, <4>1
    <3>4. "uname" \in Md!FieldsOf(3) /\ "uname" \in Md!OwnerNames
      BY <2>1 DEF Md!OwnerNames
    <3> QED BY <2>2, <2>3, <3>2, <3>3, <3>4
  <2>6. "uid" \notin Md!FieldsOf(3) /\ "uid" \in Md!Owners
    BY <2>1 DEF Md!Owners
  <2>7. Md!Gets(a, "uid") = Md!OwnerHere(a, "uid")
    BY <2>5, <2>6 DEF Md!Gets
  <2>8. Md!OwnerHere(a, "uid") =
          IF s \in DOMAIN Users THEN [rc |-> "OK", value |-> Users[s]]
                                ELSE [rc |-> "LOOKUP", value |-> 0]
    BY <2>5 DEF Md!OwnerHere
  <2> QED BY <2>2, <2>4, <2>7, <2>8
<1> QED BY <1>1, <1>3, <1>4

(* Metadata that was packed is unpacked field by field as it was, wherever *)
(* it is in the buffer, but for names of owners longer than a byte can     *)
(* count; of what the buffer does not hold to the end nothing is believed. *)
THEOREM MetadataRightAlways ==
  ASSUME WellSized
  PROVE  Md!Spec => []Md!MetadataRight
<1>1. Md!Init => MetadataInv
  BY MetadataInvInit
<1>2. MetadataInv /\ [Md!Next]_(Md!vars) => MetadataInv'
  BY MetadataInvNext
<1>3. MetadataInv => Md!MetadataRight
  BY MetadataInvRight
<1> QED BY <1>1, <1>2, <1>3, PTL DEF Md!Spec
=============================================================================
