-------------------------- MODULE SequenceLemmas --------------------------
(***************************************************************************)
(* What the operators on sequences that the models share return. The        *)
(* library's theorems about filters and sorts take operators as parameters, *)
(* which the provers cannot instantiate: these take sets and functions.     *)
(***************************************************************************)
EXTENDS Ordered, SequencesExt, SequenceTheorems, FiniteSetTheorems, WellFoundedInduction, TLAPS

---------------------------------------------------------------------------
(* InOrder and RemoveAt *)

\* A function on 1 .. n is a sequence.
LEMMA FunctionIsSeq ==
  ASSUME NEW S, NEW n \in Nat, NEW f \in [1 .. n -> S]
  PROVE  f \in Seq(S)
OBVIOUS

\* InOrder lists a finite set without repetition: each k is the rank of one element.
LEMMA InOrderLists ==
  ASSUME NEW W, IsFiniteSet(W), NEW key, \A w \in W : key[w] \in Int,
         \A v, w \in W : key[v] = key[w] => v = w
  PROVE  /\ InOrder(W, key) \in Seq(W)
         /\ Range(InOrder(W, key)) = W
         /\ IsInjective(InOrder(W, key))
<1> DEFINE below(w) == {v \in W : key[v] <= key[w]}
           rank == [w \in W |-> Cardinality(below(w))]
           n == Cardinality(W)
<1>1. n \in Nat
  BY FS_CardinalityType
<1>2. ASSUME NEW w \in W PROVE IsFiniteSet(below(w)) /\ Cardinality(below(w)) \in 1 .. n
  <2>1. below(w) \in SUBSET W /\ w \in below(w)
    OBVIOUS
  <2>2. IsFiniteSet(below(w)) /\ Cardinality(below(w)) <= n
    BY <2>1, FS_Subset
  <2>3. Cardinality(below(w)) \in Nat /\ Cardinality(below(w)) # 0
    BY <2>1, <2>2, FS_CardinalityType, FS_EmptySet
  <2> QED
    BY <1>1, <2>2, <2>3
<1>3. ASSUME NEW v \in W, NEW w \in W, rank[v] = rank[w] PROVE v = w
  <2>1. ASSUME NEW x \in W, NEW y \in W, key[x] < key[y], rank[x] = rank[y] PROVE FALSE
    <3>1. below(x) \in SUBSET below(y)
      BY <2>1
    <3>2. below(x) = below(y)
      BY <1>2, <2>1, <3>1, FS_Subset
    <3>3. y \in below(y) /\ y \notin below(x)
      BY <2>1
    <3> QED
      BY <3>2, <3>3
  <2>2. key[v] < key[w] \/ key[w] < key[v] \/ key[v] = key[w]
    OBVIOUS
  <2> QED
    BY <1>3, <2>1, <2>2
<1>4. rank \in Injection(W, 1 .. n)
  BY <1>2, <1>3 DEF Injection, IsInjective
<1>5. rank \in Surjection(W, 1 .. n)
  <2>1. IsFiniteSet(1 .. n) /\ Cardinality(1 .. n) = n
    BY <1>1, FS_Interval
  <2> QED
    BY <1>4, <2>1, FS_Injection
<1>6. \A k \in 1 .. n : \E w \in W : Cardinality(below(w)) = k
  BY <1>5 DEF Surjection
<1> DEFINE s == InOrder(W, key)
<1>7. s = [k \in 1 .. n |-> CHOOSE w \in W : Cardinality(below(w)) = k]
  BY DEF InOrder
<1>8. \A k \in 1 .. n : s[k] \in W /\ Cardinality(below(s[k])) = k
  BY <1>6, <1>7
<1>9. s \in Seq(W) /\ DOMAIN s = 1 .. n
  <2>1. DOMAIN s = 1 .. n
    BY <1>7, Zenon
  <2>2. s = [k \in 1 .. n |-> s[k]]
    BY <1>7, Zenon
  <2>3. s \in [1 .. n -> W]
    BY <1>8, <2>2, Zenon
  <2>4. s \in Seq(W)
    BY <1>1, <2>3, FunctionIsSeq, Zenon
  <2> QED
    BY <2>1, <2>4
<1>10. IsInjective(s)
  <2> HIDE DEF s
  <2>1. ASSUME NEW j \in DOMAIN s, NEW k \in DOMAIN s, s[j] = s[k] PROVE j = k
    <3>1. Cardinality(below(s[j])) = j /\ Cardinality(below(s[k])) = k
      BY <1>8, <1>9
    <3> HIDE DEF below
    <3> QED
      BY <2>1, <3>1
  <2> QED
    BY <2>1, Zenon DEF IsInjective
<1>11. ASSUME NEW w \in W PROVE w \in Range(s)
  <2>1. rank[w] \in 1 .. n /\ rank[s[rank[w]]] = rank[w]
    BY <1>2, <1>8
  <2>2. s[rank[w]] = w
    BY <1>3, <1>8, <2>1
  <2> QED
    BY <1>9, <2>1, <2>2 DEF Range
<1> QED
  BY <1>8, <1>9, <1>10, <1>11 DEF Range

\* Taking one element out of a sequence leaves a sequence.
LEMMA RemoveAtIsSeq ==
  ASSUME NEW S, NEW s \in Seq(S), NEW i \in DOMAIN s
  PROVE  RemoveAt(s, i) \in Seq(S)
<1>1. i \in 1 .. Len(s)
  BY LenProperties
<1>2. SubSeq(s, 1, i - 1) \in Seq(S)
  BY <1>1, SubSeqProperties, ElementOfSeq
<1>3. SubSeq(s, i + 1, Len(s)) \in Seq(S)
  BY <1>1, SubSeqProperties, ElementOfSeq
<1> QED
  BY <1>2, <1>3, ConcatProperties DEF RemoveAt

\* The positions a filter keeps: each kept item is one item of s, and no two are the same.
LEMMA WithinPositions ==
  ASSUME NEW S, NEW s \in Seq(S), NEW T
  PROVE  \E pos :
           /\ DOMAIN pos = DOMAIN Within(s, T)
           /\ IsInjective(pos)
           /\ \A k \in DOMAIN pos : pos[k] \in DOMAIN s /\ Within(s, T)[k] = s[pos[k]] /\ s[pos[k]] \in T
           /\ \A i \in DOMAIN s : s[i] \in T => \E k \in DOMAIN pos : pos[k] = i
           /\ \E n \in Nat : DOMAIN pos = 1 .. n
<1> DEFINE W == {i \in DOMAIN s : s[i] \in T}
           key == [i \in DOMAIN s |-> i]
           pos == InOrder(W, key)
<1>1. DOMAIN s = 1 .. Len(s) /\ Len(s) \in Nat
  BY LenProperties
<1>2. IsFiniteSet(W)
  <2>1. IsFiniteSet(1 .. Len(s))
    BY <1>1, FS_Interval
  <2>2. W \in SUBSET (1 .. Len(s))
    BY <1>1
  <2> QED
    BY <2>1, <2>2, FS_Subset
<1>3. \A w \in W : key[w] \in Int
  BY <1>1
<1>4. \A v, w \in W : key[v] = key[w] => v = w
  OBVIOUS
<1>5. pos \in Seq(W) /\ Range(pos) = W /\ IsInjective(pos)
  <2> HIDE DEF W, key
  <2> QED
    BY <1>2, <1>3, <1>4, InOrderLists
<1>6. Within(s, T) = [k \in DOMAIN pos |-> s[pos[k]]]
  BY Zenon DEF Within, pos, W, key
<1> HIDE DEF pos
<1>7. DOMAIN pos = DOMAIN Within(s, T)
  BY <1>6
<1>8. \A k \in DOMAIN pos : pos[k] \in W
  BY <1>5, Zenon DEF Range
<1>9. \A i \in W : \E k \in DOMAIN pos : pos[k] = i
  BY <1>5, Zenon DEF Range
<1>10. \E n \in Nat : DOMAIN pos = 1 .. n
  BY <1>5, LenProperties
<1> QED
  BY <1>5, <1>6, <1>7, <1>8, <1>9, <1>10, Zenon DEF W

\* What a filter returns is a sequence of exactly the items that belong to T, and
\* as free of repetition as what it was given.
LEMMA WithinItems ==
  ASSUME NEW S, NEW s \in Seq(S), NEW T
  PROVE  /\ Within(s, T) \in Seq(S)
         /\ ToSet(Within(s, T)) = ToSet(s) \intersect T
         /\ IsInjective(s) => IsInjective(Within(s, T))
<1>1. PICK pos :
        /\ DOMAIN pos = DOMAIN Within(s, T)
        /\ IsInjective(pos)
        /\ \A k \in DOMAIN pos : pos[k] \in DOMAIN s /\ Within(s, T)[k] = s[pos[k]] /\ s[pos[k]] \in T
        /\ \A i \in DOMAIN s : s[i] \in T => \E k \in DOMAIN pos : pos[k] = i
        /\ \E n \in Nat : DOMAIN pos = 1 .. n
  BY WithinPositions, Zenon
<1> DEFINE w == Within(s, T)
<1>2. w = [k \in DOMAIN w |-> w[k]]
  BY Zenon DEF Within
<1> HIDE DEF w
<1>3. \A k \in DOMAIN w : w[k] = s[pos[k]] /\ pos[k] \in DOMAIN s /\ w[k] \in T
  BY <1>1 DEF w
<1>4. \A i \in DOMAIN s : s[i] \in S
  BY LenProperties, ElementOfSeq
<1>5. w \in Seq(S)
  <2>1. PICK n \in Nat : DOMAIN w = 1 .. n
    BY <1>1, Zenon DEF w
  <2>2. w \in [1 .. n -> S]
    BY <1>2, <1>3, <1>4, <2>1
  <2> QED
    BY <2>2, FunctionIsSeq
<1>6. ToSet(w) = ToSet(s) \intersect T
  <2>1. ASSUME NEW x \in ToSet(s), x \in T PROVE x \in ToSet(w)
    <3>1. PICK i \in DOMAIN s : s[i] = x
      BY Zenon DEF ToSet
    <3>2. PICK k \in DOMAIN pos : pos[k] = i
      BY <1>1, <2>1, <3>1, Zenon
    <3>3. k \in DOMAIN w /\ w[k] = x
      BY <1>1, <1>3, <3>1, <3>2, Zenon DEF w
    <3> QED
      BY <3>3, Zenon DEF ToSet
  <2>2. ASSUME NEW x \in ToSet(w) PROVE x \in ToSet(s) /\ x \in T
    BY <1>3, Zenon DEF ToSet
  <2> QED
    BY <2>1, <2>2
<1>7. ASSUME IsInjective(s) PROVE IsInjective(w)
  <2>1. ASSUME NEW j \in DOMAIN w, NEW k \in DOMAIN w, w[j] = w[k] PROVE j = k
    <3>1. s[pos[j]] = s[pos[k]] /\ pos[j] \in DOMAIN s /\ pos[k] \in DOMAIN s
      BY <1>3, <2>1, Zenon
    <3>2. pos[j] = pos[k]
      BY <1>7, <3>1, Zenon DEF IsInjective
    <3>3. j \in DOMAIN pos /\ k \in DOMAIN pos
      BY <1>1, Zenon DEF w
    <3> QED
      BY <1>1, <3>2, <3>3, Zenon DEF IsInjective
  <2> QED
    BY <2>1, Zenon DEF IsInjective
<1> QED
  BY <1>5, <1>6, <1>7, Zenon DEF w

---------------------------------------------------------------------------
(* FlattenSeq. The library defines it by a recursive function, and the       *)
(* function exists and is the only one because there is induction on sets.   *)

\* Induction, on a set of numbers: the library's theorem takes a predicate.
LEMMA EveryNumberIn ==
  ASSUME NEW T, 0 \in T, \A n \in Nat : n \in T => n + 1 \in T
  PROVE  \A n \in Nat : n \in T
<1> SUFFICES ASSUME NEW m \in Nat, m \notin T PROVE FALSE
  OBVIOUS
<1> DEFINE less == OpToRel(<, Nat)
           out == {n \in Nat : n \notin T}
<1>1. IsWellFoundedOn(less, Nat)
  BY NatLessThanWellFounded
<1>2. out \subseteq Nat /\ out # {}
  OBVIOUS
<1>3. PICK x \in out : \A y \in out : ~(<<y, x>> \in less)
  <2> HIDE DEF less, out
  <2> QED
    BY <1>1, <1>2, WFMin
<1>4. \A y \in out : ~(y < x)
  BY <1>3 DEF OpToRel
<1>5. x \in Nat /\ x # 0 /\ x \notin T
  OBVIOUS
<1>6. x - 1 \in Nat /\ x - 1 \notin out
  BY <1>4, <1>5
<1> QED
  BY <1>5, <1>6

\* f joins the sequences of ss one after the other, up to the n-th.
Joins(f, ss, n) == f = [i \in 1 .. n |-> IF i = 1 THEN ss[i] ELSE f[i - 1] \o ss[i]]

\* The function FlattenSeq picks is the one its equations describe.
LEMMA FlattenUnfolds ==
  ASSUME NEW ss, NEW n \in Nat \ {0}, Len(ss) = n
  PROVE  \E f : Joins(f, ss, n) /\ FlattenSeq(ss) = f[n]
<1> DEFINE Eq(f, m) == f = [i \in 1 .. m |-> IF i = 1 THEN ss[i] ELSE f[i - 1] \o ss[i]]
           T == {m \in Nat : \E f : Eq(f, m)}
<1>1. 0 \in T
  <2>1. Eq([i \in 1 .. 0 |-> ss[i]], 0)
    OBVIOUS
  <2> QED
    BY <2>1
<1>2. ASSUME NEW m \in Nat, m \in T PROVE m + 1 \in T
  <2>1. PICK f : Eq(f, m)
    BY <1>2
  <2> DEFINE g == [i \in 1 .. m + 1 |-> IF i = m + 1 THEN (IF i = 1 THEN ss[i] ELSE f[i - 1] \o ss[i]) ELSE f[i]]
  <2>2. \A i \in 1 .. m + 1 : g[i] = IF i = 1 THEN ss[i] ELSE g[i - 1] \o ss[i]
    <3> SUFFICES ASSUME NEW i \in 1 .. m + 1 PROVE g[i] = IF i = 1 THEN ss[i] ELSE g[i - 1] \o ss[i]
      OBVIOUS
    <3>1. CASE i = m + 1
      <4>1. i # 1 => g[i - 1] = f[i - 1]
        BY <3>1
      <4> QED
        BY <3>1, <4>1
    <3>2. CASE i # m + 1
      <4>1. i \in 1 .. m
        BY <3>2
      <4>2. f[i] = IF i = 1 THEN ss[i] ELSE f[i - 1] \o ss[i]
        BY <2>1, <4>1
      <4>3. g[i] = f[i]
        BY <3>2
      <4>4. i # 1 => g[i - 1] = f[i - 1]
        BY <4>1
      <4> QED
        BY <4>2, <4>3, <4>4
    <3> QED
      BY <3>1, <3>2
  <2>3. Eq(g, m + 1)
    <3>1. g = [i \in 1 .. m + 1 |-> g[i]]
      BY Zenon
    <3> HIDE DEF g
    <3> QED
      BY <2>2, <3>1
  <2>4. m + 1 \in Nat /\ \E h : Eq(h, m + 1)
    <3> HIDE DEF g, Eq
    <3> QED
      BY <2>3
  <2> QED
    BY <2>4
<1>3. \A m \in Nat : m \in T
  <2> HIDE DEF T
  <2> QED
    BY <1>1, <1>2, EveryNumberIn
<1>4. \E f : Eq(f, n)
  BY <1>3
<1> DEFINE flatten == CHOOSE f : Eq(f, n)
<1>5. Eq(flatten, n)
  <2> HIDE DEF Eq
  <2> QED
    BY <1>4
<1>6. FlattenSeq(ss) = flatten[n]
  BY DEF FlattenSeq
<1>7. Joins(flatten, ss, n)
  BY <1>5 DEF Joins
<1> HIDE DEF flatten
<1> QED
  BY <1>6, <1>7

\* A function on 1 .. n that its predecessors' equations describe is the only one.
LEMMA FlattenUnique ==
  ASSUME NEW ss, NEW n \in Nat, NEW f, NEW g,
         NEW m \in Nat, n <= m, Joins(f, ss, n), Joins(g, ss, m)
  PROVE  \A i \in 1 .. n : f[i] = g[i]
<1> DEFINE T == {i \in Nat : i \in 1 .. n => f[i] = g[i]}
<1>1. 0 \in T
  OBVIOUS
<1>2. ASSUME NEW i \in Nat, i \in T PROVE i + 1 \in T
  <2> SUFFICES ASSUME i + 1 \in 1 .. n PROVE f[i + 1] = g[i + 1]
    OBVIOUS
  <2>1. f[i + 1] = IF i + 1 = 1 THEN ss[i + 1] ELSE f[(i + 1) - 1] \o ss[i + 1]
    BY DEF Joins
  <2>2. i + 1 \in 1 .. m
    OBVIOUS
  <2>3. g[i + 1] = IF i + 1 = 1 THEN ss[i + 1] ELSE g[(i + 1) - 1] \o ss[i + 1]
    BY <2>2 DEF Joins
  <2>4. CASE i = 0
    BY <2>1, <2>3, <2>4
  <2>5. CASE i # 0
    <3>1. i \in 1 .. n /\ (i + 1) - 1 = i
      BY <2>5
    <3>2. f[i] = g[i]
      BY <1>2, <3>1
    <3> QED
      BY <2>1, <2>3, <2>5, <3>1, <3>2
  <2> QED
    BY <2>4, <2>5
<1>3. \A i \in Nat : i \in T
  <2> HIDE DEF T
  <2> QED
    BY <1>1, <1>2, EveryNumberIn
<1> SUFFICES ASSUME NEW i \in 1 .. n PROVE f[i] = g[i]
  OBVIOUS
<1>4. i \in Nat /\ i \in T
  BY <1>3
<1> QED
  BY <1>4

\* One more sequence is one more piece at the end.
LEMMA FlattenAppend ==
  ASSUME NEW S, NEW ss \in Seq(Seq(S)), NEW t \in Seq(S)
  PROVE  FlattenSeq(Append(ss, t)) = FlattenSeq(ss) \o t
<1> DEFINE n == Len(ss)
           tt == Append(ss, t)
<1>1. n \in Nat /\ Len(tt) = n + 1 /\ tt[n + 1] = t /\ \A i \in 1 .. n : tt[i] = ss[i]
  BY AppendProperties, LenProperties
<1> HIDE DEF tt
<1>2. CASE n = 0
  <2>1. ss = <<>>
    BY <1>2
  <2>2. FlattenSeq(ss) = <<>>
    BY <1>2, <2>1 DEF FlattenSeq
  <2>3. Len(tt) = 1 /\ 1 \in Nat \ {0}
    BY <1>1, <1>2
  <2>4. PICK g : Joins(g, tt, 1) /\ FlattenSeq(tt) = g[1]
    BY <2>3, FlattenUnfolds
  <2>5. FlattenSeq(tt) = t
    BY <1>1, <1>2, <2>4 DEF Joins
  <2>6. <<>> \o t = t
    BY ConcatEmptySeq
  <2> QED
    BY <2>2, <2>5, <2>6 DEF tt
<1>3. CASE n # 0
  <2>1. PICK f : Joins(f, ss, n) /\ FlattenSeq(ss) = f[n]
    <3>1. n \in Nat \ {0} /\ Len(ss) = n
      BY <1>1, <1>3
    <3> HIDE DEF n
    <3> QED
      BY <3>1, FlattenUnfolds
  <2>2. PICK g : Joins(g, tt, n + 1) /\ FlattenSeq(tt) = g[n + 1]
    <3>1. n + 1 \in Nat \ {0} /\ Len(tt) = n + 1
      BY <1>1
    <3> HIDE DEF n
    <3> QED
      BY <3>1, FlattenUnfolds
  <2>3. Joins(f, tt, n)
    <3>1. [i \in 1 .. n |-> IF i = 1 THEN tt[i] ELSE f[i - 1] \o tt[i]] = [i \in 1 .. n |-> IF i = 1 THEN ss[i] ELSE f[i - 1] \o ss[i]]
      BY <1>1
    <3> QED
      BY <2>1, <3>1 DEF Joins
  <2>4. \A i \in 1 .. n : f[i] = g[i]
    <3>1. n \in Nat /\ n + 1 \in Nat /\ n <= n + 1
      BY <1>1
    <3> HIDE DEF n
    <3> QED
      BY <2>2, <2>3, <3>1, FlattenUnique
  <2>5. g[n + 1] = g[(n + 1) - 1] \o tt[n + 1]
    <3>1. n + 1 \in 1 .. n + 1 /\ n + 1 # 1
      BY <1>1, <1>3
    <3> QED
      BY <2>2, <3>1 DEF Joins
  <2>6. g[n + 1] = f[n] \o t
    <3>1. (n + 1) - 1 = n /\ n \in 1 .. n
      BY <1>1, <1>3
    <3> QED
      BY <1>1, <2>4, <2>5, <3>1
  <2> QED
    BY <2>1, <2>2, <2>6 DEF tt
<1> QED
  BY <1>2, <1>3 DEF tt

\* Nothing flattens to nothing.
LEMMA FlattenEmpty == FlattenSeq(<<>>) = <<>>
BY DEF FlattenSeq

\* A sequence that is not empty is its front with its last item appended.
LEMMA FrontAndLast ==
  ASSUME NEW S, NEW s \in Seq(S), NEW n \in Nat, Len(s) = n + 1
  PROVE  /\ SubSeq(s, 1, n) \in Seq(S) /\ Len(SubSeq(s, 1, n)) = n
         /\ s[n + 1] \in S
         /\ s = Append(SubSeq(s, 1, n), s[n + 1])
<1> DEFINE f == SubSeq(s, 1, n)
<1>1. f \in Seq(S) /\ Len(f) = n /\ \A i \in 1 .. n : f[i] = s[i]
  BY SubSeqProperties
<1>2. s[n + 1] \in S
  BY ElementOfSeq
<1> HIDE DEF f
<1>3. Append(f, s[n + 1]) \in Seq(S) /\ Len(Append(f, s[n + 1])) = n + 1
      /\ (\A i \in 1 .. n : Append(f, s[n + 1])[i] = f[i]) /\ Append(f, s[n + 1])[n + 1] = s[n + 1]
  BY <1>1, <1>2, AppendProperties
<1>4. \A i \in 1 .. n + 1 : Append(f, s[n + 1])[i] = s[i]
  BY <1>1, <1>3
<1>5. Append(f, s[n + 1]) = s
  <2> DEFINE t == Append(f, s[n + 1])
  <2> HIDE DEF t
  <2> SUFFICES t = s
    BY DEF t
  <2>1. t \in Seq(S) /\ s \in Seq(S) /\ Len(t) = Len(s) /\ \A i \in 1 .. Len(s) : t[i] = s[i]
    BY <1>3, <1>4 DEF t
  <2> QED
    BY <2>1, SeqEqual
<1> QED
  BY <1>1, <1>2, <1>5 DEF f

\* Pieces of S flatten to a sequence of S.
LEMMA FlattenIsSeq ==
  ASSUME NEW S, NEW ss \in Seq(Seq(S))
  PROVE  FlattenSeq(ss) \in Seq(S)
<1> DEFINE T == {n \in Nat : \A tt \in Seq(Seq(S)) : Len(tt) = n => FlattenSeq(tt) \in Seq(S)}
<1>1. 0 \in T
  <2>1. ASSUME NEW tt \in Seq(Seq(S)), Len(tt) = 0 PROVE FlattenSeq(tt) \in Seq(S)
    <3>1. tt = <<>>
      BY <2>1
    <3>2. FlattenSeq(tt) = <<>>
      BY <3>1, FlattenEmpty
    <3>3. <<>> \in Seq(S)
      BY EmptySeq
    <3> QED
      BY <3>2, <3>3
  <2> QED
    BY <2>1
<1>2. ASSUME NEW n \in Nat, n \in T PROVE n + 1 \in T
  <2>1. ASSUME NEW tt \in Seq(Seq(S)), Len(tt) = n + 1 PROVE FlattenSeq(tt) \in Seq(S)
    <3> DEFINE f == SubSeq(tt, 1, n)
    <3>1. f \in Seq(Seq(S)) /\ Len(f) = n /\ tt[n + 1] \in Seq(S) /\ tt = Append(f, tt[n + 1])
      <4> DEFINE U == Seq(S)
      <4>1. tt \in Seq(U)
        OBVIOUS
      <4> HIDE DEF U
      <4>2. f \in Seq(U) /\ Len(f) = n /\ tt[n + 1] \in U /\ tt = Append(f, tt[n + 1])
        BY <2>1, <4>1, FrontAndLast
      <4> QED
        BY <4>2 DEF U
    <3> HIDE DEF f
    <3>2. FlattenSeq(f) \in Seq(S)
      BY <1>2, <3>1
    <3>3. FlattenSeq(tt) = FlattenSeq(f) \o tt[n + 1]
      BY <3>1, FlattenAppend
    <3> QED
      BY <3>1, <3>2, <3>3, ConcatProperties
  <2> QED
    BY <1>2, <2>1
<1>3. Len(ss) \in Nat /\ \A n \in Nat : n \in T
  <2> HIDE DEF T
  <2> QED
    BY <1>1, <1>2, EveryNumberIn, LenProperties
<1> QED
  BY <1>3

\* A history, of whatever it is made, keeps its prefixes when it grows.
LEMMA HistoryGrows ==
  ASSUME NEW s, s \in Seq(ToSet(s)), NEW e
  PROVE  /\ Append(s, e) \in Seq(ToSet(Append(s, e)))
         /\ Len(s) \in Nat /\ Len(Append(s, e)) = Len(s) + 1
         /\ \A i \in 1 .. Len(s) : Append(s, e)[i] = s[i]
         /\ Append(s, e)[Len(s) + 1] = e
         /\ \A n \in 0 .. Len(s) : SubSeq(Append(s, e), 1, n) = SubSeq(s, 1, n) /\ Len(SubSeq(s, 1, n)) = n
         /\ SubSeq(s, 1, Len(s)) = s
         /\ SubSeq(Append(s, e), 1, Len(s) + 1) = Append(s, e)
<1> DEFINE S == ToSet(s) \union {e}
           t == Append(s, e)
<1>1. s \in Seq(S) /\ e \in S
  BY SeqMonotonic
<1> HIDE DEF S
<1>2. t \in Seq(S) /\ Len(t) = Len(s) + 1 /\ (\A i \in 1 .. Len(s) : t[i] = s[i]) /\ t[Len(s) + 1] = e /\ Len(s) \in Nat
  BY <1>1, AppendProperties, LenProperties
<1> HIDE DEF t
<1>3. t \in Seq(ToSet(t))
  <2>1. DOMAIN t = 1 .. Len(t) /\ Len(t) \in Nat /\ t = [i \in 1 .. Len(t) |-> t[i]]
    BY <1>2, LenProperties
  <2>2. \A i \in 1 .. Len(t) : t[i] \in ToSet(t)
    BY <2>1 DEF ToSet
  <2>3. t \in [1 .. Len(t) -> ToSet(t)]
    BY <2>1, <2>2
  <2> QED
    BY <2>1, <2>3, FunctionIsSeq
<1>4. ASSUME NEW n \in 0 .. Len(s) PROVE SubSeq(t, 1, n) = SubSeq(s, 1, n) /\ Len(SubSeq(s, 1, n)) = n
  <2>1. SubSeq(s, 1, n) \in Seq(S) /\ Len(SubSeq(s, 1, n)) = n /\ \A i \in 1 .. n : SubSeq(s, 1, n)[i] = s[i]
    BY <1>1, <1>2, SubSeqProperties, ElementOfSeq
  <2>2. SubSeq(t, 1, n) \in Seq(S) /\ Len(SubSeq(t, 1, n)) = n /\ \A i \in 1 .. n : SubSeq(t, 1, n)[i] = t[i]
    BY <1>2, SubSeqProperties, ElementOfSeq
  <2>3. \A i \in 1 .. n : SubSeq(t, 1, n)[i] = SubSeq(s, 1, n)[i]
    BY <1>2, <2>1, <2>2
  <2> QED
    BY <2>1, <2>2, <2>3, SeqEqual
<1>5. SubSeq(s, 1, Len(s)) = s /\ SubSeq(t, 1, Len(s) + 1) = t
  BY <1>1, <1>2, SubSeqFull
<1> QED
  BY <1>2, <1>3, <1>4, <1>5 DEF t

\* Pieces that are those of g and one more flatten to what g does and that one.
LEMMA FlattenGrows ==
  ASSUME NEW S, NEW f \in Seq(Seq(S)), NEW g \in Seq(Seq(S)), Len(f) = Len(g) + 1,
         \A i \in 1 .. Len(g) : f[i] = g[i]
  PROVE  FlattenSeq(f) = FlattenSeq(g) \o f[Len(g) + 1]
<1> DEFINE U == Seq(S)
           n == Len(g)
<1>1. f \in Seq(U) /\ g \in Seq(U) /\ n \in Nat /\ Len(f) = n + 1
  BY LenProperties
<1> HIDE DEF U, n
<1>2. f[n + 1] \in U /\ f = Append(SubSeq(f, 1, n), f[n + 1]) /\ SubSeq(f, 1, n) \in Seq(U) /\ Len(SubSeq(f, 1, n)) = n
  BY <1>1, FrontAndLast
<1>3. \A i \in 1 .. n : SubSeq(f, 1, n)[i] = f[i]
  BY <1>1, SubSeqProperties, ElementOfSeq
<1>4. SubSeq(f, 1, n) = g
  <2> DEFINE h == SubSeq(f, 1, n)
  <2>1. h \in Seq(U) /\ Len(h) = Len(g) /\ \A i \in 1 .. Len(h) : h[i] = g[i]
    BY <1>2, <1>3 DEF n
  <2> HIDE DEF h
  <2>2. h = g
    BY <1>1, <2>1, SeqEqual
  <2> QED
    BY <2>2 DEF h
<1>5. FlattenSeq(Append(g, f[n + 1])) = FlattenSeq(g) \o f[n + 1]
  BY <1>2, FlattenAppend DEF U
<1> QED
  BY <1>2, <1>4, <1>5 DEF n

\* One sequence after another.
LEMMA Concatenation ==
  ASSUME NEW S, NEW s \in Seq(S), NEW t \in Seq(S)
  PROVE  /\ s \o t \in Seq(S) /\ Len(s \o t) = Len(s) + Len(t) /\ DOMAIN (s \o t) = 1 .. Len(s) + Len(t)
         /\ Len(s) \in Nat /\ Len(t) \in Nat /\ DOMAIN s = 1 .. Len(s) /\ DOMAIN t = 1 .. Len(t)
         /\ \A i \in 1 .. Len(s) : (s \o t)[i] = s[i]
         /\ \A i \in 1 .. Len(t) : (s \o t)[Len(s) + i] = t[i]
<1>1. s \o t \in Seq(S) /\ Len(s \o t) = Len(s) + Len(t)
  BY ConcatProperties
<1>2. DOMAIN (s \o t) = 1 .. Len(s) + Len(t) /\ Len(s) \in Nat /\ Len(t) \in Nat /\ DOMAIN s = 1 .. Len(s) /\ DOMAIN t = 1 .. Len(t)
  BY <1>1, LenProperties
<1>3. \A i \in 1 .. Len(s) : (s \o t)[i] = s[i]
  BY <1>1, <1>2
<1>4. \A i \in 1 .. Len(t) : (s \o t)[Len(s) + i] = t[i]
  BY <1>1, <1>2
<1> QED
  BY <1>1, <1>2, <1>3, <1>4

---------------------------------------------------------------------------
(* Counting *)

\* RemoveAt takes one item out and moves those behind it up.
LEMMA RemoveAtIndices ==
  ASSUME NEW S, NEW s \in Seq(S), NEW i \in DOMAIN s
  PROVE  /\ Len(s) \in Nat \ {0} /\ i \in 1 .. Len(s) /\ DOMAIN s = 1 .. Len(s)
         /\ DOMAIN RemoveAt(s, i) = 1 .. Len(s) - 1
         /\ \A k \in 1 .. Len(s) - 1 : RemoveAt(s, i)[k] = IF k < i THEN s[k] ELSE s[k + 1]
<1>1. Len(s) \in Nat /\ DOMAIN s = 1 .. Len(s) /\ i \in 1 .. Len(s)
  BY LenProperties
<1> DEFINE a == SubSeq(s, 1, i - 1)
           b == SubSeq(s, i + 1, Len(s))
<1>2. a \in Seq(S) /\ Len(a) = i - 1 /\ \A k \in 1 .. i - 1 : a[k] = s[k]
  <2>1. \A k \in 1 .. i - 1 : s[k] \in S
    BY <1>1, ElementOfSeq
  <2> QED
    BY <1>1, <2>1, SubSeqProperties
<1>3. b \in Seq(S) /\ Len(b) = Len(s) - i /\ \A k \in 1 .. Len(s) - i : b[k] = s[i + k]
  <2>1. \A k \in i + 1 .. Len(s) : s[k] \in S
    BY <1>1, ElementOfSeq
  <2> QED
    BY <1>1, <2>1, SubSeqProperties
<1> HIDE DEF a, b
<1>4. a \o b \in Seq(S) /\ Len(a \o b) = Len(s) - 1
      /\ \A k \in 1 .. Len(s) - 1 : (a \o b)[k] = IF k <= i - 1 THEN a[k] ELSE b[k - (i - 1)]
  <2>1. /\ a \o b \in Seq(S) /\ Len(a \o b) = Len(a) + Len(b)
        /\ \A k \in 1 .. Len(a) + Len(b) : (a \o b)[k] = IF k <= Len(a) THEN a[k] ELSE b[k - Len(a)]
    BY <1>2, <1>3, ConcatProperties
  <2>2. Len(a) + Len(b) = Len(s) - 1
    BY <1>1, <1>2, <1>3
  <2> QED
    BY <1>2, <2>1, <2>2
<1>5. DOMAIN (a \o b) = 1 .. Len(s) - 1
  BY <1>4, LenProperties
<1>6. ASSUME NEW k \in 1 .. Len(s) - 1
      PROVE  (a \o b)[k] = IF k < i THEN s[k] ELSE s[k + 1]
  <2>1. CASE k < i
    BY <1>1, <1>2, <1>4, <2>1
  <2>2. CASE ~(k < i)
    <3>1. k - (i - 1) \in 1 .. Len(s) - i /\ i + (k - (i - 1)) = k + 1
      BY <1>1, <2>2
    <3>2. b[k - (i - 1)] = s[k + 1]
      BY <1>3, <3>1
    <3>3. (a \o b)[k] = b[k - (i - 1)]
      BY <1>1, <1>4, <2>2
    <3> QED
      BY <2>2, <3>2, <3>3
  <2> QED
    BY <2>1, <2>2
<1>7. RemoveAt(s, i) = a \o b
  BY Zenon DEF RemoveAt, a, b
<1>8. Len(s) \in Nat \ {0}
  BY <1>1
<1> QED
  BY <1>1, <1>5, <1>6, <1>7, <1>8, Zenon
\* The positions of s that hold an item of T.
Positions(s, T) == {i \in DOMAIN s : s[i] \in T}

\* The hits of a sequence are finitely many of its positions.
LEMMA PositionsFinite ==
  ASSUME NEW S, NEW s \in Seq(S), NEW T
  PROVE  IsFiniteSet(Positions(s, T)) /\ Cardinality(Positions(s, T)) \in Nat /\ Positions(s, T) \subseteq 1 .. Len(s)
<1>1. Len(s) \in Nat /\ DOMAIN s = 1 .. Len(s)
  BY LenProperties
<1>2. IsFiniteSet(1 .. Len(s))
  BY <1>1, FS_Interval
<1>3. Positions(s, T) \in SUBSET (1 .. Len(s))
  BY <1>1 DEF Positions
<1>4. IsFiniteSet(Positions(s, T))
  BY <1>2, <1>3, FS_Subset
<1> QED
  BY <1>3, <1>4, FS_CardinalityType

\* The empty sequence has none.
LEMMA PositionsEmpty ==
  ASSUME NEW T
  PROVE  Cardinality(Positions(<<>>, T)) = 0
<1>1. Positions(<<>>, T) = {}
  BY DEF Positions
<1> QED
  BY <1>1, FS_EmptySet

\* One more item is one more hit if it is one.
LEMMA PositionsAppend ==
  ASSUME NEW S, NEW s \in Seq(S), NEW e \in S, NEW T
  PROVE  Cardinality(Positions(Append(s, e), T)) = Cardinality(Positions(s, T)) + IF e \in T THEN 1 ELSE 0
<1> DEFINE n == Len(s)
           h == Positions(s, T)
<1>1. n \in Nat /\ DOMAIN s = 1 .. n
  BY LenProperties
<1>2. DOMAIN Append(s, e) = 1 .. n + 1 /\ Append(s, e)[n + 1] = e /\ \A i \in 1 .. n : Append(s, e)[i] = s[i]
  <2>1. Append(s, e) \in Seq(S) /\ Len(Append(s, e)) = n + 1 /\ Append(s, e)[n + 1] = e /\ \A i \in 1 .. n : Append(s, e)[i] = s[i]
    BY AppendProperties
  <2> QED
    BY <2>1, LenProperties
<1>3. IsFiniteSet(h) /\ Cardinality(h) \in Nat /\ h \subseteq 1 .. n
  BY PositionsFinite
<1>4. Positions(Append(s, e), T) = IF e \in T THEN h \union {n + 1} ELSE h
  BY <1>1, <1>2 DEF Positions
<1>5. n + 1 \notin h
  BY <1>1, <1>3
<1> HIDE DEF h
<1>6. Cardinality(h \union {n + 1}) = Cardinality(h) + 1
  BY <1>3, <1>5, FS_AddElement
<1> QED
  BY <1>3, <1>4, <1>6 DEF h

\* Items that are none change nothing.
LEMMA PositionsJoined ==
  ASSUME NEW S, NEW s \in Seq(S), NEW t \in Seq(S), NEW T, \A i \in 1 .. Len(t) : t[i] \notin T
  PROVE  Positions(s \o t, T) = Positions(s, T)
<1>1. /\ DOMAIN (s \o t) = 1 .. Len(s) + Len(t)
      /\ Len(s) \in Nat /\ Len(t) \in Nat /\ DOMAIN s = 1 .. Len(s)
      /\ \A i \in 1 .. Len(s) : (s \o t)[i] = s[i]
      /\ \A i \in 1 .. Len(t) : (s \o t)[Len(s) + i] = t[i]
  BY Concatenation
<1>2. ASSUME NEW i \in DOMAIN (s \o t), i \notin DOMAIN s PROVE (s \o t)[i] \notin T
  <2>1. i - Len(s) \in 1 .. Len(t) /\ i = Len(s) + (i - Len(s))
    BY <1>1, <1>2
  <2>2. (s \o t)[i] = t[i - Len(s)]
    BY <1>1, <2>1
  <2> QED
    BY <2>1, <2>2
<1>3. \A i \in DOMAIN s : i \in DOMAIN (s \o t) /\ (s \o t)[i] = s[i]
  BY <1>1
<1> QED
  BY <1>2, <1>3 DEF Positions

\* One item fewer is one hit fewer if it was one.
LEMMA PositionsRemoveAt ==
  ASSUME NEW S, NEW s \in Seq(S), NEW i \in DOMAIN s, NEW T
  PROVE  Cardinality(Positions(RemoveAt(s, i), T)) = Cardinality(Positions(s, T)) - IF s[i] \in T THEN 1 ELSE 0
<1> DEFINE u == RemoveAt(s, i)
           a == Positions(s, T) \ {i}
           b == Positions(u, T)
           f == [j \in a |-> IF j < i THEN j ELSE j - 1]
<1>1. /\ Len(s) \in Nat \ {0} /\ i \in 1 .. Len(s) /\ DOMAIN s = 1 .. Len(s)
      /\ DOMAIN u = 1 .. Len(s) - 1
      /\ \A k \in 1 .. Len(s) - 1 : u[k] = IF k < i THEN s[k] ELSE s[k + 1]
  BY RemoveAtIndices
<1> HIDE DEF u
<1>2. IsFiniteSet(Positions(s, T)) /\ Positions(s, T) \subseteq 1 .. Len(s) /\ Cardinality(Positions(s, T)) \in Nat
  BY PositionsFinite
<1>3. IsFiniteSet(a) /\ Cardinality(a) = Cardinality(Positions(s, T)) - IF s[i] \in T THEN 1 ELSE 0
  <2>1. i \in Positions(s, T) <=> s[i] \in T
    BY DEF Positions
  <2> QED
    BY <1>2, <2>1, FS_RemoveElement
<1>4. \A j \in a : j \in 1 .. Len(s) /\ j # i /\ s[j] \in T
  BY <1>1 DEF Positions
<1>5. \A k \in b : k \in 1 .. Len(s) - 1 /\ u[k] \in T
  BY <1>1 DEF Positions
<1>6. ASSUME NEW j \in a PROVE f[j] \in b
  <2>1. CASE j < i
    BY <1>1, <1>4, <2>1 DEF Positions
  <2>2. CASE ~(j < i)
    <3>1. j - 1 \in 1 .. Len(s) - 1 /\ ~(j - 1 < i) /\ (j - 1) + 1 = j
      BY <1>1, <1>4, <2>2
    <3>2. u[j - 1] = s[j]
      BY <1>1, <3>1
    <3> QED
      BY <1>1, <1>4, <2>2, <3>1, <3>2 DEF Positions
  <2> QED
    BY <2>1, <2>2
<1>7. ASSUME NEW k \in b PROVE \E j \in a : f[j] = k
  <2>1. CASE k < i
    <3>1. k \in a
      BY <1>1, <1>5, <2>1 DEF Positions
    <3> QED
      BY <2>1, <3>1
  <2>2. CASE ~(k < i)
    <3>1. k + 1 \in 1 .. Len(s) /\ k + 1 # i /\ ~(k + 1 < i) /\ (k + 1) - 1 = k /\ u[k] = s[k + 1]
      BY <1>1, <1>5, <2>2
    <3>2. k + 1 \in a
      BY <1>1, <1>5, <3>1 DEF Positions
    <3> QED
      BY <3>1, <3>2
  <2> QED
    BY <2>1, <2>2
<1>8. ASSUME NEW j \in a, NEW k \in a, f[j] = f[k] PROVE j = k
  BY <1>1, <1>4, <1>8
<1> HIDE DEF a, b
<1>9. f \in Surjection(a, b) /\ f \in Injection(a, b)
  <2>1. f \in [a -> b]
    BY <1>6
  <2> HIDE DEF f
  <2>2. DOMAIN f = a
    BY <2>1
  <2> QED
    BY <1>7, <1>8, <2>1, <2>2 DEF Surjection, Injection, IsInjective
<1> HIDE DEF f
<1>10. Cardinality(b) = Cardinality(a)
  BY <1>3, <1>9, FS_Surjection
<1> QED
  BY <1>3, <1>10 DEF b, u

\* A set of numbers that is not empty has a least one.
LEMMA LeastExists ==
  ASSUME NEW T \in SUBSET Nat, T # {}
  PROVE  \E n \in T : \A m \in T : n <= m
<1> DEFINE less == {pair \in Nat \X Nat : pair[1] < pair[2]}
<1>1. IsWellFoundedOn(less, Nat)
  BY NatLessThanWellFounded, Zenon DEF OpToRel
<1> HIDE DEF less
<1>2. PICK x \in T : \A y \in T : ~(<<y, x>> \in less)
  BY <1>1, WFMin
<1>3. ASSUME NEW y \in T, y < x PROVE FALSE
  <2>1. <<y, x>> \in less
    BY <1>3 DEF less
  <2> QED
    BY <1>2, <2>1
<1> QED
  BY <1>3

---------------------------------------------------------------------------
(* Sums *)

\* f sums g from 0 up.
Sums(f, g, n) == f = [i \in 0 .. n |-> IF i = 0 THEN 0 ELSE f[i - 1] + g[i - 1]]

\* Every function has sums up to n.
LEMMA SumsExist ==
  ASSUME NEW g, NEW n \in Nat
  PROVE  \E f : Sums(f, g, n)
<1> DEFINE T == {m \in Nat : \E f : Sums(f, g, m)}
<1>1. 0 \in T
  <2>1. \A i \in 0 .. 0 : i = 0
    OBVIOUS
  <2>2. Sums([i \in 0 .. 0 |-> 0], g, 0)
    BY <2>1 DEF Sums
  <2> QED
    BY <2>2
<1>2. ASSUME NEW m \in Nat, m \in T PROVE m + 1 \in T
  <2>1. PICK f : Sums(f, g, m)
    BY <1>2
  <2>2. \A i \in 0 .. m : f[i] = IF i = 0 THEN 0 ELSE f[i - 1] + g[i - 1]
    BY <2>1, Zenon DEF Sums
  <2> DEFINE h == [i \in 0 .. m + 1 |-> IF i = m + 1 THEN f[m] + g[m] ELSE f[i]]
  <2>3. /\ \A i \in 0 .. m : h[i] = f[i]
        /\ h[m + 1] = f[m] + g[m]
        /\ h = [i \in 0 .. m + 1 |-> h[i]]
    OBVIOUS
  <2> HIDE DEF h
  <2>4. ASSUME NEW i \in 0 .. m + 1 PROVE h[i] = IF i = 0 THEN 0 ELSE h[i - 1] + g[i - 1]
    <3>1. CASE i = m + 1
      <4>1. i # 0 /\ i - 1 = m /\ m \in 0 .. m
        BY <3>1
      <4> QED
        BY <2>3, <3>1, <4>1
    <3>2. CASE i # m + 1
      <4>1. i \in 0 .. m /\ (i # 0 => i - 1 \in 0 .. m)
        BY <3>2
      <4> QED
        BY <2>2, <2>3, <4>1
    <3> QED
      BY <3>1, <3>2
  <2>5. h = [i \in 0 .. m + 1 |-> IF i = 0 THEN 0 ELSE h[i - 1] + g[i - 1]]
    BY <2>3, <2>4
  <2> QED
    BY <2>5 DEF Sums
<1>3. n \in T
  <2> HIDE DEF T
  <2> QED
    BY <1>1, <1>2, EveryNumberIn
<1> QED
  BY <1>3

\* Where g2 is g with d more at k, its sums have d more beyond k.
LEMMA SumsDiffer ==
  ASSUME NEW n \in Nat, NEW n2 \in Nat, n <= n2, NEW g, NEW g2, NEW k \in Int, NEW d \in Int, NEW f, NEW f2,
         Sums(f, g, n), Sums(f2, g2, n2),
         \A i \in 0 .. n - 1 : g[i] \in Int /\ g2[i] = IF i = k THEN g[i] + d ELSE g[i]
  PROVE  \A i \in 0 .. n : f[i] \in Int /\ f2[i] = IF 0 <= k /\ k < i THEN f[i] + d ELSE f[i]
<1> DEFINE T == {m \in Nat : m <= n => f[m] \in Int /\ f2[m] = IF 0 <= k /\ k < m THEN f[m] + d ELSE f[m]}
<1>1. /\ \A i \in 0 .. n : f[i] = IF i = 0 THEN 0 ELSE f[i - 1] + g[i - 1]
      /\ \A i \in 0 .. n2 : f2[i] = IF i = 0 THEN 0 ELSE f2[i - 1] + g2[i - 1]
  BY Zenon DEF Sums
<1>2. 0 \in T
  BY <1>1
<1>3. ASSUME NEW m \in Nat, m \in T PROVE m + 1 \in T
  <2> SUFFICES ASSUME m + 1 <= n
               PROVE  f[m + 1] \in Int /\ f2[m + 1] = IF 0 <= k /\ k < m + 1 THEN f[m + 1] + d ELSE f[m + 1]
    OBVIOUS
  <2>1. m + 1 \in 0 .. n /\ m + 1 \in 0 .. n2 /\ m + 1 # 0 /\ (m + 1) - 1 = m /\ m \in 0 .. n - 1
    OBVIOUS
  <2>2. f[m + 1] = f[m] + g[m] /\ f2[m + 1] = f2[m] + g2[m]
    BY <1>1, <2>1
  <2>3. f[m] \in Int /\ f2[m] = IF 0 <= k /\ k < m THEN f[m] + d ELSE f[m]
    BY <1>3, <2>1
  <2>4. g[m] \in Int /\ g2[m] = IF m = k THEN g[m] + d ELSE g[m]
    BY <2>1
  <2>5. PICK a, b, a2, b2 : a = f[m] /\ b = g[m] /\ a2 = f2[m] /\ b2 = g2[m]
    OBVIOUS
  <2>6. f[m + 1] = a + b /\ f2[m + 1] = a2 + b2 /\ a \in Int /\ b \in Int
    BY <2>2, <2>3, <2>4, <2>5
  <2>7. (a2 = IF 0 <= k /\ k < m THEN a + d ELSE a) /\ (b2 = IF m = k THEN b + d ELSE b)
    BY <2>3, <2>4, <2>5
  <2> QED
    BY <2>6, <2>7
<1>4. \A m \in Nat : m \in T
  <2> HIDE DEF T
  <2> QED
    BY <1>2, <1>3, EveryNumberIn
<1> QED
  BY <1>4

=============================================================================
