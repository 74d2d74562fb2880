----------------------------- MODULE ListLemmas -----------------------------
(***************************************************************************)
(* What erasing from and inserting into a std::vector does to its length   *)
(* and its elements, that a set of numbers has a least element and what    *)
(* induction over it gives, and what adding up a list comes to.            *)
(***************************************************************************)
EXTENDS Integers, SequencesExt, SequenceTheorems, FiniteSetTheorems,
        WellFoundedInduction, TLAPS

(* Erasing one element of a list, as std::vector::erase does. *)
LEMMA RemoveAtProperties ==
  ASSUME NEW S, NEW s \in Seq(S), NEW i \in 1 .. Len(s)
  PROVE  /\ RemoveAt(s, i) \in Seq(S)
         /\ Len(RemoveAt(s, i)) = Len(s) - 1
         /\ \A j \in 1 .. Len(s) - 1 :
              RemoveAt(s, i)[j] = IF j < i THEN s[j] ELSE s[j + 1]
<1> DEFINE a == SubSeq(s, 1, i - 1)
           b == SubSeq(s, i + 1, Len(s))
<1>0. Len(s) \in Nat /\ i \in Int
  BY LenProperties
<1>1. a \in Seq(S) /\ Len(a) = i - 1 /\ \A j \in 1 .. i - 1 : a[j] = s[j]
  BY <1>0, SubSeqProperties
<1>2. b \in Seq(S) /\ Len(b) = Len(s) - i /\ \A j \in 1 .. Len(s) - i : b[j] = s[i + j]
  BY <1>0, SubSeqProperties
<1>3. RemoveAt(s, i) = a \o b
  BY DEF RemoveAt
<1> HIDE DEF a, b
<1>4. /\ a \o b \in Seq(S)
      /\ Len(a \o b) = Len(a) + Len(b)
      /\ \A j \in 1 .. Len(a) + Len(b) :
           (a \o b)[j] = IF j <= Len(a) THEN a[j] ELSE b[j - Len(a)]
  BY <1>1, <1>2, ConcatProperties
<1>5. Len(a) + Len(b) = Len(s) - 1
  BY <1>0, <1>1, <1>2
<1>6. ASSUME NEW j \in 1 .. Len(s) - 1
      PROVE  (a \o b)[j] = IF j < i THEN s[j] ELSE s[j + 1]
  <2>1. CASE j < i
    BY <2>1, <1>0, <1>1, <1>4, <1>5
  <2>2. CASE ~(j < i)
    <3>1. (a \o b)[j] = b[j - (i - 1)]
      BY <2>2, <1>0, <1>1, <1>4, <1>5
    <3>2. j - (i - 1) \in 1 .. Len(s) - i
      BY <2>2, <1>0
    <3>3. b[j - (i - 1)] = s[i + (j - (i - 1))] /\ i + (j - (i - 1)) = j + 1
      BY <3>2, <1>0, <1>2
    <3>4. QED
      BY <2>2, <3>1, <3>3
  <2>3. QED
    BY <2>1, <2>2
<1>7. QED
  BY <1>3, <1>4, <1>5, <1>6

(* The swap that brings the best band to the front. *)
LEMMA SwapProperties ==
  ASSUME NEW S, NEW s \in Seq(S), NEW k \in 1 .. Len(s)
  PROVE  LET r == [s EXCEPT ![1] = s[k], ![k] = s[1]]
         IN /\ r \in Seq(S) /\ Len(r) = Len(s)
            /\ r[1] = s[k] /\ r[k] = s[1]
            /\ \A j \in 1 .. Len(s) : j # 1 /\ j # k => r[j] = s[j]
  OBVIOUS

(* A set of numbers that is not empty has a least element. *)
LEMMA SmallestOf ==
  ASSUME NEW S, S \subseteq Nat, S # {}
  PROVE  \E m \in S : \A n \in S : m <= n
<1>1. \E m \in S : \A n \in S : <<n, m>> \notin OpToRel(<, Nat)
  BY WFMin, NatLessThanWellFounded, Zenon
<1>2. PICK m \in S : \A n \in S : <<n, m>> \notin OpToRel(<, Nat)
  BY <1>1
<1>3. ASSUME NEW n \in S PROVE m <= n
  <2>1. ~(n < m)
    BY <1>2, <1>3, Zenon DEF OpToRel
  <2>2. m \in Nat /\ n \in Nat
    OBVIOUS
  <2>3. QED
    BY <2>1, <2>2
<1>4. QED
  BY <1>3

(* Induction, for a set of numbers instead of a predicate. *)
LEMMA NatSetInduction ==
  ASSUME NEW S, 0 \in S, \A n \in Nat : n \in S => n + 1 \in S
  PROVE  \A n \in Nat : n \in S
<1> DEFINE T == {n \in Nat : n \notin S}
<1> SUFFICES ASSUME T # {} PROVE FALSE
  OBVIOUS
<1>1. PICK m \in T : \A n \in T : m <= n
  <2>1. T \subseteq Nat
    OBVIOUS
  <2> HIDE DEF T
  <2>2. QED
    BY <2>1, SmallestOf
<1>2. m \in Nat /\ m # 0
  OBVIOUS
<1>3. m - 1 \in Nat /\ m - 1 \notin T
  BY <1>1, <1>2
<1>4. QED
  BY <1>2, <1>3

(* Of a set of indices Min() is the least one. *)
LEMMA MinIsMember ==
  ASSUME NEW T, T \subseteq Nat, T # {}
  PROVE  Min(T) \in T /\ \A y \in T : Min(T) <= y
<1>1. \E x \in T : \A y \in T : x <= y
  BY SmallestOf
<1>2. QED
  BY <1>1, Zenon DEF Min

(* The greatest of a set of indices. *)
LEMMA MaxIs ==
  ASSUME NEW s, s \subseteq Nat, NEW m \in s, \A y \in s : y <= m
  PROVE  Max(s) = m
<1>1. \E x \in s : \A y \in s : x >= y
  OBVIOUS
<1>2. Max(s) \in s /\ \A y \in s : Max(s) >= y
  BY <1>1, Zenon DEF Max
<1>3. Max(s) \in Nat /\ Max(s) >= m /\ m >= Max(s) /\ m \in Nat
  BY <1>2
<1>4. QED
  BY <1>3

(* Of indices below a bound there is a greatest, and Max() is it. *)
LEMMA MaxIsMember ==
  ASSUME NEW n \in Nat, NEW T, T \subseteq 1 .. n, T # {}
  PROVE  Max(T) \in T /\ \A y \in T : y <= Max(T)
<1> DEFINE S == {n - y : y \in T}
<1>1. PICK m \in S : \A x \in S : m <= x
  <2>1. \A y \in T : n - y \in Nat
    OBVIOUS
  <2>2. S \subseteq Nat /\ S # {}
    BY <2>1
  <2> HIDE DEF S
  <2>3. QED
    BY <2>2, SmallestOf
<1>2. PICK k \in T : m = n - k
  OBVIOUS
<1>3. T \subseteq Nat
  OBVIOUS
<1>4. ASSUME NEW y \in T PROVE y <= k
  <2>1. n - k <= n - y
    BY <1>1, <1>2
  <2>2. QED
    BY <2>1, <1>3
<1>5. Max(T) = k
  BY <1>3, <1>4, MaxIs
<1>6. QED
  BY <1>4, <1>5

(* Inserting one element, as std::vector::insert does. *)
LEMMA InsertAtProperties ==
  ASSUME NEW S, NEW s \in Seq(S), NEW e \in S, NEW i \in 1 .. Len(s) + 1
  PROVE  /\ InsertAt(s, i, e) \in Seq(S)
         /\ Len(InsertAt(s, i, e)) = Len(s) + 1
         /\ \A j \in 1 .. Len(s) + 1 :
              InsertAt(s, i, e)[j] = IF j < i THEN s[j] ELSE IF j = i THEN e ELSE s[j - 1]
<1> DEFINE a == SubSeq(s, 1, i - 1)
           b == SubSeq(s, i, Len(s))
           c == a \o <<e>>
<1>0. Len(s) \in Nat /\ i \in Int
  BY LenProperties
<1>1. a \in Seq(S) /\ Len(a) = i - 1 /\ \A j \in 1 .. i - 1 : a[j] = s[j]
  BY <1>0, SubSeqProperties
<1>2. b \in Seq(S) /\ Len(b) = Len(s) - i + 1
      /\ \A j \in 1 .. Len(s) - i + 1 : b[j] = s[i + j - 1]
  BY <1>0, SubSeqProperties
<1>3. <<e>> \in Seq(S) /\ Len(<<e>>) = 1 /\ <<e>>[1] = e
  OBVIOUS
<1> HIDE DEF a, b
<1>4. /\ c \in Seq(S) /\ Len(c) = i
      /\ \A j \in 1 .. i : c[j] = IF j <= i - 1 THEN a[j] ELSE <<e>>[j - (i - 1)]
  BY <1>0, <1>1, <1>3, ConcatProperties
<1>5. \A j \in 1 .. i : c[j] = IF j < i THEN s[j] ELSE e
  BY <1>0, <1>1, <1>3, <1>4
<1>6. InsertAt(s, i, e) = c \o b
  BY DEF InsertAt, a, b
<1> HIDE DEF c
<1>7. /\ c \o b \in Seq(S) /\ Len(c \o b) = Len(s) + 1
      /\ \A j \in 1 .. Len(s) + 1 : (c \o b)[j] = IF j <= i THEN c[j] ELSE b[j - i]
  <2>1. /\ c \o b \in Seq(S) /\ Len(c \o b) = Len(c) + Len(b)
        /\ \A j \in 1 .. Len(c) + Len(b) :
             (c \o b)[j] = IF j <= Len(c) THEN c[j] ELSE b[j - Len(c)]
    BY <1>2, <1>4, ConcatProperties
  <2>2. Len(c) = i /\ Len(c) + Len(b) = Len(s) + 1
    BY <1>0, <1>2, <1>4
  <2>3. QED
    BY <2>1, <2>2
<1>8. ASSUME NEW j \in 1 .. Len(s) + 1
      PROVE  (c \o b)[j] = IF j < i THEN s[j] ELSE IF j = i THEN e ELSE s[j - 1]
  <2>1. CASE j <= i
    BY <2>1, <1>0, <1>5, <1>7
  <2>2. CASE ~(j <= i)
    <3>1. (c \o b)[j] = b[j - i] /\ j - i \in 1 .. Len(s) - i + 1
      BY <2>2, <1>0, <1>7
    <3>2. b[j - i] = s[i + (j - i) - 1] /\ i + (j - i) - 1 = j - 1
      BY <3>1, <1>0, <1>2
    <3>3. QED
      BY <2>2, <3>1, <3>2, <1>0
  <2>3. QED
    BY <2>1, <2>2
<1>9. QED
  BY <1>6, <1>7, <1>8

(* Erasing k elements behind the first one. *)
LEMMA CutProperties ==
  ASSUME NEW S, NEW s \in Seq(S), NEW k \in Nat, k < Len(s)
  PROVE  LET r == <<s[1]>> \o SubSeq(s, k + 2, Len(s))
         IN /\ r \in Seq(S) /\ Len(r) = Len(s) - k
            /\ \A j \in 1 .. Len(s) - k : r[j] = IF j = 1 THEN s[1] ELSE s[j + k]
<1> DEFINE a == <<s[1]>>
           b == SubSeq(s, k + 2, Len(s))
<1>0. Len(s) \in Nat
  BY LenProperties
<1>1. a \in Seq(S) /\ Len(a) = 1 /\ a[1] = s[1]
  BY <1>0
<1>2. b \in Seq(S) /\ Len(b) = Len(s) - k - 1
      /\ \A j \in 1 .. Len(s) - k - 1 : b[j] = s[k + 2 + j - 1]
  BY <1>0, SubSeqProperties
<1> HIDE DEF a, b
<1>3. /\ a \o b \in Seq(S) /\ Len(a \o b) = Len(s) - k
      /\ \A j \in 1 .. Len(s) - k : (a \o b)[j] = IF j <= 1 THEN a[j] ELSE b[j - 1]
  <2>1. /\ a \o b \in Seq(S) /\ Len(a \o b) = Len(a) + Len(b)
        /\ \A j \in 1 .. Len(a) + Len(b) :
             (a \o b)[j] = IF j <= Len(a) THEN a[j] ELSE b[j - Len(a)]
    BY <1>1, <1>2, ConcatProperties
  <2>2. Len(a) = 1 /\ Len(a) + Len(b) = Len(s) - k
    BY <1>0, <1>1, <1>2
  <2>3. QED
    BY <2>1, <2>2
<1>4. ASSUME NEW j \in 1 .. Len(s) - k
      PROVE  (a \o b)[j] = IF j = 1 THEN s[1] ELSE s[j + k]
  <2>1. CASE j = 1
    BY <2>1, <1>1, <1>3
  <2>2. CASE j # 1
    <3>1. (a \o b)[j] = b[j - 1] /\ j - 1 \in 1 .. Len(s) - k - 1
      BY <2>2, <1>0, <1>3
    <3>2. b[j - 1] = s[k + 2 + (j - 1) - 1] /\ k + 2 + (j - 1) - 1 = j + k
      BY <3>1, <1>0, <1>2
    <3>3. QED
      BY <2>2, <3>1, <3>2
  <2>3. QED
    BY <2>1, <2>2
<1>5. QED
  BY <1>3, <1>4 DEF a, b

-----------------------------------------------------------------------------
(* What FoldSeq() adds up, it adds up in any order. *)
LEMMA SumOfPrefixes ==
  ASSUME NEW s \in Seq(Nat)
  PROVE  \E f \in [0 .. Len(s) -> Nat] :
           /\ f[0] = 0
           /\ \A k \in 1 .. Len(s) : f[k] = f[k - 1] + s[k]
           /\ FoldSeq(+, 0, s) = f[Len(s)]
<1> DEFINE D == 1 .. Len(s)
           Some(t) == CHOOSE x \in t : TRUE
           Def(g, t) == IF t = {} THEN 0 ELSE s[Some(t)] + g[t \ {Some(t)}]
           iter == CHOOSE g : g = [t \in SUBSET D |-> Def(g, t)]
           Small(n) == {t \in SUBSET D : Cardinality(t) <= n}
           Rec(g, n) == g = [t \in Small(n) |-> Def(g, t)]
           N == {n \in Nat : \E g : Rec(g, n)}
<1>1. /\ Len(s) \in Nat /\ DOMAIN s = D /\ IsFiniteSet(D) /\ Cardinality(D) = Len(s)
      /\ \A x \in D : s[x] \in Nat
  <2>1. Len(s) \in Nat /\ DOMAIN s = D /\ \A x \in D : s[x] \in Nat
    OBVIOUS
  <2>2. IsFiniteSet(1 .. Len(s)) /\ Cardinality(1 .. Len(s)) = Len(s)
    BY <2>1, FS_Interval
  <2>3. QED
    BY <2>1, <2>2
<1>2. FoldSeq(+, 0, s) = iter[D]
  <2>1. FoldSeq(+, 0, s) = (CHOOSE g : g = [t \in SUBSET DOMAIN s |-> Def(g, t)])[DOMAIN s]
    BY Zenon DEF FoldSeq, FoldFunction, FoldFunctionOnSet, MapThenFoldSet
  <2>2. QED
    BY <1>1, <2>1, Zenon
<1>3. ASSUME NEW t \in SUBSET D
      PROVE  /\ IsFiniteSet(t) /\ Cardinality(t) \in Nat
             /\ Cardinality(t) = 0 <=> t = {}
             /\ \A x \in t : t \ {x} \in SUBSET D /\ Cardinality(t \ {x}) = Cardinality(t) - 1
             /\ Cardinality(t) <= Len(s)
  <2> HIDE DEF D
  <2>1. IsFiniteSet(t) /\ Cardinality(t) <= Cardinality(D)
    BY <1>1, FS_Subset
  <2>2. Cardinality(t) \in Nat /\ (Cardinality(t) = 0 <=> t = {})
    BY <2>1, FS_CardinalityType, FS_EmptySet
  <2>3. \A x \in t : Cardinality(t \ {x}) = Cardinality(t) - 1
    BY <2>1, FS_RemoveElement
  <2>4. QED
    BY <1>1, <2>1, <2>2, <2>3
<1>4. \A t : t # {} => Some(t) \in t
  OBVIOUS
<1> HIDE DEF D, Some
<1>5. \A n \in Nat : n \in N
  <2>1. 0 \in N
    <3>1. \A t \in Small(0) : t = {}
      BY <1>3
    <3>2. Rec([t \in Small(0) |-> 0], 0)
      BY <3>1
    <3>3. QED
      BY <3>2
  <2>2. ASSUME NEW n \in Nat, n \in N PROVE n + 1 \in N
    <3>1. PICK g : Rec(g, n)
      BY <2>2
    <3> DEFINE h == [t \in Small(n + 1) |-> Def(g, t)]
    <3>2. ASSUME NEW t \in Small(n + 1) PROVE h[t] = Def(h, t)
      <4>1. CASE t = {}
        BY <4>1
      <4>2. CASE t # {}
        <5> DEFINE u == t \ {Some(t)}
        <5>1. u \in Small(n) /\ u \in Small(n + 1)
          BY <1>3, <1>4, <4>2
        <5>2. g[u] = Def(g, u)
          BY <3>1, <5>1
        <5>3. h[u] = Def(g, u)
          BY <5>1
        <5>4. h[t] = s[Some(t)] + g[u]
          BY <4>2
        <5> HIDE DEF h, u
        <5>5. h[t] = s[Some(t)] + h[u]
          BY <5>2, <5>3, <5>4
        <5>6. QED
          BY <4>2, <5>5 DEF u
      <4>3. QED
        BY <4>1, <4>2
    <3>3. h = [t \in Small(n + 1) |-> h[t]]
      OBVIOUS
    <3> HIDE DEF h, Def, Small
    <3>4. Rec(h, n + 1)
      BY <3>2, <3>3
    <3>5. QED
      BY <3>4
  <2> HIDE DEF N
  <2>3. QED
    BY <2>1, <2>2, NatSetInduction
<1>6. iter = [t \in SUBSET D |-> Def(iter, t)]
  <2>1. Small(Len(s)) = SUBSET D
    BY <1>1, <1>3
  <2>2. \E g : g = [t \in SUBSET D |-> Def(g, t)]
    BY <1>1, <1>5, <2>1
  <2> HIDE DEF Def
  <2>3. QED
    BY <2>2
<1> HIDE DEF iter
<1> DEFINE Sums(t) == iter[t] \in Nat /\ \A x \in t : iter[t] = s[x] + iter[t \ {x}]
           K == {n \in Nat : \A t \in SUBSET D : Cardinality(t) <= n => Sums(t)}
<1>7. \A n \in Nat : n \in K
  <2>0. Sums({})
    <3>1. iter[{}] = 0
      BY <1>6
    <3>2. QED
      BY <3>1
  <2>1. 0 \in K
    <3>1. \A t \in SUBSET D : Cardinality(t) <= 0 => t = {}
      BY <1>3
    <3> HIDE DEF Sums
    <3>2. QED
      BY <2>0, <3>1
  <2>2. ASSUME NEW n \in Nat, n \in K PROVE n + 1 \in K
    <3>0. ASSUME NEW t \in SUBSET D, Cardinality(t) <= n + 1, t # {} PROVE Sums(t)
      <4> DEFINE c == Some(t)
      <4>1. c \in t
        BY <1>4, <3>0
      <4>2. iter[t] = s[c] + iter[t \ {c}]
        BY <1>6, <4>1
      <4> HIDE DEF c
      <4>3. \A x \in t : t \ {x} \in SUBSET D /\ Cardinality(t \ {x}) <= n
        BY <1>3, <3>0
      <4>4. \A x \in t : Sums(t \ {x})
        BY <2>2, <4>3
      <4>5. s[c] \in Nat /\ iter[t \ {c}] \in Nat
        BY <1>1, <4>1, <4>4
      <4>6. iter[t] \in Nat
        BY <4>2, <4>5
      <4>7. ASSUME NEW x \in t, x # c PROVE iter[t] = s[x] + iter[t \ {x}]
        <5> DEFINE u == (t \ {c}) \ {x}
        <5>1. iter[t \ {c}] = s[x] + iter[u]
          BY <4>1, <4>4, <4>7
        <5>2. u = (t \ {x}) \ {c}
          OBVIOUS
        <5>3. iter[t \ {x}] = s[c] + iter[u]
          BY <4>1, <4>4, <4>7, <5>2
        <5>4. u \in SUBSET D /\ Cardinality(u) <= n
          <6>1. Cardinality(u) = Cardinality(t \ {c}) - 1 /\ Cardinality(t \ {c}) \in Nat
            BY <1>3, <4>1, <4>7
          <6>2. QED
            BY <4>1, <4>3, <6>1
        <5>5. iter[u] \in Nat /\ s[x] \in Nat
          BY <1>1, <2>2, <5>4
        <5> HIDE DEF u
        <5>6. QED
          BY <4>2, <4>5, <5>1, <5>3, <5>5
      <4>8. QED
        BY <4>2, <4>6, <4>7
    <3> HIDE DEF Sums
    <3>1. \A t \in SUBSET D : Cardinality(t) <= n + 1 => Sums(t)
      BY <2>0, <3>0
    <3>2. QED
      BY <3>1
  <2> HIDE DEF K, Sums
  <2>3. QED
    BY <2>1, <2>2, NatSetInduction
<1>8. \A t \in SUBSET D : Sums(t)
  BY <1>3, <1>7
<1> DEFINE f == [k \in 0 .. Len(s) |-> iter[1 .. k]]
<1>9. \A k \in 0 .. Len(s) : 1 .. k \in SUBSET D
  BY <1>1 DEF D
<1>10. f \in [0 .. Len(s) -> Nat]
  BY <1>8, <1>9
<1>11. f[0] = 0
  <2>1. 1 .. 0 = {} /\ 0 \in 0 .. Len(s)
    BY <1>1
  <2>2. iter[{}] = 0
    BY <1>6
  <2>3. QED
    BY <2>1, <2>2
<1>12. ASSUME NEW k \in 1 .. Len(s) PROVE f[k] = f[k - 1] + s[k]
  <2>1. k \in 1 .. k /\ (1 .. k) \ {k} = 1 .. k - 1 /\ k \in 0 .. Len(s) /\ k - 1 \in 0 .. Len(s)
    BY <1>1
  <2>2. iter[1 .. k] = s[k] + iter[1 .. k - 1]
    BY <1>8, <1>9, <2>1
  <2>3. s[k] \in Nat /\ f[k - 1] \in Nat /\ f[k] = iter[1 .. k] /\ f[k - 1] = iter[1 .. k - 1]
    BY <1>1, <1>10, <2>1 DEF D
  <2>4. QED
    BY <2>2, <2>3
<1>13. FoldSeq(+, 0, s) = f[Len(s)]
  <2>1. f[Len(s)] = iter[1 .. Len(s)]
    BY <1>1
  <2>2. QED
    BY <1>2, <2>1, Zenon DEF D
<1>14. QED
  BY <1>10, <1>11, <1>12, <1>13

(* f and g are the prefix sums of two lists, of which the second splits    *)
(* the j-th term of the first in two.                                      *)
PrefixesOfSplit(n, j, a, b, f, g) ==
  /\ n \in Nat /\ j \in 1 .. n
  /\ f \in [0 .. n -> Nat] /\ g \in [0 .. n + 1 -> Nat]
  /\ f[0] = 0 /\ g[0] = 0
  /\ \A k \in 1 .. n : a[k] \in Nat /\ f[k] = f[k - 1] + a[k]
  /\ \A k \in 1 .. n + 1 : b[k] \in Nat /\ g[k] = g[k - 1] + b[k]
  /\ \A k \in 1 .. j - 1 : b[k] = a[k]
  /\ b[j] + b[j + 1] = a[j]
  /\ \A k \in j + 1 .. n : b[k + 1] = a[k]

SameTotal(n, f, g) == g[n + 1] = f[n]

LEMMA SplitPrefixes ==
  ASSUME NEW n, NEW j, NEW a, NEW b, NEW f, NEW g, PrefixesOfSplit(n, j, a, b, f, g)
  PROVE  SameTotal(n, f, g)
<1>p. /\ n \in Nat /\ j \in 1 .. n
      /\ f \in [0 .. n -> Nat] /\ g \in [0 .. n + 1 -> Nat]
      /\ f[0] = 0 /\ g[0] = 0
      /\ \A k \in 1 .. n : a[k] \in Nat /\ f[k] = f[k - 1] + a[k]
      /\ \A k \in 1 .. n + 1 : b[k] \in Nat /\ g[k] = g[k - 1] + b[k]
      /\ \A k \in 1 .. j - 1 : b[k] = a[k]
      /\ b[j] + b[j + 1] = a[j]
      /\ \A k \in j + 1 .. n : b[k + 1] = a[k]
  BY DEF PrefixesOfSplit
<1> DEFINE K == {k \in Nat : k <= n => IF k < j THEN g[k] = f[k] ELSE g[k + 1] = f[k]}
<1>0. j \in Nat /\ j >= 1 /\ j <= n /\ n \in Nat
  BY <1>p
<1>1. 0 \in K
  BY <1>0, <1>p
<1>2. ASSUME NEW k \in Nat, k \in K PROVE k + 1 \in K
  <2> SUFFICES ASSUME k + 1 <= n
               PROVE  IF k + 1 < j THEN g[k + 1] = f[k + 1] ELSE g[k + 2] = f[k + 1]
    OBVIOUS
  <2>0. k + 1 \in 1 .. n /\ k + 1 \in 1 .. n + 1 /\ k + 2 \in 1 .. n + 1 /\ k \in 0 .. n /\ k \in 0 .. n + 1
    BY <1>0
  <2>1. /\ f[k + 1] = f[k] + a[k + 1] /\ g[k + 1] = g[k] + b[k + 1]
        /\ g[k + 2] = g[k + 1] + b[k + 2]
    <3>1. (k + 1) - 1 = k /\ (k + 2) - 1 = k + 1
      OBVIOUS
    <3>2. f[k + 1] = f[(k + 1) - 1] + a[k + 1] /\ g[k + 1] = g[(k + 1) - 1] + b[k + 1]
      BY <1>p, <2>0
    <3>3. g[k + 2] = g[(k + 2) - 1] + b[k + 2]
      BY <1>p, <2>0
    <3>4. QED
      BY <3>1, <3>2, <3>3
  <2>2. /\ f[k] \in Nat /\ g[k] \in Nat /\ g[k + 1] \in Nat
        /\ a[k + 1] \in Nat /\ b[k + 1] \in Nat /\ b[k + 2] \in Nat
    <3>1. f[k] \in Nat /\ g[k] \in Nat /\ g[k + 1] \in Nat
      <4>1. k + 1 \in 0 .. n + 1
        BY <1>p, <2>0
      <4>2. QED
        BY <1>p, <2>0, <4>1
    <3>2. a[k + 1] \in Nat
      BY <1>p, <2>0
    <3>3. b[k + 1] \in Nat /\ b[k + 2] \in Nat
      BY <1>p, <2>0
    <3>4. QED
      BY <3>1, <3>2, <3>3
  <2>3. IF k < j THEN g[k] = f[k] ELSE g[k + 1] = f[k]
    BY <1>0, <1>2
  <2>4. CASE k + 1 < j
    <3>1. k + 1 \in 1 .. j - 1
      BY <1>0, <2>4
    <3>2. b[k + 1] = a[k + 1]
      BY <1>p, <3>1
    <3>3. g[k] = f[k]
      BY <1>0, <2>3, <2>4
    <3>4. QED
      BY <2>1, <2>4, <3>2, <3>3
  <2>5. CASE k + 1 = j
    <3>1. b[k + 1] + b[k + 2] = a[k + 1]
      <4>1. j + 1 = k + 2
        BY <1>0, <2>5
      <4>2. QED
        BY <1>p, <2>5, <4>1
    <3>2. g[k] = f[k]
      BY <1>0, <2>3, <2>5
    <3>3. g[k + 2] = f[k + 1]
      <4>1. g[k + 2] = (g[k] + b[k + 1]) + b[k + 2]
        BY <2>1
      <4>2. g[k + 2] = f[k] + (b[k + 1] + b[k + 2])
        <5>2. (g[k] + b[k + 1]) + b[k + 2] = g[k] + (b[k + 1] + b[k + 2])
          BY <2>2
        <5>3. QED
          BY <3>2, <4>1, <5>2, Zenon
      <4>3. QED
        BY <2>1, <3>1, <4>2
    <3>4. QED
      BY <1>0, <2>5, <3>3
  <2>6. CASE k + 1 > j
    <3>1. k + 1 \in j + 1 .. n
      BY <1>0, <2>0, <2>6
    <3>2. b[k + 2] = a[k + 1]
      <4>1. b[(k + 1) + 1] = a[k + 1]
        BY <1>p, <3>1
      <4>2. (k + 1) + 1 = k + 2
        OBVIOUS
      <4>3. QED
        BY <4>1, <4>2
    <3>3. g[k + 1] = f[k]
      BY <1>0, <2>3, <2>6
    <3>4. QED
      BY <1>0, <2>1, <2>6, <3>2, <3>3
  <2>7. QED
    BY <1>0, <2>4, <2>5, <2>6
<1>3. n \in K
  <2> HIDE DEF K
  <2>1. QED
    BY <1>0, <1>1, <1>2, NatSetInduction
<1>4. QED
  BY <1>0, <1>3 DEF SameTotal

(* A sum is the same when one of its terms is split in two. *)
LEMMA SumOfSplit ==
  ASSUME NEW a \in Seq(Nat), NEW b \in Seq(Nat), Len(b) = Len(a) + 1,
         NEW j \in 1 .. Len(a),
         \A k \in 1 .. j - 1 : b[k] = a[k],
         b[j] + b[j + 1] = a[j],
         \A k \in j + 1 .. Len(a) : b[k + 1] = a[k]
  PROVE  FoldSeq(+, 0, b) = FoldSeq(+, 0, a)
<1>0. /\ Len(a) \in Nat
      /\ \A k \in 1 .. Len(a) : a[k] \in Nat
      /\ \A k \in 1 .. Len(b) : b[k] \in Nat
  BY LenProperties, ElementOfSeq
<1>1. PICK f \in [0 .. Len(a) -> Nat] :
        /\ f[0] = 0
        /\ \A k \in 1 .. Len(a) : f[k] = f[k - 1] + a[k]
        /\ FoldSeq(+, 0, a) = f[Len(a)]
  BY SumOfPrefixes
<1>2. PICK g \in [0 .. Len(b) -> Nat] :
        /\ g[0] = 0
        /\ \A k \in 1 .. Len(b) : g[k] = g[k - 1] + b[k]
        /\ FoldSeq(+, 0, b) = g[Len(b)]
  BY SumOfPrefixes
<1> DEFINE m == Len(a)
<1>3. g \in [0 .. m + 1 -> Nat] /\ Len(b) = m + 1
  OBVIOUS
<1> HIDE DEF m
<1>4. g[m + 1] = f[m]
  <2>1. m \in Nat /\ j \in 1 .. m /\ f \in [0 .. m -> Nat] /\ f[0] = 0 /\ g[0] = 0
    BY <1>0, <1>1, <1>2 DEF m
  <2>2. \A k \in 1 .. m : a[k] \in Nat /\ f[k] = f[k - 1] + a[k]
    BY <1>0, <1>1 DEF m
  <2>3. \A k \in 1 .. m + 1 : b[k] \in Nat /\ g[k] = g[k - 1] + b[k]
    BY <1>0, <1>2, <1>3, Zenon
  <2>4. \A k \in j + 1 .. m : b[k + 1] = a[k]
    BY DEF m
  <2>5. \A k \in 1 .. j - 1 : b[k] = a[k]
    OBVIOUS
  <2>6. b[j] + b[j + 1] = a[j] /\ g \in [0 .. m + 1 -> Nat]
    BY <1>3
  <2>7. PrefixesOfSplit(m, j, a, b, f, g)
    BY <2>1, <2>2, <2>3, <2>4, <2>5, <2>6, Zenon DEF PrefixesOfSplit
  <2>8. SameTotal(m, f, g)
    BY <2>7, SplitPrefixes
  <2>9. QED
    BY <2>8 DEF SameTotal
<1>5. QED
  BY <1>1, <1>2, <1>3, <1>4 DEF m
=============================================================================
