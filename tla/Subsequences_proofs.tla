------------------------ MODULE Subsequences_proofs ------------------------
(* What Filter keeps, and what sequences without repetition do.            *)
EXTENDS Subsequences, Integers, FunctionTheorems, FiniteSetTheorems, SequenceTheorems,
        NaturalsInduction, WellFoundedInduction, TLAPS

-----------------------------------------------------------------------------
(* Numbers                                                                 *)

(* A set of numbers has a least one.                                       *)
LEMMA LeastExists ==
  ASSUME NEW T, T \subseteq Nat, T # {}
  PROVE  \E m \in T : \A n \in T : m <= n
<1> DEFINE R == OpToRel(<, Nat)
<1>1. IsWellFoundedOn(R, Nat)
  BY NatLessThanWellFounded
<1>2. \A x, y \in Nat : x < y => <<x, y>> \in R
  BY DEF OpToRel
<1> HIDE DEF R
<1>3. PICK m \in T : \A n \in T : ~(<<n, m>> \in R)
  BY <1>1, WFMin
<1>4. ASSUME NEW n \in T PROVE m <= n
  <2>1. ~(n < m) /\ n \in Nat /\ m \in Nat
    BY <1>2, <1>3
  <2>. QED
    BY <2>1
<1>. QED
  BY <1>4

-----------------------------------------------------------------------------
(* Filter                                                                  *)

(* The places up to a later one are more.                                  *)
LEMMA PlacesAreCounted ==
  ASSUME NEW A, NEW S, NEW s \in Seq(A)
  PROVE  /\ IsFiniteSet(Places(s, S)) /\ Places(s, S) \subseteq 1 .. Len(s)
         /\ Cardinality(Places(s, S)) \in Nat
         /\ \A i \in Places(s, S) :
              Cardinality(PlacesUpTo(s, S, i)) \in 1 .. Cardinality(Places(s, S))
         /\ \A i, j \in Places(s, S) : i < j =>
              Cardinality(PlacesUpTo(s, S, i)) < Cardinality(PlacesUpTo(s, S, j))
<1> DEFINE P == Places(s, S)
           U(i) == PlacesUpTo(s, S, i)
<1>1. P \subseteq 1 .. Len(s) /\ Len(s) \in Nat
  BY LenProperties DEF Places
<1>2. IsFiniteSet(P) /\ Cardinality(P) \in Nat
  <2>1. IsFiniteSet(1 .. Len(s))
    BY <1>1, FS_Interval
  <2> HIDE DEF P
  <2>. QED
    BY <1>1, <2>1, FS_Subset, FS_CardinalityType
<1>3. \A i : U(i) \subseteq P
  BY DEF PlacesUpTo
<1>4. \A i : IsFiniteSet(U(i)) /\ Cardinality(U(i)) \in Nat /\ Cardinality(U(i)) <= Cardinality(P)
  BY <1>2, <1>3, FS_Subset, FS_CardinalityType
<1>5. ASSUME NEW i \in P PROVE Cardinality(U(i)) \in 1 .. Cardinality(P)
  <2>1. i \in U(i)
    BY <1>1 DEF PlacesUpTo
  <2>2. Cardinality(U(i)) # 0
    BY <2>1, <1>4, FS_EmptySet
  <2> HIDE DEF U, P
  <2>. QED
    BY <2>2, <1>4, <1>2
<1>6. ASSUME NEW i \in P, NEW j \in P, i < j
      PROVE  Cardinality(U(i)) < Cardinality(U(j))
  <2>1. j \in U(j) /\ j \notin U(i) /\ U(i) \subseteq U(j)
    BY <1>1, <1>6 DEF PlacesUpTo
  <2>2. Cardinality(U(i)) <= Cardinality(U(j)) /\ Cardinality(U(i)) # Cardinality(U(j))
    BY <2>1, <1>4, FS_Subset
  <2> HIDE DEF U
  <2>. QED
    BY <2>2, <1>4
<1>. QED
  BY <1>1, <1>2, <1>5, <1>6

(* Each place has a number of its own, and each number a place.            *)
LEMMA EachNumberHasAPlace ==
  ASSUME NEW A, NEW S, NEW s \in Seq(A),
         NEW k \in 1 .. Cardinality(Places(s, S))
  PROVE  \E i \in Places(s, S) : Cardinality(PlacesUpTo(s, S, i)) = k
<1> DEFINE P == Places(s, S)
           m == Cardinality(P)
           f == [i \in P |-> Cardinality(PlacesUpTo(s, S, i))]
<1>1. IsFiniteSet(P) /\ m \in Nat /\ P \subseteq Nat
  BY PlacesAreCounted
<1>2. f \in [P -> 1 .. m]
  BY PlacesAreCounted
<1>3. IsInjective(f)
  <2> SUFFICES ASSUME NEW i \in P, NEW j \in P, f[i] = f[j], i # j PROVE FALSE
    BY DEF IsInjective
  <2>1. i < j \/ j < i
    BY <1>1
  <2>2. f[i] \in Nat /\ f[j] \in Nat
    BY <1>2
  <2>3. (i < j => f[i] < f[j]) /\ (j < i => f[j] < f[i])
    BY PlacesAreCounted
  <2> HIDE DEF f
  <2>. QED
    BY <2>1, <2>2, <2>3
<1>4. f \in Injection(P, 1 .. m)
  BY <1>2, <1>3 DEF Injection
<1>5. IsFiniteSet(1 .. m) /\ Cardinality(1 .. m) = m
  BY <1>1, FS_Interval
<1> HIDE DEF f, m
<1>6. f \in Surjection(P, 1 .. m)
  BY <1>4, <1>5, FS_Injection DEF m
<1>. QED
  BY <1>6 DEF Surjection, m, f

(* The k-th element of Filter(s, S) is at a place of s, of rank k.         *)
LEMMA FilteredPlace ==
  ASSUME NEW A, NEW S, NEW s \in Seq(A),
         NEW k \in 1 .. Cardinality(Places(s, S))
  PROVE  \E i \in Places(s, S) : /\ Cardinality(PlacesUpTo(s, S, i)) = k
                                 /\ Filter(s, S)[k] = s[i]
<1> DEFINE i == CHOOSE i \in Places(s, S) : Cardinality(PlacesUpTo(s, S, i)) = k
<1>1. i \in Places(s, S) /\ Cardinality(PlacesUpTo(s, S, i)) = k
  BY EachNumberHasAPlace
<1>2. Filter(s, S)[k] = s[i]
  BY DEF Filter
<1>. QED
  BY <1>1, <1>2

(* Filter keeps the elements of S, and no other.                           *)
LEMMA FilterProperties ==
  ASSUME NEW A, NEW S, NEW s \in Seq(A)
  PROVE  /\ Filter(s, S) \in Seq(A)
         /\ Range(Filter(s, S)) = Range(s) \cap S
         /\ IsInjective(s) => IsInjective(Filter(s, S))
<1> DEFINE P == Places(s, S)
           m == Cardinality(P)
           t == Filter(s, S)
<1>1. m \in Nat /\ P \subseteq 1 .. Len(s) /\ P \subseteq DOMAIN s
  BY PlacesAreCounted DEF Places
<1>2. DOMAIN t = 1 .. m
  BY DEF Filter
<1>3. ASSUME NEW k \in 1 .. m PROVE t[k] \in A /\ t[k] \in Range(s) \cap S
  <2>1. PICK i \in P : t[k] = s[i]
    BY FilteredPlace
  <2>2. s[i] \in A
    BY <1>1, ElementOfSeq
  <2>3. s[i] \in S
    BY DEF Places
  <2>4. s[i] \in Range(s)
    BY <1>1 DEF Range
  <2>. QED
    BY <2>1, <2>2, <2>3, <2>4
<1>4. t \in Seq(A)
  <2>1. t \in [1 .. m -> A]
    <3>1. t = [k \in 1 .. m |-> t[k]]
      BY DEF Filter
    <3> HIDE DEF t
    <3>. QED
      BY <1>3, <3>1
  <2> HIDE DEF t, m
  <2>. QED
    BY <2>1, <1>1, SeqDef
<1>5. Range(t) \subseteq Range(s) \cap S
  BY <1>2, <1>3 DEF Range
<1>6. ASSUME NEW x \in Range(s) \cap S PROVE x \in Range(t)
  <2>1. PICK i \in DOMAIN s : x = s[i]
    BY DEF Range
  <2>2. i \in P
    BY <2>1 DEF Places
  <2> DEFINE k == Cardinality(PlacesUpTo(s, S, i))
  <2>3. k \in 1 .. m
    BY <2>2, PlacesAreCounted
  <2>4. PICK j \in P : Cardinality(PlacesUpTo(s, S, j)) = k /\ t[k] = s[j]
    BY <2>3, FilteredPlace
  <2>5. i = j
    <3>1. i \in Nat /\ j \in Nat /\ k \in Nat
      BY <1>1, <2>2, <2>3
    <3>2. (i < j => k < Cardinality(PlacesUpTo(s, S, j)))
          /\ (j < i => Cardinality(PlacesUpTo(s, S, j)) < k)
      BY <2>2, PlacesAreCounted
    <3>3. (i < j => k < k) /\ (j < i => k < k)
      BY <2>4, <3>2
    <3> HIDE DEF k
    <3>. QED
      BY <3>1, <3>3
  <2> HIDE DEF t, k
  <2>. QED
    BY <1>2, <2>1, <2>3, <2>4, <2>5 DEF Range
<1>7. ASSUME IsInjective(s) PROVE IsInjective(t)
  <2> SUFFICES ASSUME NEW k \in 1 .. m, NEW l \in 1 .. m, t[k] = t[l] PROVE k = l
    BY <1>2 DEF IsInjective
  <2>1. PICK i \in P : Cardinality(PlacesUpTo(s, S, i)) = k /\ t[k] = s[i]
    BY FilteredPlace
  <2>2. PICK j \in P : Cardinality(PlacesUpTo(s, S, j)) = l /\ t[l] = s[j]
    BY FilteredPlace
  <2>3. i = j
    BY <1>1, <1>7, <2>1, <2>2 DEF IsInjective
  <2>. QED
    BY <2>1, <2>2, <2>3
<1>. QED
  BY <1>4, <1>5, <1>6, <1>7

(* It keeps the order, and repeats nothing of S that s does not repeat.    *)
LEMMA FilterOrder ==
  ASSUME NEW A, NEW S, NEW s \in Seq(A)
  PROVE  /\ \A k, l \in DOMAIN Filter(s, S) : k < l =>
              \E i, j \in DOMAIN s : /\ i < j /\ Filter(s, S)[k] = s[i]
                                    /\ Filter(s, S)[l] = s[j]
         /\ (\A i, j \in DOMAIN s : s[i] \in S /\ s[i] = s[j] => i = j)
              => IsInjective(Filter(s, S))
<1> DEFINE P == Places(s, S)
           m == Cardinality(P)
           t == Filter(s, S)
<1>1. m \in Nat /\ P \subseteq 1 .. Len(s) /\ P \subseteq DOMAIN s
  BY PlacesAreCounted DEF Places
<1>2. DOMAIN t = 1 .. m
  BY DEF Filter
<1>3. ASSUME NEW k \in 1 .. m
      PROVE  \E i \in P : Cardinality(PlacesUpTo(s, S, i)) = k /\ t[k] = s[i]
  BY FilteredPlace
<1>4. ASSUME NEW i \in P, NEW j \in P
      PROVE  i < j => Cardinality(PlacesUpTo(s, S, i)) < Cardinality(PlacesUpTo(s, S, j))
  BY PlacesAreCounted
<1>5. \A i \in P : s[i] \in S
  BY DEF Places
<1> HIDE DEF P, m, t
<1>6. ASSUME NEW k \in 1 .. m, NEW l \in 1 .. m, k < l
      PROVE  \E i, j \in DOMAIN s : i < j /\ t[k] = s[i] /\ t[l] = s[j]
  <2>1. PICK i \in P : Cardinality(PlacesUpTo(s, S, i)) = k /\ t[k] = s[i]
    BY <1>3
  <2>2. PICK j \in P : Cardinality(PlacesUpTo(s, S, j)) = l /\ t[l] = s[j]
    BY <1>3
  <2>3. i \in Nat /\ j \in Nat
    BY <1>1
  <2>4. ~(j < i) /\ i # j
    <3>1. j < i => l < k
      BY <1>4, <2>1, <2>2
    <3>. QED
      BY <1>1, <1>6, <2>1, <2>2, <3>1
  <2>5. i < j
    BY <2>3, <2>4
  <2>. QED
    BY <1>1, <2>1, <2>2, <2>5
<1>7. ASSUME \A i, j \in DOMAIN s : s[i] \in S /\ s[i] = s[j] => i = j,
             NEW k \in 1 .. m, NEW l \in 1 .. m, t[k] = t[l]
      PROVE  k = l
  <2>1. PICK i \in P : Cardinality(PlacesUpTo(s, S, i)) = k /\ t[k] = s[i]
    BY <1>3
  <2>2. PICK j \in P : Cardinality(PlacesUpTo(s, S, j)) = l /\ t[l] = s[j]
    BY <1>3
  <2>3. i = j
    BY <1>1, <1>5, <1>7, <2>1, <2>2
  <2>. QED
    BY <2>1, <2>2, <2>3
<1>8. \A k, l \in DOMAIN t : k < l => \E i, j \in DOMAIN s : i < j /\ t[k] = s[i] /\ t[l] = s[j]
  BY <1>2, <1>6
<1>9. (\A i, j \in DOMAIN s : s[i] \in S /\ s[i] = s[j] => i = j) => IsInjective(t)
  BY <1>2, <1>7 DEF IsInjective
<1>. QED
  BY <1>8, <1>9 DEF t

(* Filter finds nothing only where there is nothing.                       *)
LEMMA FilterEmpty ==
  ASSUME NEW A, NEW S, NEW s \in Seq(A)
  PROVE  /\ Filter(s, S) = <<>> <=> Range(s) \cap S = {}
         /\ Filter(s, S) # <<>> => Filter(s, S)[1] \in Range(s) \cap S
<1>1. Filter(s, S) \in Seq(A) /\ Range(Filter(s, S)) = Range(s) \cap S
  BY FilterProperties
<1>2. ASSUME Filter(s, S) # <<>> PROVE Filter(s, S)[1] \in Range(Filter(s, S))
  BY <1>1, <1>2, EmptySeq, LenProperties DEF Range
<1>3. ASSUME Filter(s, S) = <<>> PROVE Range(Filter(s, S)) = {}
  BY <1>3 DEF Range
<1>. QED
  BY <1>1, <1>2, <1>3

-----------------------------------------------------------------------------
(* Lists without repetition                                                *)

(* One list after another.                                                 *)
LEMMA ConcatOfLists ==
  ASSUME NEW A, NEW s \in Seq(A), NEW t \in Seq(A)
  PROVE  /\ s \o t \in Seq(A)
         /\ Range(s \o t) = Range(s) \cup Range(t)
         /\ IsInjective(s) /\ IsInjective(t) /\ Range(s) \cap Range(t) = {}
              => IsInjective(s \o t)
<1>1. s \o t \in Seq(A) /\ Range(s \o t) = Range(s) \cup Range(t)
  BY ConcatProperties, RangeConcatenation
<1>2. ASSUME IsInjective(s), IsInjective(t), Range(s) \cap Range(t) = {}
      PROVE  IsInjective(s \o t)
  <2> DEFINE u == s \o t
             n == Len(s)
             m == Len(t)
  <2>1. /\ n \in Nat /\ m \in Nat /\ DOMAIN u = 1 .. n + m
        /\ DOMAIN s = 1 .. n /\ DOMAIN t = 1 .. m
        /\ \A i \in 1 .. n + m : u[i] = IF i <= n THEN s[i] ELSE t[i - n]
    BY <1>1, ConcatProperties, LenProperties
  <2> HIDE DEF u, n, m
  <2>2. SUFFICES ASSUME NEW i \in 1 .. n + m, NEW j \in 1 .. n + m, u[i] = u[j]
                 PROVE  i = j
    BY <2>1 DEF IsInjective, u
  <2>3. CASE i <= n /\ j <= n
    BY <1>2, <2>1, <2>2, <2>3 DEF IsInjective
  <2>4. CASE i > n /\ j > n
    <3>1. i - n \in 1 .. m /\ j - n \in 1 .. m /\ t[i - n] = t[j - n]
      BY <2>1, <2>2, <2>4
    <3>2. i - n = j - n
      BY <1>2, <2>1, <3>1 DEF IsInjective
    <3>. QED
      BY <2>1, <3>2
  <2>5. ASSUME NEW a \in 1 .. n + m, NEW b \in 1 .. n + m, a <= n, b > n
        PROVE  u[a] # u[b]
    <3>1. u[a] = s[a] /\ a \in DOMAIN s /\ u[b] = t[b - n] /\ b - n \in DOMAIN t
      BY <2>1, <2>5
    <3>. QED
      BY <1>2, <3>1 DEF Range
  <2>. QED
    BY <2>1, <2>2, <2>3, <2>4, <2>5
<1>. QED
  BY <1>1, <1>2

(* One more at the end.                                                    *)
LEMMA AppendToList ==
  ASSUME NEW A, NEW s \in Seq(A), NEW x \in A
  PROVE  /\ Append(s, x) \in Seq(A)
         /\ Range(Append(s, x)) = Range(s) \cup {x}
         /\ IsInjective(s) /\ x \notin Range(s) => IsInjective(Append(s, x))
<1> DEFINE t == <<x>>
<1>1. t \in Seq(A) /\ Append(s, x) = s \o t
  BY AppendIsConcat
<1>2. Range(t) = {x} /\ IsInjective(t)
  BY DEF Range, IsInjective
<1> HIDE DEF t
<1>3. /\ s \o t \in Seq(A)
      /\ Range(s \o t) = Range(s) \cup Range(t)
  BY <1>1, ConcatOfLists
<1>4. ASSUME IsInjective(s), x \notin Range(s) PROVE IsInjective(s \o t)
  <2>1. Range(s) \cap Range(t) = {}
    BY <1>2, <1>4
  <2>. QED
    BY <1>1, <1>2, <1>4, <2>1, ConcatOfLists
<1>. QED
  BY <1>1, <1>2, <1>3, <1>4

(* The first leaves.                                                       *)
LEMMA TailOfList ==
  ASSUME NEW A, NEW s \in Seq(A), s # <<>>, IsInjective(s)
  PROVE  /\ Head(s) \in Range(s) /\ Range(s) \subseteq A
         /\ Tail(s) \in Seq(A) /\ IsInjective(Tail(s))
         /\ Range(Tail(s)) = Range(s) \ {Head(s)}
<1> DEFINE n == Len(s)
<1>1. n \in Nat \ {0} /\ DOMAIN s = 1 .. n /\ s \in [1 .. n -> A]
  BY EmptySeq, LenProperties
<1>2. /\ Tail(s) \in Seq(A) /\ Len(Tail(s)) = n - 1
      /\ \A i \in 1 .. n - 1 : Tail(s)[i] = s[i + 1]
  BY HeadTailProperties
<1>3. DOMAIN Tail(s) = 1 .. n - 1
  BY <1>2, LenProperties
<1>4. Head(s) = s[1]
  OBVIOUS
<1> HIDE DEF n
<1>5. IsInjective(Tail(s))
  BY <1>1, <1>2, <1>3 DEF IsInjective
<1>6. Range(Tail(s)) \subseteq Range(s) \ {Head(s)}
  BY <1>1, <1>2, <1>3, <1>4 DEF IsInjective, Range
<1>7. ASSUME NEW x \in Range(s) \ {Head(s)} PROVE x \in Range(Tail(s))
  <2>1. PICK i \in 1 .. n : x = s[i]
    BY <1>1 DEF Range
  <2>2. i # 1 /\ i - 1 \in 1 .. n - 1 /\ Tail(s)[i - 1] = s[(i - 1) + 1]
    BY <1>1, <1>2, <1>4, <2>1
  <2>3. (i - 1) + 1 = i
    BY <1>1
  <2>. QED
    BY <1>3, <2>1, <2>2, <2>3 DEF Range
<1>8. Head(s) \in Range(s) /\ Range(s) \subseteq A
  BY <1>1, <1>4 DEF Range
<1>. QED
  BY <1>2, <1>5, <1>6, <1>7, <1>8

(* The first n.                                                            *)
LEMMA PrefixOfList ==
  ASSUME NEW A, NEW s \in Seq(A), NEW n \in 0 .. Len(s)
  PROVE  /\ SubSeq(s, 1, n) \in Seq(A)
         /\ Range(SubSeq(s, 1, n)) \subseteq Range(s)
         /\ IsInjective(s) => IsInjective(SubSeq(s, 1, n))
<1> DEFINE t == SubSeq(s, 1, n)
<1>1. Len(s) \in Nat /\ DOMAIN s = 1 .. Len(s) /\ \A i \in 1 .. n : s[i] \in A
  BY LenProperties
<1>2. t \in Seq(A) /\ Len(t) = n /\ \A i \in 1 .. n : t[i] = s[i]
  <2>1. /\ t \in Seq(A) /\ Len(t) = IF 1 <= n THEN n - 1 + 1 ELSE 0
        /\ \A i \in 1 .. n - 1 + 1 : t[i] = s[1 + i - 1]
    BY <1>1, SubSeqProperties
  <2>2. n - 1 + 1 = n /\ n \in Nat /\ \A i \in 1 .. n : 1 + i - 1 = i
    BY <1>1
  <2> HIDE DEF t
  <2>. QED
    BY <2>1, <2>2
<1>3. DOMAIN t = 1 .. n
  BY <1>2, LenProperties
<1> HIDE DEF t
<1>4. Range(t) \subseteq Range(s)
  BY <1>1, <1>2, <1>3 DEF Range
<1>5. IsInjective(s) => IsInjective(t)
  BY <1>1, <1>2, <1>3 DEF IsInjective
<1>. QED
  BY <1>2, <1>4, <1>5 DEF t
=============================================================================
