-------------------------- MODULE StudioBuildProofs --------------------------
(***************************************************************************)
(* Proofs about StudioBuild: of the artifact store as the service uses it, *)
(* for any artifacts, sizes, budgets, designs and failures; and of the CAD *)
(* jobs, for every set of jobs, inputs and threads.                        *)
(***************************************************************************)
EXTENDS StudioBuild, FiniteSetTheorems, SequenceTheorems, WellFoundedInduction, TLAPS

-----------------------------------------------------------------------------
(* Places of a sequence *)

\* A set of numbers has a least one.
LEMMA MinFacts ==
    ASSUME NEW S \in SUBSET Nat, S # {}
    PROVE  Min(S) \in S /\ \A n \in S : Min(S) <= n
  <1>1. PICK x \in S : \A y \in S : ~(<<y, x>> \in OpToRel(<, Nat))
    BY NatLessThanWellFounded, WFMin
  <1>2. ASSUME NEW y \in S PROVE x <= y
    <2>1. ~(<<y, x>> \in {ss \in Nat \X Nat : ss[1] < ss[2]})
      BY <1>1 DEF OpToRel
    <2>2. QED BY <2>1
  <1>3. QED BY <1>2 DEF Min

\* How many of some places are no later than k.
Rank(places, k) == Cardinality({j \in places : j <= k})

LEMMA RankFacts ==
    ASSUME NEW n \in Nat, NEW K \in SUBSET (1 .. n)
    PROVE  /\ IsFiniteSet(K) /\ Cardinality(K) \in Nat
           /\ \A k \in 0 .. n : Rank(K, k) \in Nat /\ Rank(K, k) <= Cardinality(K)
           /\ Rank(K, 0) = 0 /\ Rank(K, n) = Cardinality(K)
           /\ \A k \in 1 .. n : Rank(K, k) = IF k \in K THEN Rank(K, k - 1) + 1 ELSE Rank(K, k - 1)
           /\ \A k \in K : Rank(K, k) \in 1 .. Cardinality(K)
           /\ \A j, k \in K : Rank(K, j) = Rank(K, k) => j = k
  <1>1. IsFiniteSet(K) /\ Cardinality(K) \in Nat
    <2>1. IsFiniteSet(1 .. n)
      BY FS_Interval
    <2>2. QED BY <2>1, FS_Subset, FS_CardinalityType
  <1> DEFINE Below(k) == {j \in K : j <= k}
  <1>0. \A j \in K : j \in 1 .. n /\ j \in Int
    OBVIOUS
  <1>2. \A k : Below(k) \in SUBSET K /\ Rank(K, k) = Cardinality(Below(k))
    BY DEF Rank
  <1>3. \A k : /\ IsFiniteSet(Below(k)) /\ Cardinality(Below(k)) \in Nat
              /\ Cardinality(Below(k)) <= Cardinality(K)
    <2> HIDE DEF Below
    <2>1. QED BY <1>1, <1>2, FS_Subset, FS_CardinalityType
  <1>4. Rank(K, 0) = 0 /\ Rank(K, n) = Cardinality(K)
    <2>1. Below(0) = {}
      <3>1. \A j \in K : ~(j <= 0)
        BY <1>0
      <3>2. QED BY <3>1
    <2>2. Below(n) = K
      <3>1. \A j \in K : j <= n
        BY <1>0
      <3>2. QED BY <3>1
    <2> HIDE DEF Below
    <2>3. QED BY <1>2, <2>1, <2>2, FS_EmptySet
  <1>5. ASSUME NEW k \in 1 .. n
        PROVE  Rank(K, k) = IF k \in K THEN Rank(K, k - 1) + 1 ELSE Rank(K, k - 1)
    <2>1. CASE k \in K
      <3>1. \A j \in K : j <= k <=> j <= k - 1 \/ j = k
        BY <1>0
      <3>2. Below(k) = Below(k - 1) \cup {k}
        <4>1. k <= k
          OBVIOUS
        <4>2. QED BY <2>1, <3>1, <4>1, Zenon
      <3>3. k \notin Below(k - 1)
        OBVIOUS
      <3> HIDE DEF Below
      <3>4. QED BY <1>2, <1>3, <2>1, <3>2, <3>3, FS_AddElement
    <2>2. CASE k \notin K
      <3>1. \A j \in K : j <= k <=> j <= k - 1
        BY <1>0, <2>2
      <3>2. Below(k) = Below(k - 1)
        BY <3>1
      <3> HIDE DEF Below
      <3>3. QED BY <1>2, <2>2, <3>2
    <2>3. QED BY <2>1, <2>2
  <1>6. ASSUME NEW k \in K PROVE Rank(K, k) \in 1 .. Cardinality(K)
    <2>1. k \in Below(k)
      OBVIOUS
    <2> HIDE DEF Below
    <2>2. Cardinality(Below(k)) # 0
      BY <1>3, <2>1, FS_EmptySet
    <2>3. QED BY <1>1, <1>2, <1>3, <2>2
  <1>7. ASSUME NEW j \in K, NEW k \in K, Rank(K, j) = Rank(K, k), j < k PROVE FALSE
    <2>1. \A l \in K : l <= j => l <= k
      BY <1>0, <1>7
    <2>2. Below(j) \in SUBSET Below(k)
      BY <2>1
    <2>3. k \in Below(k) /\ k \notin Below(j)
      BY <1>0, <1>7
    <2> HIDE DEF Below
    <2>4. QED BY <1>2, <1>3, <1>7, <2>2, <2>3, FS_Subset
  <1>8. ASSUME NEW j \in K, NEW k \in K, Rank(K, j) = Rank(K, k) PROVE j = k
    <2>1. ~(j < k) /\ ~(k < j)
      BY <1>7, <1>8
    <2>2. QED BY <2>1
  <1> HIDE DEF Below
  <1>9. QED BY <1>1, <1>2, <1>3, <1>4, <1>5, <1>6, <1>8

LEMMA NthFacts ==
    ASSUME NEW n \in Nat, NEW K \in SUBSET (1 .. n), NEW i \in 1 .. Cardinality(K)
    PROVE  Nth(K, i) \in K /\ Rank(K, Nth(K, i)) = i
  <1>1. /\ Cardinality(K) \in Nat /\ Rank(K, 0) = 0 /\ Rank(K, n) = Cardinality(K)
        /\ \A k \in 0 .. n : Rank(K, k) \in Nat
        /\ \A k \in 1 .. n : Rank(K, k) = IF k \in K THEN Rank(K, k - 1) + 1 ELSE Rank(K, k - 1)
    BY RankFacts
  <1> DEFINE G == {k \in 0 .. n : Rank(K, k) >= i}
             m == Min(G)
  <1>2. G \in SUBSET Nat /\ n \in G
    BY <1>1
  <1>3. m \in G /\ \A k \in G : m <= k
    <2> HIDE DEF G
    <2>1. QED BY <1>2, MinFacts
  <1> HIDE DEF m
  <1>4. m \in 1 .. n
    BY <1>1, <1>3
  <1>5. m - 1 \notin G /\ m - 1 \in 0 .. n
    BY <1>3, <1>4
  <1>6. m \in K /\ Rank(K, m) = i
    BY <1>1, <1>3, <1>4, <1>5
  <1>7. QED BY <1>6 DEF Nth, Rank

LEMMA AtFacts ==
    ASSUME NEW D, NEW q \in Seq(D), NEW K \in SUBSET (DOMAIN q)
    PROVE  /\ At(q, K) \in Seq(D) /\ Len(At(q, K)) = Cardinality(K)
           /\ Range(At(q, K)) = {q[k] : k \in K}
           /\ (\A a, b \in K : q[a] = q[b] => a = b) => IsInjective(At(q, K))
  <1>1. Len(q) \in Nat /\ DOMAIN q = 1 .. Len(q) /\ \A k \in 1 .. Len(q) : q[k] \in D
    OBVIOUS
  <1> DEFINE n == Cardinality(K)
             r == At(q, K)
  <1>2. n \in Nat /\ K \in SUBSET (1 .. Len(q))
    BY <1>1, RankFacts
  <1>3. \A i \in 1 .. n : Nth(K, i) \in K /\ Rank(K, Nth(K, i)) = i
    BY <1>1, <1>2, NthFacts
  <1>4. \A k \in K : Rank(K, k) \in 1 .. n /\ Nth(K, Rank(K, k)) = k
    BY <1>1, <1>2, <1>3, RankFacts
  <1> HIDE DEF n
  <1>5. r = [i \in 1 .. n |-> q[Nth(K, i)]]
    BY DEF At, n
  <1>6. \A i \in 1 .. n : q[Nth(K, i)] \in D
    BY <1>1, <1>2, <1>3
  <1>7. r \in [1 .. n -> D]
    BY <1>5, <1>6
  <1>8. r \in Seq(D) /\ Len(r) = n /\ DOMAIN r = 1 .. n
    BY <1>2, <1>7
  <1>9. Range(r) = {q[k] : k \in K}
    BY <1>3, <1>4, <1>5, <1>8 DEF Range
  <1>10. (\A a, b \in K : q[a] = q[b] => a = b) => IsInjective(r)
    BY <1>3, <1>5, <1>8 DEF IsInjective
  <1>11. QED BY <1>8, <1>9, <1>10 DEF n

\* Some elements of a sequence.
LEMMA OnlyFacts ==
    ASSUME NEW D, NEW q \in Seq(D), NEW S
    PROVE  /\ Only(q, S) \in Seq(D) /\ Range(Only(q, S)) = Range(q) \cap S
           /\ IsInjective(q) => IsInjective(Only(q, S))
  <1> DEFINE K == {k \in DOMAIN q : q[k] \in S}
  <1>1. K \in SUBSET (DOMAIN q) /\ Only(q, S) = At(q, K)
    BY DEF Only
  <1>2. {q[k] : k \in K} = Range(q) \cap S
    BY DEF Range
  <1>3. IsInjective(q) => \A a, b \in K : q[a] = q[b] => a = b
    BY DEF IsInjective
  <1> HIDE DEF K
  <1>4. QED BY <1>1, <1>2, <1>3, AtFacts

\* Each element once.
LEMMA LatestFacts ==
    ASSUME NEW D, NEW q \in Seq(D)
    PROVE  Latest(q) \in Seq(D) /\ Range(Latest(q)) = Range(q) /\ IsInjective(Latest(q))
  <1> DEFINE K == {k \in DOMAIN q : \A j \in k + 1 .. Len(q) : q[j] # q[k]}
  <1>1. Len(q) \in Nat /\ DOMAIN q = 1 .. Len(q)
    OBVIOUS
  <1>2. K \in SUBSET (DOMAIN q) /\ Latest(q) = At(q, K)
    BY DEF Latest
  <1>3. ASSUME NEW a \in K, NEW b \in K, q[a] = q[b] PROVE a = b
    <2>1. ~(a < b) /\ ~(b < a)
      BY <1>1, <1>3
    <2>2. QED BY <1>1, <2>1
  <1>4. ASSUME NEW k \in 1 .. Len(q) PROVE \E j \in K : q[j] = q[k]
    <2> DEFINE M == {m \in Nat : m < Len(q) /\ q[Len(q) - m] = q[k]}
               j == Len(q) - Min(M)
    <2>1. M \in SUBSET Nat /\ Len(q) - k \in M
      BY <1>1
    <2>2. Min(M) \in M /\ \A m \in M : Min(M) <= m
      <3> HIDE DEF M
      <3>1. QED BY <2>1, MinFacts
    <2>3. j \in 1 .. Len(q) /\ q[j] = q[k]
      BY <1>1, <2>2
    <2>4. ASSUME NEW l \in j + 1 .. Len(q), q[l] = q[k] PROVE FALSE
      <3>1. Len(q) - l \in M
        BY <1>1, <2>2, <2>3, <2>4
      <3>2. QED BY <1>1, <2>2, <2>4, <3>1
    <2> HIDE DEF j
    <2>5. QED BY <1>1, <2>3, <2>4
  <1>5. {q[k] : k \in K} = Range(q)
    BY <1>1, <1>4 DEF Range
  <1>6. \A a, b \in K : q[a] = q[b] => a = b
    BY <1>3
  <1> HIDE DEF K
  <1>7. /\ At(q, K) \in Seq(D) /\ Range(At(q, K)) = {q[k] : k \in K}
        /\ IsInjective(At(q, K))
    BY <1>2, <1>6, AtFacts
  <1>8. QED BY <1>2, <1>5, <1>7

\* An index of different artifacts is as long as it has artifacts.
LEMMA InjectiveLength ==
    ASSUME NEW D, NEW q \in Seq(D), IsInjective(q)
    PROVE  IsFiniteSet(Range(q)) /\ Len(q) = Cardinality(Range(q))
  <1>1. Len(q) \in Nat /\ DOMAIN q = 1 .. Len(q) /\ q \in [1 .. Len(q) -> Range(q)]
    BY DEF Range
  <1>2. q \in Bijection(1 .. Len(q), Range(q))
    BY <1>1 DEF IsInjective, Bijection, Injection, Surjection, IsInjective, Range
  <1>3. ExistsBijection(1 .. Len(q), Range(q))
    BY <1>2 DEF ExistsBijection
  <1>4. IsFiniteSet(1 .. Len(q))
    BY <1>1, FS_Interval
  <1>5. IsFiniteSet(Range(q))
    BY <1>3, <1>4, FS_Bijection
  <1>6. Len(q) \in Nat
    BY <1>1
  <1> DEFINE n == Len(q)
             S == Range(q)
  <1>7. n \in Nat /\ ExistsBijection(1 .. n, S)
    BY <1>3, <1>6
  <1> HIDE DEF n, S
  <1>8. Cardinality(S) = n
    BY <1>7, FS_CountingElements
  <1>9. QED BY <1>5, <1>8 DEF n, S

-----------------------------------------------------------------------------
(* Bytes *)

Pile(digests) == UNION {{d} \X (1 .. Size[d]) : d \in digests}

LEMMA PileIsFinite ==
    ASSUME NEW X \in SUBSET Digests, IsFiniteSet(X)
    PROVE  IsFiniteSet(Pile(X)) /\ Bytes(X) = Cardinality(Pile(X)) /\ Bytes(X) \in Nat
  <1> DEFINE f == [d \in X |-> {d} \X (1 .. Size[d])]
             T == {{d} \X (1 .. Size[d]) : d \in X}
  <1>1. f \in Surjection(X, T)
    BY DEF Surjection
  <1>2. IsFiniteSet(T)
    <2> HIDE DEF f, T
    <2>1. QED BY <1>1, FS_Surjection
  <1>3. ASSUME NEW d \in X PROVE IsFiniteSet({d} \X (1 .. Size[d]))
    <2>1. IsFiniteSet({d})
      BY FS_Singleton
    <2>2. IsFiniteSet(1 .. Size[d])
      BY SizeAssumption, FS_Interval
    <2>3. QED BY <2>1, <2>2, FS_Product
  <1>4. \A U \in T : IsFiniteSet(U)
    BY <1>3
  <1>5. Pile(X) = UNION T
    BY DEF Pile
  <1> HIDE DEF T
  <1>6. IsFiniteSet(Pile(X))
    BY <1>2, <1>4, <1>5, FS_UNION
  <1>7. Bytes(X) = Cardinality(Pile(X))
    BY DEF Bytes, Pile
  <1>8. QED BY <1>6, <1>7, FS_CardinalityType

LEMMA BytesOfOne ==
    ASSUME NEW d \in Digests
    PROVE  Bytes({d}) = Size[d]
  <1>1. Pile({d}) = {d} \X (1 .. Size[d])
    BY DEF Pile
  <1>2. IsFiniteSet({d}) /\ Cardinality({d}) = 1
    BY FS_Singleton
  <1>3. Size[d] \in Nat /\ IsFiniteSet(1 .. Size[d]) /\ Cardinality(1 .. Size[d]) = Size[d]
    BY SizeAssumption, FS_Interval
  <1>4. Cardinality({d} \X (1 .. Size[d])) = 1 * Size[d]
    BY <1>2, <1>3, FS_Product
  <1>5. Bytes({d}) = Cardinality(Pile({d}))
    BY DEF Bytes, Pile
  <1>6. 1 * Size[d] = Size[d]
    BY <1>3
  <1>7. QED BY <1>1, <1>4, <1>5, <1>6

LEMMA BytesOfNone == Bytes({}) = 0
  <1>1. Pile({}) = {}
    BY DEF Pile
  <1>2. Bytes({}) = Cardinality(Pile({}))
    BY DEF Bytes, Pile
  <1>3. Cardinality({}) = 0
    BY FS_EmptySet
  <1>4. QED BY <1>1, <1>2, <1>3

\* Bytes add up.
LEMMA BytesOfBoth ==
    ASSUME NEW X \in SUBSET Digests, NEW Y \in SUBSET Digests, IsFiniteSet(X), IsFiniteSet(Y), X \cap Y = {}
    PROVE  Bytes(X \cup Y) = Bytes(X) + Bytes(Y)
  <1>1. Pile(X \cup Y) = Pile(X) \cup Pile(Y)
    BY DEF Pile
  <1>2. Pile(X) \cap Pile(Y) = {}
    <2>1. \A p \in Pile(X) : p[1] \in X
      BY DEF Pile
    <2>2. \A p \in Pile(Y) : p[1] \in Y
      BY DEF Pile
    <2>3. QED BY <2>1, <2>2
  <1>3. /\ IsFiniteSet(Pile(X)) /\ Cardinality(Pile(X)) = Bytes(X) /\ Bytes(X) \in Nat
        /\ IsFiniteSet(Pile(Y)) /\ Cardinality(Pile(Y)) = Bytes(Y) /\ Bytes(Y) \in Nat
    BY PileIsFinite
  <1>4. Cardinality(Pile(X) \cup Pile(Y)) = Bytes(X) + Bytes(Y)
    <2> DEFINE U == Pile(X)
               V == Pile(Y)
    <2>1. IsFiniteSet(U) /\ IsFiniteSet(V) /\ U \cap V = {}
      BY <1>2, <1>3
    <2> HIDE DEF U, V
    <2>2. Cardinality(U \cup V) = Cardinality(U) + Cardinality(V) - Cardinality(U \cap V)
      BY <2>1, FS_Union
    <2>3. Cardinality(U \cap V) = 0
      BY <2>1, FS_EmptySet
    <2>4. Cardinality(U) = Bytes(X) /\ Cardinality(V) = Bytes(Y) /\ Bytes(X) \in Nat /\ Bytes(Y) \in Nat
      BY <1>3 DEF U, V
    <2>5. Cardinality(U \cup V) = Bytes(X) + Bytes(Y)
      BY <2>2, <2>3, <2>4
    <2>6. QED BY <2>5 DEF U, V
  <1>5. QED BY <1>1, <1>4 DEF Bytes, Pile

LEMMA BytesWithout ==
    ASSUME NEW X \in SUBSET Digests, IsFiniteSet(X), NEW Y \in SUBSET X
    PROVE  /\ Bytes(X) \in Nat /\ Bytes(Y) \in Nat /\ Bytes(X \ Y) \in Nat
           /\ Bytes(X \ Y) = Bytes(X) - Bytes(Y)
  <1>1. IsFiniteSet(Y) /\ IsFiniteSet(X \ Y)
    BY FS_Subset
  <1>2. (X \ Y) \cup Y = X /\ (X \ Y) \cap Y = {} /\ X \ Y \in SUBSET Digests /\ Y \in SUBSET Digests
    OBVIOUS
  <1>3. Bytes(X) \in Nat /\ Bytes(Y) \in Nat /\ Bytes(X \ Y) \in Nat
    BY <1>1, <1>2, PileIsFinite
  <1>4. Bytes(X) = Bytes(X \ Y) + Bytes(Y)
    BY <1>1, <1>2, BytesOfBoth
  <1>5. QED BY <1>3, <1>4

-----------------------------------------------------------------------------
(* What every operation leaves: a store whose account is exact *)

Exact(s) == s \in Stores /\ IsInjective(s.index) /\ s.total = Bytes(Indexed(s))

SamePins(s, t) == t.downloads = s.downloads /\ t.display = s.display /\ t.compile = s.compile

\* t is s without the artifacts of X.
Less(s, t, X) ==
    /\ Exact(t) /\ SamePins(s, t)
    /\ Indexed(t) = Indexed(s) \ X
    /\ t.file = [d \in Digests |-> IF d \in Indexed(s) \cap X THEN "none" ELSE s.file[d]]
    /\ Over(t) => Over(s)

LEMMA IndexedFacts ==
    ASSUME NEW s, Exact(s)
    PROVE  /\ Indexed(s) \in SUBSET Digests /\ IsFiniteSet(Indexed(s))
           /\ Len(s.index) = Cardinality(Indexed(s)) /\ Len(s.index) \in Nat
           /\ s.total \in Nat
  <1>1. s.index \in Seq(Digests)
    BY DEF Exact, Stores
  <1>2. Indexed(s) \in SUBSET Digests
    BY <1>1 DEF Indexed, Range
  <1>3. IsFiniteSet(Indexed(s)) /\ Len(s.index) = Cardinality(Indexed(s))
    BY <1>1, InjectiveLength DEF Exact, Indexed
  <1>4. QED BY <1>1, <1>2, <1>3, PileIsFinite DEF Exact

LEMMA DiscardFacts ==
    ASSUME NEW s, Exact(s), NEW X
    PROVE  /\ Less(s, Discard(s, X), X)
           /\ Discard(s, X).pending = s.pending /\ Discard(s, X).due = s.due
  <1> DEFINE gone == X \cap Indexed(s)
             t == Discard(s, X)
             q == Only(s.index, Indexed(s) \ gone)
             f == [d \in Digests |-> IF d \in gone THEN "none" ELSE s.file[d]]
  <1>1. /\ s \in Stores /\ s.index \in Seq(Digests) /\ IsInjective(s.index)
        /\ s.total = Bytes(Indexed(s))
        /\ s.file \in [Digests -> {"none", "good", "bad"}]
    BY DEF Exact, Stores
  <1>2. /\ Indexed(s) \in SUBSET Digests /\ IsFiniteSet(Indexed(s))
        /\ Len(s.index) = Cardinality(Indexed(s)) /\ s.total \in Nat
    BY IndexedFacts
  <1>3. t = [s EXCEPT !.index = q, !.total = s.total - Bytes(gone), !.file = f]
    BY DEF Discard
  <1>4. q \in Seq(Digests) /\ Range(q) = Indexed(s) \ X /\ IsInjective(q)
    <2>1. Indexed(s) \cap (Indexed(s) \ gone) = Indexed(s) \ X
      OBVIOUS
    <2>2. QED BY <1>1, <2>1, OnlyFacts DEF Indexed
  <1>5. /\ f \in [Digests -> {"none", "good", "bad"}]
        /\ f = [d \in Digests |-> IF d \in Indexed(s) \cap X THEN "none" ELSE s.file[d]]
    BY <1>1
  <1>6. gone \in SUBSET Indexed(s) /\ Indexed(s) \ gone = Indexed(s) \ X
    OBVIOUS
  <1> HIDE DEF gone, q, f, t
  <1>7. /\ Bytes(gone) \in Nat /\ s.total - Bytes(gone) = Bytes(Range(q)) /\ Bytes(Range(q)) \in Nat
        /\ s.total - Bytes(gone) <= s.total
    <2> DEFINE I == Indexed(s)
    <2>1. I \in SUBSET Digests /\ IsFiniteSet(I) /\ gone \in SUBSET I /\ s.total = Bytes(I)
      BY <1>1, <1>2, <1>6
    <2>2. Range(q) = I \ gone
      BY <1>4, <1>6
    <2> HIDE DEF I
    <2>3. /\ Bytes(I) \in Nat /\ Bytes(gone) \in Nat /\ Bytes(I \ gone) \in Nat
          /\ Bytes(I \ gone) = Bytes(I) - Bytes(gone)
      BY <2>1, BytesWithout
    <2>4. QED BY <2>1, <2>2, <2>3
  <1>8. /\ t.index = q /\ t.total = s.total - Bytes(gone) /\ t.file = f /\ t.downloads = s.downloads
        /\ t.display = s.display /\ t.compile = s.compile /\ t.pending = s.pending /\ t.due = s.due
    BY <1>1, <1>3 DEF Stores
  <1>9. t \in Stores
    <2> DEFINE n == s.total - Bytes(gone)
    <2>1. n \in Int
      BY <1>1, <1>7 DEF Stores
    <2>2. t = [s EXCEPT !.index = q, !.total = n, !.file = f]
      BY <1>3
    <2> HIDE DEF n
    <2>3. QED BY <1>1, <1>4, <1>5, <2>1, <2>2 DEF Stores
  <1>10. Exact(t)
    BY <1>4, <1>7, <1>8, <1>9 DEF Exact, Indexed
  <1>11. Len(t.index) <= Len(s.index)
    <2>1. Len(t.index) = Cardinality(Indexed(t)) /\ Indexed(t) \in SUBSET Indexed(s)
      BY <1>4, <1>8, <1>10, IndexedFacts DEF Indexed
    <2>2. QED BY <1>2, <2>1, FS_Subset
  <1>12. Over(t) => Over(s)
    <2>1. Len(t.index) \in Nat /\ Len(s.index) \in Nat /\ t.total \in Nat
      BY <1>10, IndexedFacts
    <2>2. t.total <= s.total
      BY <1>7, <1>8
    <2>3. QED BY <1>2, <1>11, <2>1, <2>2, BudgetAssumption DEF Over
  <1>13. QED BY <1>4, <1>5, <1>8, <1>10, <1>12 DEF Less, SamePins, Indexed, t

\* The elements of sequences made of others.
LEMMA RangeFacts ==
    ASSUME NEW D, NEW q \in Seq(D)
    PROVE  /\ Range(q) \in SUBSET D
           /\ \A d \in D : Append(q, d) \in Seq(D) /\ Range(Append(q, d)) = Range(q) \cup {d}
           /\ \A r \in Seq(D) : q \o r \in Seq(D) /\ Range(q \o r) = Range(q) \cup Range(r)
           /\ \A k \in 0 .. Len(q) : /\ SubSeq(q, 1, k) \in Seq(D)
                                     /\ Range(SubSeq(q, 1, k)) = {q[i] : i \in 1 .. k}
           /\ q # <<>> => /\ Head(q) \in D /\ Tail(q) \in Seq(D)
                          /\ Range(q) = {Head(q)} \cup Range(Tail(q))
           /\ Range(q) = {q[i] : i \in 1 .. Len(q)} /\ Range(<<>>) = {}
  <1>1. Range(q) = {q[i] : i \in 1 .. Len(q)} /\ Range(q) \in SUBSET D /\ Range(<<>>) = {}
    BY DEF Range
  <1>2. ASSUME NEW d \in D PROVE Append(q, d) \in Seq(D) /\ Range(Append(q, d)) = Range(q) \cup {d}
    <2>1. /\ Append(q, d) \in Seq(D) /\ DOMAIN Append(q, d) = 1 .. Len(q) + 1
          /\ Append(q, d)[Len(q) + 1] = d /\ \A i \in 1 .. Len(q) : Append(q, d)[i] = q[i]
      OBVIOUS
    <2>2. \A i \in 1 .. Len(q) + 1 : i \in 1 .. Len(q) \/ i = Len(q) + 1
      OBVIOUS
    <2>3. \A i \in 1 .. Len(q) : i \in 1 .. Len(q) + 1
      OBVIOUS
    <2>4. Len(q) + 1 \in 1 .. Len(q) + 1
      OBVIOUS
    <2>5. Range(Append(q, d)) \subseteq Range(q) \cup {d}
      BY <1>1, <2>1, <2>2 DEF Range
    <2>6. Range(q) \cup {d} \subseteq Range(Append(q, d))
      BY <1>1, <2>1, <2>3, <2>4 DEF Range
    <2>7. QED BY <2>1, <2>5, <2>6
  <1>3. ASSUME NEW r \in Seq(D) PROVE q \o r \in Seq(D) /\ Range(q \o r) = Range(q) \cup Range(r)
    <2>1. /\ q \o r \in Seq(D) /\ DOMAIN (q \o r) = 1 .. Len(q) + Len(r) /\ DOMAIN r = 1 .. Len(r)
          /\ \A i \in 1 .. Len(q) : (q \o r)[i] = q[i]
          /\ \A i \in 1 .. Len(r) : (q \o r)[Len(q) + i] = r[i]
      OBVIOUS
    <2>2. \A i \in 1 .. Len(q) + Len(r) :
              i \in 1 .. Len(q) \/ (i - Len(q) \in 1 .. Len(r) /\ i = Len(q) + (i - Len(q)))
      OBVIOUS
    <2>3. \A i \in 1 .. Len(q) : i \in 1 .. Len(q) + Len(r)
      OBVIOUS
    <2>4. \A i \in 1 .. Len(r) : Len(q) + i \in 1 .. Len(q) + Len(r)
      OBVIOUS
    <2>5. ASSUME NEW x \in Range(q \o r) PROVE x \in Range(q) \cup Range(r)
      <3>1. PICK i \in 1 .. Len(q) + Len(r) : (q \o r)[i] = x
        BY <2>1 DEF Range
      <3>2. CASE i \in 1 .. Len(q)
        BY <1>1, <2>1, <3>1, <3>2
      <3>3. CASE i - Len(q) \in 1 .. Len(r) /\ i = Len(q) + (i - Len(q))
        <4>1. r[i - Len(q)] = x
          BY <2>1, <3>1, <3>3
        <4>2. QED BY <2>1, <3>3, <4>1 DEF Range
      <3>4. QED BY <2>2, <3>2, <3>3
    <2>6. Range(q) \subseteq Range(q \o r)
      BY <1>1, <2>1, <2>3 DEF Range
    <2>7. Range(r) \subseteq Range(q \o r)
      BY <2>1, <2>4 DEF Range
    <2>8. QED BY <2>1, <2>5, <2>6, <2>7
  <1>4. ASSUME NEW k \in 0 .. Len(q)
        PROVE  SubSeq(q, 1, k) \in Seq(D) /\ Range(SubSeq(q, 1, k)) = {q[i] : i \in 1 .. k}
    <2>1. \A i \in 1 .. k : i \in 1 .. Len(q)
      OBVIOUS
    <2>2. SubSeq(q, 1, k) \in Seq(D) /\ Len(SubSeq(q, 1, k)) = k
      BY <2>1, SubSeqProperties
    <2>3. \A i \in 1 .. k : SubSeq(q, 1, k)[i] = q[i]
      BY <2>1, SubSeqProperties
    <2>4. DOMAIN SubSeq(q, 1, k) = 1 .. k
      BY <2>2
    <2>5. QED BY <2>2, <2>3, <2>4 DEF Range
  <1>5. ASSUME q # <<>>
        PROVE  Head(q) \in D /\ Tail(q) \in Seq(D) /\ Range(q) = {Head(q)} \cup Range(Tail(q))
    <2>1. /\ Len(q) \in Nat \ {0} /\ Head(q) = q[1] /\ Tail(q) \in Seq(D)
          /\ DOMAIN Tail(q) = 1 .. Len(q) - 1
          /\ \A i \in 1 .. Len(q) - 1 : Tail(q)[i] = q[i + 1]
      BY <1>5
    <2>2. \A i \in 1 .. Len(q) : i = 1 \/ (i - 1 \in 1 .. Len(q) - 1 /\ i = (i - 1) + 1)
      BY <2>1
    <2>3. 1 \in 1 .. Len(q) /\ \A i \in 1 .. Len(q) - 1 : i + 1 \in 1 .. Len(q)
      BY <2>1
    <2>4. ASSUME NEW x \in Range(q) PROVE x = Head(q) \/ x \in Range(Tail(q))
      <3>1. PICK i \in 1 .. Len(q) : q[i] = x
        BY <1>1
      <3>2. CASE i - 1 \in 1 .. Len(q) - 1 /\ i = (i - 1) + 1
        <4>1. Tail(q)[i - 1] = x
          BY <2>1, <3>1, <3>2
        <4>2. QED BY <2>1, <3>2, <4>1 DEF Range
      <3>3. QED BY <2>1, <2>2, <3>1, <3>2
    <2>5. Head(q) \in Range(q) /\ Range(Tail(q)) \subseteq Range(q)
      BY <1>1, <2>1, <2>3 DEF Range
    <2>6. QED BY <1>1, <2>1, <2>4, <2>5
  <1>6. QED BY <1>1, <1>2, <1>3, <1>4, <1>5

-----------------------------------------------------------------------------
(* Fit stores: also without damage or failed writes *)

\* Without damage: no file is bad, those of indexed artifacts are there, no drop waits.
Sound(s) ==
    /\ s.pending = {}
    /\ \A d \in Digests : s.file[d] # "bad" /\ (d \in Indexed(s) => s.file[d] = "good")

Open(s) == \A d \in Digests : s.file[d] # "none" => d \in Indexed(s)

\* A store where the failures f may have happened.
Fit(f, s) ==
    /\ Exact(s)
    /\ "damage" \notin f => Sound(s)
    /\ f \cap {"write", "damage"} = {} => Open(s)

\* What is over the budget is all pinned, and an eviction is owed.
Owed(s) == Over(s) => s.due
Held(s) == Over(s) => s.due /\ \A d \in Indexed(s) : Pinned(s, d)

Spared(s, t) ==
    /\ SamePins(s, t) /\ t.pending = s.pending /\ Indexed(t) \subseteq Indexed(s)
    /\ \A d \in Indexed(s) : Pinned(s, d) => d \in Indexed(t)

LEMMA LessFit ==
    ASSUME NEW f, NEW s, NEW t, NEW X, Fit(f, s), Less(s, t, X), t.pending = s.pending
    PROVE  Fit(f, t)
  <1>1. /\ Exact(s) /\ Exact(t) /\ Indexed(t) = Indexed(s) \ X
        /\ \A d \in Digests : t.file[d] = IF d \in Indexed(s) \cap X THEN "none" ELSE s.file[d]
    BY DEF Fit, Less
  <1>2. Sound(s) => Sound(t)
    BY <1>1 DEF Sound
  <1>3. Open(s) => Open(t)
    BY <1>1 DEF Open
  <1>4. QED BY <1>1, <1>2, <1>3 DEF Fit

\* An eviction becomes due, or is done.
LEMMA SetDue ==
    ASSUME NEW s, NEW t, NEW X, Less(s, t, X), NEW b \in BOOLEAN
    PROVE  LET u == [t EXCEPT !.due = b] IN
           /\ Less(s, u, X) /\ u.due = b /\ u.pending = t.pending
           /\ (Over(u) <=> Over(t)) /\ Indexed(u) = Indexed(t)
  <1> DEFINE u == [t EXCEPT !.due = b]
  <1>1. t \in Stores /\ IsInjective(t.index) /\ t.total = Bytes(Range(t.index))
    BY DEF Less, Exact, Indexed
  <1>2. /\ u \in Stores /\ u.index = t.index /\ u.total = t.total /\ u.file = t.file
        /\ u.downloads = t.downloads
        /\ u.display = t.display /\ u.compile = t.compile /\ u.pending = t.pending /\ u.due = b
    BY <1>1 DEF Stores
  <1> HIDE DEF u
  <1>3. Indexed(u) = Indexed(t) /\ (Over(u) <=> Over(t))
    BY <1>2 DEF Indexed, Over
  <1>4. Exact(u)
    BY <1>1, <1>2 DEF Exact, Indexed
  <1>5. Less(s, u, X)
    BY <1>2, <1>3, <1>4 DEF Less, SamePins
  <1>6. QED BY <1>2, <1>3, <1>5 DEF u

\* An eviction takes what nothing pins or protects, and is due again only if that is all.
LEMMA EvictFacts ==
    ASSUME NEW s, Exact(s), NEW P
    PROVE  LET t == Evict(s, P) IN
           /\ t.pending = s.pending
           /\ Over(t) => t.due /\ \A d \in Indexed(t) : Pinned(s, d) \/ d \in P
           /\ \E X : Less(s, t, X) /\ \A d \in X : ~Pinned(s, d) /\ d \notin P
  <1> DEFINE free == {d \in Digests \ P : ~Pinned(s, d)}
             idle == Only(s.index, free)
             First(k) == Range(SubSeq(idle, 1, k))
             Without(k) == Discard(s, First(k))
             enough == {k \in 0 .. Len(idle) : ~Over(Without(k))}
             t == Evict(s, P)
  <1>1. s.index \in Seq(Digests) /\ Indexed(s) \in SUBSET Digests
    BY IndexedFacts DEF Exact, Stores
  <1>2. idle \in Seq(Digests) /\ Range(idle) = Indexed(s) \cap free
    BY <1>1, OnlyFacts DEF Indexed
  <1>3. t = IF enough = {} THEN [Without(Len(idle)) EXCEPT !.due = TRUE]
            ELSE [Without(Min(enough)) EXCEPT !.due = FALSE]
    BY DEF Evict
  <1>4. \A d \in free : ~Pinned(s, d) /\ d \notin P
    OBVIOUS
  <1>5. \A d \in Indexed(s) : d \in free \/ Pinned(s, d) \/ d \in P
    BY <1>1
  <1> HIDE DEF free, idle, t
  <1>6. Len(idle) \in Nat
    BY <1>2
  <1>7. \A k \in 0 .. Len(idle) : First(k) \subseteq Range(idle)
    BY <1>2, RangeFacts
  <1>8. First(Len(idle)) = Range(idle)
    BY <1>2, <1>6, RangeFacts
  <1>9. \A k : Less(s, Without(k), First(k)) /\ Without(k).pending = s.pending
    BY DiscardFacts
  <1> HIDE DEF First, Without
  <1>10. CASE enough = {}
    <2> DEFINE n == Len(idle)
               X == First(n)
    <2>1. t = [Without(n) EXCEPT !.due = TRUE]
      BY <1>3, <1>10
    <2>2. Less(s, Without(n), X) /\ Without(n).pending = s.pending
      BY <1>9
    <2>3. \A d \in X : ~Pinned(s, d) /\ d \notin P
      BY <1>2, <1>4, <1>8
    <2> HIDE DEF n
    <2>4. Less(s, t, X) /\ t.due /\ t.pending = s.pending
      BY <2>1, <2>2, SetDue
    <2>5. \A d \in Indexed(t) : Pinned(s, d) \/ d \in P
      BY <1>2, <1>5, <1>8, <2>4 DEF Less, n
    <2>6. QED BY <2>3, <2>4, <2>5 DEF t
  <1>11. CASE enough # {}
    <2> DEFINE k == Min(enough)
               X == First(k)
    <2>1. enough \in SUBSET Nat
      BY <1>6
    <2>2. k \in enough
      <3> HIDE DEF enough
      <3>1. QED BY <1>11, <2>1, MinFacts
    <2>3. t = [Without(k) EXCEPT !.due = FALSE]
      BY <1>3, <1>11
    <2> HIDE DEF k
    <2>4. k \in 0 .. Len(idle) /\ ~Over(Without(k))
      BY <2>2
    <2>5. Less(s, Without(k), X) /\ Without(k).pending = s.pending
      BY <1>9
    <2>6. \A d \in X : ~Pinned(s, d) /\ d \notin P
      BY <1>2, <1>4, <1>7, <2>4
    <2>7. Less(s, t, X) /\ ~Over(t) /\ t.pending = s.pending
      BY <2>3, <2>4, <2>5, SetDue
    <2>8. QED BY <2>6, <2>7 DEF t
  <1>12. QED BY <1>10, <1>11

LEMMA EvictIfDueFacts ==
    ASSUME NEW f, NEW s, Fit(f, s), Owed(s)
    PROVE  LET t == EvictIfDue(s) IN Fit(f, t) /\ Held(t) /\ Spared(s, t)
  <1>1. Exact(s) /\ s \in Stores /\ s.due \in BOOLEAN
    BY DEF Fit, Exact, Stores
  <1>2. CASE ~s.due
    BY <1>2 DEF EvictIfDue, Held, Owed, Spared, SamePins
  <1>3. CASE s.due
    <2> DEFINE t == Evict(s, {})
    <2>1. /\ t.pending = s.pending
          /\ Over(t) => t.due /\ \A d \in Indexed(t) : Pinned(s, d)
          /\ \E X : Less(s, t, X) /\ \A d \in X : ~Pinned(s, d)
      BY <1>1, EvictFacts
    <2> HIDE DEF t
    <2>2. PICK X : Less(s, t, X) /\ \A d \in X : ~Pinned(s, d)
      BY <2>1
    <2>3. Fit(f, t)
      BY <2>1, <2>2, LessFit
    <2>4. \A d : Pinned(t, d) <=> Pinned(s, d)
      BY <2>2 DEF Less, SamePins, Pinned
    <2>5. Held(t)
      BY <2>1, <2>4 DEF Held
    <2>6. Spared(s, t)
      BY <2>1, <2>2 DEF Spared, Less
    <2>7. QED BY <1>3, <2>3, <2>5, <2>6 DEF EvictIfDue, t
  <1>4. QED BY <1>1, <1>2, <1>3

-----------------------------------------------------------------------------
(* Each operation keeps a store fit and held *)

\* Another set of pins, or fewer drops that wait.
LEMMA PinsFacts ==
    ASSUME NEW f, NEW s, Fit(f, s), NEW t \in Stores, t.index = s.index, t.total = s.total,
           t.file = s.file, t.pending \subseteq s.pending
    PROVE  /\ Fit(f, t) /\ Indexed(t) = Indexed(s) /\ (Over(t) <=> Over(s))
           /\ ("damage" \notin f => t.pending = s.pending)
  <1>1. Indexed(t) = Indexed(s) /\ (Over(t) <=> Over(s))
    BY DEF Indexed, Over
  <1>2. Exact(t)
    BY <1>1 DEF Fit, Exact
  <1>3. /\ Sound(s) => Sound(t) /\ t.pending = s.pending
        /\ Open(s) => Open(t)
    BY <1>1 DEF Sound, Open
  <1>4. QED BY <1>1, <1>2, <1>3 DEF Fit

\* Use changes the order of the index only.
LEMMA OrderFacts ==
    ASSUME NEW f, NEW s, Fit(f, s), NEW r \in Seq(Digests), Range(r) = Indexed(s)
    PROVE  LET t == [s EXCEPT !.index = Latest(r)] IN
           /\ Fit(f, t) /\ SamePins(s, t) /\ Indexed(t) = Indexed(s) /\ t.file = s.file
           /\ t.pending = s.pending /\ t.due = s.due /\ (Over(t) <=> Over(s))
           /\ (Held(s) => Held(t))
  <1> DEFINE q == Latest(r)
             t == [s EXCEPT !.index = q]
  <1>1. s \in Stores /\ s.total = Bytes(Indexed(s)) /\ Exact(s)
    BY DEF Fit, Exact
  <1>2. q \in Seq(Digests) /\ Range(q) = Indexed(s) /\ IsInjective(q)
    BY LatestFacts
  <1> HIDE DEF q
  <1>3. /\ t \in Stores /\ t.index = q /\ t.total = s.total /\ t.file = s.file
        /\ t.downloads = s.downloads
        /\ t.display = s.display /\ t.compile = s.compile /\ t.pending = s.pending /\ t.due = s.due
    BY <1>1, <1>2 DEF Stores
  <1> HIDE DEF t
  <1>4. Indexed(t) = Indexed(s)
    BY <1>2, <1>3 DEF Indexed
  <1>5. Exact(t)
    BY <1>1, <1>2, <1>3, <1>4 DEF Exact
  <1>6. Over(t) <=> Over(s)
    <2>1. Len(t.index) = Len(s.index)
      BY <1>1, <1>4, <1>5, IndexedFacts
    <2>2. QED BY <1>3, <2>1 DEF Over
  <1>7. (Sound(s) => Sound(t)) /\ (Open(s) => Open(t))
    BY <1>3, <1>4 DEF Sound, Open
  <1>8. SamePins(s, t)
    BY <1>3 DEF SamePins
  <1>9. Held(s) => Held(t)
    BY <1>3, <1>4, <1>6 DEF Held, Pinned
  <1>10. QED BY <1>3, <1>4, <1>5, <1>6, <1>7, <1>8, <1>9 DEF Fit, t, q

LEMMA DropFacts ==
    ASSUME NEW s, Exact(s), NEW d \in Digests
    PROVE  LET t == Drop(s, d) IN
           /\ Exact(t) /\ SamePins(s, t) /\ t.due = s.due /\ (Over(t) => Over(s))
           /\ Indexed(t) \subseteq Indexed(s)
  <1>1. CASE s.downloads[d] > 0 \/ d \in s.display
    <2> DEFINE t == [s EXCEPT !.pending = @ \cup {d}]
    <2>1. s \in Stores
      BY DEF Exact
    <2>2. /\ t \in Stores /\ t.index = s.index /\ t.total = s.total /\ t.downloads = s.downloads
          /\ t.display = s.display /\ t.compile = s.compile /\ t.due = s.due
      BY <2>1 DEF Stores
    <2>3. Drop(s, d) = t
      BY <1>1 DEF Drop
    <2> HIDE DEF t
    <2>4. QED BY <2>2, <2>3 DEF Exact, SamePins, Over, Indexed
  <1>2. CASE ~(s.downloads[d] > 0 \/ d \in s.display)
    <2>1. Drop(s, d) = Discard(s, {d})
      BY <1>2 DEF Drop
    <2>2. Less(s, Drop(s, d), {d}) /\ Drop(s, d).due = s.due
      BY <2>1, DiscardFacts
    <2>3. QED BY <2>2 DEF Less
  <1>3. QED BY <1>1, <1>2

\* An eviction with what it protects pinned.
LEMMA EvictPinned ==
    ASSUME NEW f, NEW s, Fit(f, s), NEW P, \A d \in P : Pinned(s, d)
    PROVE  LET t == Evict(s, P) IN Fit(f, t) /\ Held(t) /\ Spared(s, t)
  <1> DEFINE t == Evict(s, P)
  <1>1. /\ t.pending = s.pending
        /\ Over(t) => t.due /\ \A d \in Indexed(t) : Pinned(s, d) \/ d \in P
        /\ \E X : Less(s, t, X) /\ \A d \in X : ~Pinned(s, d) /\ d \notin P
    BY EvictFacts DEF Fit
  <1> HIDE DEF t
  <1>2. PICK X : Less(s, t, X) /\ \A d \in X : ~Pinned(s, d)
    BY <1>1
  <1>3. Fit(f, t)
    BY <1>1, <1>2, LessFit
  <1>4. \A d : Pinned(t, d) <=> Pinned(s, d)
    BY <1>2 DEF Less, SamePins, Pinned
  <1>5. Held(t)
    BY <1>1, <1>4 DEF Held
  <1>6. Spared(s, t)
    BY <1>1, <1>2 DEF Spared, Less
  <1>7. QED BY <1>3, <1>5, <1>6 DEF t

\* put() of a reserved artifact.
LEMMA PutFacts ==
    ASSUME NEW f, NEW s, Fit(f, s), NEW d \in Digests, d \in s.display \cup s.compile
    PROVE  LET t == Put(s, d) IN
           /\ Fit(f, t) /\ Held(t) /\ SamePins(s, t) /\ d \in Indexed(t)
           /\ \A e \in Indexed(s) : Pinned(s, e) => e \in Indexed(t)
  <1> DEFINE q == ToEnd(s.index, d)
             n == s.total + Size[d] - Bytes({d} \cap Indexed(s))
             u == [s EXCEPT !.pending = @ \ {d}, !.index = q, !.total = n, !.file[d] = "good"]
             t == Put(s, d)
  <1>1. /\ s \in Stores /\ s.index \in Seq(Digests) /\ s.total = Bytes(Indexed(s)) /\ Exact(s)
        /\ Indexed(s) \in SUBSET Digests /\ IsFiniteSet(Indexed(s)) /\ s.total \in Nat
    BY IndexedFacts DEF Fit, Exact, Stores
  <1>2. q \in Seq(Digests) /\ Range(q) = Indexed(s) \cup {d} /\ IsInjective(q)
    <2> DEFINE r == Append(s.index, d)
    <2>1. r \in Seq(Digests) /\ Range(r) = Indexed(s) \cup {d}
      BY <1>1, RangeFacts DEF Indexed
    <2>2. q = Latest(r)
      BY DEF ToEnd
    <2> HIDE DEF r, q
    <2>3. QED BY <2>1, <2>2, LatestFacts
  <1>3. t = Evict(u, {d})
    BY DEF Put
  <1>4. n \in Nat /\ n = Bytes(Indexed(s) \cup {d})
    <2>1. Bytes({d}) = Size[d] /\ Size[d] \in Nat
      BY BytesOfOne, SizeAssumption
    <2>2. CASE d \in Indexed(s)
      <3>1. {d} \cap Indexed(s) = {d} /\ Indexed(s) \cup {d} = Indexed(s)
        BY <2>2
      <3>2. n = s.total + Size[d] - Size[d]
        BY <2>1, <3>1
      <3>3. n = s.total
        BY <1>1, <2>1, <3>2
      <3>4. QED BY <1>1, <3>1, <3>3
    <2>3. CASE d \notin Indexed(s)
      <3>1. {d} \cap Indexed(s) = {} /\ Indexed(s) \cap {d} = {}
        BY <2>3
      <3>2. IsFiniteSet({d})
        BY FS_Singleton
      <3>3. Bytes(Indexed(s) \cup {d}) = Bytes(Indexed(s)) + Bytes({d})
        BY <1>1, <3>1, <3>2, BytesOfBoth
      <3>4. n = s.total + Size[d] - 0
        BY <3>1, BytesOfNone
      <3>5. QED BY <1>1, <2>1, <3>3, <3>4
    <2>4. QED BY <2>2, <2>3
  <1> HIDE DEF q, n
  <1>5. /\ u.index = q /\ u.total = n /\ u.downloads = s.downloads /\ u.display = s.display
        /\ u.compile = s.compile /\ u.pending = s.pending \ {d} /\ u.due = s.due
        /\ u.file = [s.file EXCEPT ![d] = "good"]
    BY <1>1 DEF Stores
  <1>6. u \in Stores
    <2> DEFINE g == [s.file EXCEPT ![d] = "good"]
               p == s.pending \ {d}
    <2>1. g \in [Digests -> {"none", "good", "bad"}] /\ p \in SUBSET Digests /\ n \in Int
      BY <1>1, <1>4 DEF Stores
    <2>2. u = [s EXCEPT !.pending = p, !.index = q, !.total = n, !.file = g]
      OBVIOUS
    <2> HIDE DEF g, p, u
    <2>3. QED BY <1>1, <1>2, <2>1, <2>2 DEF Stores
  <1> HIDE DEF u, t
  <1>7. /\ u.file[d] = "good" /\ \A e \in Digests \ {d} : u.file[e] = s.file[e]
        /\ Indexed(u) = Indexed(s) \cup {d}
    BY <1>1, <1>2, <1>5 DEF Stores, Indexed
  <1>8. Exact(u)
    BY <1>2, <1>4, <1>5, <1>6, <1>7 DEF Exact
  <1>9. (Sound(s) => Sound(u)) /\ (Open(s) => Open(u))
    BY <1>5, <1>7 DEF Sound, Open
  <1>10. Fit(f, u)
    BY <1>8, <1>9 DEF Fit
  <1>11. SamePins(s, u) /\ \A e : Pinned(u, e) <=> Pinned(s, e)
    BY <1>5 DEF SamePins, Pinned
  <1>12. Pinned(u, d)
    BY <1>5 DEF Pinned
  <1>13. Fit(f, t) /\ Held(t) /\ Spared(u, t)
    BY <1>3, <1>10, <1>12, EvictPinned
  <1>14. QED BY <1>7, <1>11, <1>12, <1>13 DEF Spared, SamePins, t

\* Damage alone gets an artifact dropped: a sound store keeps what is pinned.
LEMMA ReadFacts ==
    ASSUME NEW f, NEW s, Fit(f, s), Held(s), NEW d \in Digests, ~CanRead(s, d)
    PROVE  LET t == Read(s, d) IN
           /\ Fit(f, t) /\ Held(t) /\ SamePins(s, t)
           /\ "damage" \notin f => t = s
  <1>1. CASE d \notin Indexed(s)
    BY <1>1 DEF Read, SamePins
  <1>2. CASE d \in Indexed(s)
    <2> DEFINE t == Drop(s, d)
    <2>1. s.file[d] # "good" /\ Read(s, d) = t
      BY <1>2 DEF CanRead, Read
    <2>2. "damage" \in f
      BY <1>2, <2>1 DEF Fit, Sound
    <2>3. /\ Exact(t) /\ SamePins(s, t) /\ t.due = s.due /\ (Over(t) => Over(s))
          /\ Indexed(t) \subseteq Indexed(s)
      BY DropFacts DEF Fit
    <2> HIDE DEF t
    <2>4. Fit(f, t)
      BY <2>2, <2>3 DEF Fit
    <2>5. Held(t)
      BY <2>3 DEF Held, SamePins, Pinned
    <2>6. QED BY <2>1, <2>2, <2>3, <2>4, <2>5
  <1>3. QED BY <1>1, <1>2

LEMMA ReadAllFacts ==
    ASSUME NEW f, NEW s, Fit(f, s), Held(s), NEW digests \in Seq(Digests)
    PROVE  LET read == ReadAll(s, digests)
               t == read.store
           IN /\ Fit(f, t) /\ Held(t) /\ SamePins(s, t)
              /\ "damage" \notin f => Indexed(t) = Indexed(s)
              /\ read.ok => Range(digests) \subseteq Indexed(t)
  <1> DEFINE failing == {k \in DOMAIN digests : ~CanRead(s, digests[k])}
             Used(k) == [s EXCEPT !.index = Latest(@ \o SubSeq(digests, 1, k))]
             read == ReadAll(s, digests)
  <1>1. /\ read = IF failing = {} THEN [ok |-> TRUE, store |-> Used(Len(digests))]
                  ELSE [ok |-> FALSE, store |-> Read(Used(Min(failing) - 1), digests[Min(failing)])]
    BY DEF ReadAll
  <1>2. /\ Len(digests) \in Nat /\ DOMAIN digests = 1 .. Len(digests)
        /\ \A k \in 1 .. Len(digests) : digests[k] \in Digests
        /\ s.index \in Seq(Digests)
    BY DEF Fit, Exact, Stores
  <1>3. ASSUME NEW k \in 0 .. Len(digests), \A j \in 1 .. k : CanRead(s, digests[j])
        PROVE  /\ Fit(f, Used(k)) /\ SamePins(s, Used(k)) /\ Indexed(Used(k)) = Indexed(s)
               /\ Used(k).file = s.file /\ Held(Used(k))
    <2> DEFINE p == SubSeq(digests, 1, k)
               r == s.index \o p
    <2>1. p \in Seq(Digests) /\ Range(p) = {digests[i] : i \in 1 .. k}
      BY RangeFacts
    <2>2. Range(p) \subseteq Indexed(s)
      BY <1>3, <2>1 DEF CanRead
    <2> HIDE DEF p
    <2>3. r \in Seq(Digests) /\ Range(r) = Indexed(s)
      <3>1. r \in Seq(Digests) /\ Range(r) = Indexed(s) \cup Range(p)
        BY <1>2, <2>1, RangeFacts DEF Indexed
      <3>2. QED BY <2>2, <3>1
    <2>4. Used(k) = [s EXCEPT !.index = Latest(r)]
      BY DEF p
    <2> HIDE DEF r
    <2>5. QED BY <2>3, <2>4, OrderFacts
  <1> HIDE DEF Used, read
  <1>4. CASE failing = {}
    <2>1. read.ok /\ read.store = Used(Len(digests))
      BY <1>1, <1>4
    <2>2. \A j \in 1 .. Len(digests) : CanRead(s, digests[j])
      BY <1>2, <1>4
    <2>3. Range(digests) \subseteq Indexed(s)
      BY <1>2, <2>2 DEF Range, CanRead
    <2>4. Len(digests) \in 0 .. Len(digests)
      BY <1>2
    <2>5. /\ Fit(f, read.store) /\ SamePins(s, read.store) /\ Indexed(read.store) = Indexed(s)
          /\ Held(read.store)
      BY <1>3, <2>1, <2>2, <2>4
    <2>6. QED BY <2>3, <2>5 DEF read
  <1>5. CASE failing # {}
    <2> DEFINE k == Min(failing)
               u == Used(k - 1)
    <2>1. k \in failing /\ \A j \in failing : k <= j
      <3>1. failing \in SUBSET Nat
        BY <1>2
      <3> HIDE DEF failing
      <3>2. QED BY <1>5, <3>1, MinFacts
    <2>2. ~read.ok /\ read.store = Read(u, digests[k])
      BY <1>1, <1>5
    <2> HIDE DEF k
    <2>3. k \in 1 .. Len(digests) /\ digests[k] \in Digests /\ ~CanRead(s, digests[k])
      BY <1>2, <2>1
    <2>4. k - 1 \in 0 .. Len(digests) /\ \A j \in 1 .. k - 1 : CanRead(s, digests[j])
      BY <1>2, <2>1, <2>3
    <2>5. /\ Fit(f, u) /\ SamePins(s, u) /\ Indexed(u) = Indexed(s) /\ u.file = s.file /\ Held(u)
      BY <1>3, <2>4
    <2>6. ~CanRead(u, digests[k])
      BY <2>3, <2>5 DEF CanRead
    <2> HIDE DEF u
    <2>7. /\ Fit(f, read.store) /\ Held(read.store) /\ SamePins(u, read.store)
          /\ "damage" \notin f => read.store = u
      BY <2>2, <2>3, <2>5, <2>6, ReadFacts
    <2>8. QED BY <2>2, <2>5, <2>7 DEF SamePins, read
  <1>6. QED BY <1>4, <1>5

\* While nothing is damaged, what is displayed or compiled stays in the index.
Stays(f, s, t) ==
    "damage" \notin f => \A e \in Indexed(s) : e \in t.display \cup t.compile => e \in Indexed(t)

LEMMA ReplaceDisplayFacts ==
    ASSUME NEW f, NEW s, Fit(f, s), Held(s), NEW Y \in SUBSET Digests
    PROVE  LET t == ReplaceDisplay(s, Y) IN
           /\ Fit(f, t) /\ Held(t) /\ Stays(f, s, t)
           /\ t.display = Y /\ t.compile = s.compile /\ t.downloads = s.downloads
  <1> DEFINE u == [s EXCEPT !.display = Y]
             t == ReplaceDisplay(s, Y)
  <1>1. s \in Stores
    BY DEF Fit, Exact
  <1>2. /\ u \in Stores /\ u.index = s.index /\ u.total = s.total /\ u.file = s.file /\ u.due = s.due
        /\ u.pending = s.pending /\ u.display = Y /\ u.compile = s.compile /\ u.downloads = s.downloads
    BY <1>1 DEF Stores
  <1>3. t = EvictIfDue(u)
    BY DEF ReplaceDisplay
  <1> HIDE DEF u, t
  <1>4. Fit(f, u) /\ Indexed(u) = Indexed(s) /\ (Over(u) <=> Over(s))
    BY <1>2, PinsFacts
  <1>5. Owed(u)
    BY <1>2, <1>4 DEF Held, Owed
  <1>6. Fit(f, t) /\ Held(t) /\ Spared(u, t)
    BY <1>3, <1>4, <1>5, EvictIfDueFacts
  <1>7. QED BY <1>2, <1>4, <1>6 DEF Spared, SamePins, Pinned, Stays, t

LEMMA ReplaceCompileFacts ==
    ASSUME NEW f, NEW s, Fit(f, s), Held(s), NEW Y \in SUBSET Digests
    PROVE  LET t == ReplaceCompile(s, Y) IN
           /\ Fit(f, t) /\ Held(t) /\ Stays(f, s, t)
           /\ t.compile = Y /\ t.display = s.display /\ t.downloads = s.downloads
  <1> DEFINE u == [s EXCEPT !.compile = Y]
             t == ReplaceCompile(s, Y)
  <1>1. s \in Stores
    BY DEF Fit, Exact
  <1>2. /\ u \in Stores /\ u.index = s.index /\ u.total = s.total /\ u.file = s.file /\ u.due = s.due
        /\ u.pending = s.pending /\ u.display = s.display /\ u.compile = Y /\ u.downloads = s.downloads
    BY <1>1 DEF Stores
  <1>3. t = EvictIfDue(u)
    BY DEF ReplaceCompile
  <1> HIDE DEF u, t
  <1>4. Fit(f, u) /\ Indexed(u) = Indexed(s) /\ (Over(u) <=> Over(s))
    BY <1>2, PinsFacts
  <1>5. Owed(u)
    BY <1>2, <1>4 DEF Held, Owed
  <1>6. Fit(f, t) /\ Held(t) /\ Spared(u, t)
    BY <1>3, <1>4, <1>5, EvictIfDueFacts
  <1>7. QED BY <1>2, <1>4, <1>6 DEF Spared, SamePins, Pinned, Stays, t

\* More pins.
LEMMA ReserveFacts ==
    ASSUME NEW f, NEW s, Fit(f, s), Held(s), NEW Y \in SUBSET Digests, NEW t,
           t \in {ReserveDisplay(s, Y), ReserveCompile(s, Y)}
    PROVE  /\ Fit(f, t) /\ Held(t) /\ Indexed(t) = Indexed(s) /\ t.downloads = s.downloads
           /\ t = ReserveDisplay(s, Y) => t.display = s.display \cup Y /\ t.compile = s.compile
           /\ t = ReserveCompile(s, Y) => t.compile = s.compile \cup Y /\ t.display = s.display
  <1>1. s \in Stores
    BY DEF Fit, Exact
  <1>2. s.display \cup Y \in SUBSET Digests /\ s.compile \cup Y \in SUBSET Digests
    BY <1>1 DEF Stores
  <1>3. /\ t \in Stores /\ t.index = s.index /\ t.total = s.total /\ t.file = s.file /\ t.due = s.due
        /\ t.pending = s.pending /\ t.downloads = s.downloads
        /\ s.display \subseteq t.display /\ s.compile \subseteq t.compile
        /\ t = ReserveDisplay(s, Y) => t.display = s.display \cup Y /\ t.compile = s.compile
        /\ t = ReserveCompile(s, Y) => t.compile = s.compile \cup Y /\ t.display = s.display
    <2>1. CASE t = ReserveDisplay(s, Y)
      <3>1. t = [s EXCEPT !.display = s.display \cup Y]
        BY <2>1 DEF ReserveDisplay
      <3>2. /\ t \in Stores /\ t.index = s.index /\ t.total = s.total /\ t.file = s.file /\ t.due = s.due
            /\ t.pending = s.pending /\ t.downloads = s.downloads
            /\ t.display = s.display \cup Y /\ t.compile = s.compile
        BY <1>1, <1>2, <3>1 DEF Stores
      <3>3. t = ReserveCompile(s, Y) => t.compile = s.compile \cup Y
        <4>1. t = ReserveCompile(s, Y) => t = [s EXCEPT !.compile = s.compile \cup Y]
          BY DEF ReserveCompile
        <4>2. QED BY <1>1, <4>1 DEF Stores
      <3>4. t = ReserveCompile(s, Y) => t.display = s.display
        <4>1. t = ReserveCompile(s, Y) => t = [s EXCEPT !.compile = s.compile \cup Y]
          BY DEF ReserveCompile
        <4>2. QED BY <1>1, <4>1 DEF Stores
      <3>5. QED BY <3>2, <3>3, <3>4
    <2>2. CASE t = ReserveCompile(s, Y)
      <3>1. t = [s EXCEPT !.compile = s.compile \cup Y]
        BY <2>2 DEF ReserveCompile
      <3>2. /\ t \in Stores /\ t.index = s.index /\ t.total = s.total /\ t.file = s.file /\ t.due = s.due
            /\ t.pending = s.pending /\ t.downloads = s.downloads
            /\ t.compile = s.compile \cup Y /\ t.display = s.display
        BY <1>1, <1>2, <3>1 DEF Stores
      <3>3. t = ReserveDisplay(s, Y) => t.display = s.display \cup Y /\ t.compile = s.compile
        <4>1. t = ReserveDisplay(s, Y) => t = [s EXCEPT !.display = s.display \cup Y]
          BY DEF ReserveDisplay
        <4>2. QED BY <1>1, <4>1 DEF Stores
      <3>4. QED BY <3>2, <3>3
    <2>3. QED BY <2>1, <2>2
  <1>4. Fit(f, t) /\ Indexed(t) = Indexed(s) /\ (Over(t) <=> Over(s))
    BY <1>3, PinsFacts
  <1>5. Held(t)
    BY <1>3, <1>4 DEF Held, Pinned
  <1>6. QED BY <1>3, <1>4, <1>5

LEMMA ReleaseDisplayFacts ==
    ASSUME NEW f, NEW s, Fit(f, s), Held(s)
    PROVE  LET t == ReleaseDisplay(s) IN
           /\ Fit(f, t) /\ Held(t) /\ Stays(f, s, t)
           /\ t.display = {} /\ t.compile = s.compile /\ t.downloads = s.downloads
  <1> DEFINE gone == {d \in s.pending : s.downloads[d] = 0}
             u == [s EXCEPT !.display = {}, !.pending = s.pending \ gone]
             v == Discard(u, gone)
             t == ReleaseDisplay(s)
  <1>1. s \in Stores /\ s.pending \ gone \in SUBSET Digests
    BY DEF Fit, Exact, Stores
  <1>2. t = EvictIfDue(v)
    BY DEF ReleaseDisplay
  <1>3. /\ u \in Stores /\ u.index = s.index /\ u.total = s.total /\ u.file = s.file /\ u.due = s.due
        /\ u.pending = s.pending \ gone /\ u.display = {} /\ u.compile = s.compile
        /\ u.downloads = s.downloads
    BY <1>1 DEF Stores
  <1>4. "damage" \notin f => gone = {}
    BY DEF Fit, Sound
  <1> HIDE DEF gone, u, t
  <1>5. Fit(f, u) /\ Indexed(u) = Indexed(s) /\ (Over(u) <=> Over(s))
    BY <1>3, PinsFacts
  <1>6. Less(u, v, gone) /\ v.pending = u.pending /\ v.due = u.due
    BY <1>5, DiscardFacts DEF Fit
  <1> HIDE DEF v
  <1>7. Fit(f, v)
    BY <1>5, <1>6, LessFit
  <1>8. Owed(v)
    BY <1>3, <1>5, <1>6 DEF Owed, Held, Less
  <1>9. Fit(f, t) /\ Held(t) /\ Spared(v, t)
    BY <1>2, <1>7, <1>8, EvictIfDueFacts
  <1>10. t.display = {} /\ t.compile = s.compile /\ t.downloads = s.downloads
    BY <1>3, <1>6, <1>9 DEF Spared, SamePins, Less
  <1>11. Stays(f, s, t)
    <2>1. ASSUME "damage" \notin f PROVE Indexed(v) = Indexed(s)
      BY <1>4, <1>5, <1>6, <2>1 DEF Less
    <2>2. \A d : d \in t.display \cup t.compile => Pinned(v, d)
      BY <1>9 DEF Spared, SamePins, Pinned
    <2>3. QED BY <1>9, <2>1, <2>2 DEF Stays, Spared
  <1>12. QED BY <1>9, <1>10, <1>11 DEF t

\* A download ends: what waited for it is made up for.
LEMMA ReleaseDownloadFacts ==
    ASSUME NEW f, NEW s, Fit(f, s), Held(s), NEW d \in Digests
    PROVE  LET t == ReleaseDownload(s, d) IN
           /\ Fit(f, t) /\ Held(t) /\ Stays(f, s, t) /\ t.display = s.display /\ t.compile = s.compile
           /\ t.downloads = [s.downloads EXCEPT ![d] = IF @ = 0 THEN 0 ELSE @ - 1]
  <1> DEFINE n == IF s.downloads[d] = 0 THEN 0 ELSE s.downloads[d] - 1
             g == [s.downloads EXCEPT ![d] = n]
             u == [s EXCEPT !.downloads = g]
             t == ReleaseDownload(s, d)
  <1>1. /\ s \in Stores /\ s.downloads \in [Digests -> Nat] /\ s.downloads[d] \in Nat
        /\ s.pending \in SUBSET Digests
    BY DEF Fit, Exact, Stores
  <1>2. n \in Nat /\ g = [s.downloads EXCEPT ![d] = IF @ = 0 THEN 0 ELSE @ - 1]
    BY <1>1
  <1>3. g \in [Digests -> Nat] /\ g[d] = n /\ \A e \in Digests \ {d} : g[e] = s.downloads[e]
    BY <1>1, <1>2
  <1>4. t = IF s.downloads[d] > 1 THEN u
            ELSE EvictIfDue(IF d \in s.pending THEN Drop([u EXCEPT !.pending = @ \ {d}], d) ELSE u)
    <2>1. u = [s EXCEPT !.downloads[d] = IF @ = 0 THEN 0 ELSE @ - 1]
      BY <1>1
    <2>2. u.pending = s.pending
      BY <1>1 DEF Stores
    <2> HIDE DEF u
    <2>3. QED BY <2>1, <2>2 DEF ReleaseDownload
  <1>5. s.downloads[d] > 1 => n > 0
    BY <1>1
  <1> HIDE DEF n, g
  <1>6. /\ u \in Stores /\ u.index = s.index /\ u.total = s.total /\ u.file = s.file /\ u.due = s.due
        /\ u.pending = s.pending /\ u.display = s.display /\ u.compile = s.compile
        /\ u.downloads = g
    BY <1>1, <1>3 DEF Stores
  <1> HIDE DEF u, t
  <1>7. Fit(f, u) /\ Indexed(u) = Indexed(s) /\ (Over(u) <=> Over(s))
    BY <1>6, PinsFacts
  <1>8. CASE s.downloads[d] > 1
    <2>1. t = u
      BY <1>4, <1>8
    <2>2. \A e \in Indexed(s) : e \in Digests /\ (Pinned(s, e) => Pinned(u, e))
      <3>1. Indexed(s) \in SUBSET Digests
        BY IndexedFacts DEF Fit
      <3>2. QED BY <1>3, <1>5, <1>6, <1>8, <3>1 DEF Pinned
    <2>3. Held(u)
      BY <1>6, <1>7, <2>2 DEF Held
    <2>4. QED BY <1>2, <1>6, <1>7, <2>1, <2>3 DEF Stays, t
  <1>9. CASE ~(s.downloads[d] > 1)
    <2> DEFINE w == [u EXCEPT !.pending = u.pending \ {d}]
               v == IF d \in s.pending THEN Drop(w, d) ELSE u
    <2>1. t = EvictIfDue(v)
      BY <1>4, <1>9
    <2>2. /\ w \in Stores /\ w.index = u.index /\ w.total = u.total /\ w.file = u.file /\ w.due = u.due
          /\ w.pending = u.pending \ {d} /\ w.display = u.display /\ w.compile = u.compile
          /\ w.downloads = u.downloads
      <3>1. u.pending \ {d} \in SUBSET Digests
        BY <1>1, <1>6
      <3>2. QED BY <1>6, <3>1 DEF Stores
    <2>3. Fit(f, v) /\ Owed(v) /\ SamePins(u, v) /\ ("damage" \notin f => v = u)
      <3>1. CASE d \notin s.pending
        <4>1. v = u
          BY <3>1
        <4> HIDE DEF v
        <4>2. QED BY <1>6, <1>7, <4>1 DEF Owed, Held, SamePins
      <3>2. CASE d \in s.pending
        <4>1. "damage" \in f
          BY <3>2 DEF Fit, Sound
        <4>2. v = Drop(w, d)
          BY <3>2
        <4> HIDE DEF w, v
        <4>3. Fit(f, w) /\ (Over(w) <=> Over(u))
          BY <1>7, <2>2, PinsFacts
        <4>4. /\ Exact(v) /\ SamePins(w, v) /\ v.due = w.due /\ (Over(v) => Over(w))
          BY <4>2, <4>3, DropFacts DEF Fit
        <4>5. Fit(f, v)
          BY <4>1, <4>4 DEF Fit
        <4>6. Owed(v)
          BY <1>6, <1>7, <2>2, <4>3, <4>4 DEF Owed, Held
        <4>7. SamePins(u, v)
          BY <2>2, <4>4 DEF SamePins
        <4>8. QED BY <4>1, <4>5, <4>6, <4>7
      <3>3. QED BY <3>1, <3>2
    <2> HIDE DEF v
    <2>4. Fit(f, t) /\ Held(t) /\ Spared(v, t)
      BY <2>1, <2>3, EvictIfDueFacts
    <2>5. t.display = s.display /\ t.compile = s.compile /\ t.downloads = g
      BY <1>6, <2>3, <2>4 DEF Spared, SamePins
    <2>6. Stays(f, s, t)
      <3>1. \A e : e \in t.display \cup t.compile => Pinned(v, e)
        BY <2>4 DEF Spared, SamePins, Pinned
      <3>2. QED BY <1>7, <2>3, <2>4, <3>1 DEF Stays, Spared
    <2>7. QED BY <1>2, <2>4, <2>5, <2>6 DEF t
  <1>10. QED BY <1>8, <1>9

\* A download begins.
LEMMA PrepareDownloadFacts ==
    ASSUME NEW f, NEW s, Fit(f, s), Held(s), NEW d \in Indexed(s)
    PROVE  LET t == PrepareDownload(s, d) IN
           /\ Fit(f, t) /\ Held(t) /\ Stays(f, s, t) /\ t.display = s.display /\ t.compile = s.compile
           /\ \A e \in Digests : /\ t.downloads[e] \in Nat
                                 /\ t.downloads[e] = s.downloads[e] + 1 => e = d
                                 /\ t.downloads[e] <= s.downloads[e] \/ t.downloads[e] = s.downloads[e] + 1
  <1> DEFINE g == [s.downloads EXCEPT ![d] = @ + 1]
             u == [s EXCEPT !.downloads = g]
             t == PrepareDownload(s, d)
  <1>1. s \in Stores /\ s.downloads \in [Digests -> Nat] /\ d \in Digests /\ s.index \in Seq(Digests)
    BY IndexedFacts DEF Fit, Exact, Stores
  <1>2. /\ g \in [Digests -> Nat] /\ g[d] = s.downloads[d] + 1
        /\ \A e \in Digests \ {d} : g[e] = s.downloads[e]
    BY <1>1
  <1>3. t = IF s.file[d] = "good" THEN [u EXCEPT !.index = ToEnd(@, d)] ELSE Drop(ReleaseDownload(u, d), d)
    <2>1. u = [s EXCEPT !.downloads[d] = @ + 1]
      BY <1>1
    <2> HIDE DEF u
    <2>2. QED BY <2>1 DEF PrepareDownload
  <1> HIDE DEF g
  <1>4. /\ u \in Stores /\ u.index = s.index /\ u.total = s.total /\ u.file = s.file /\ u.due = s.due
        /\ u.pending = s.pending /\ u.display = s.display /\ u.compile = s.compile
        /\ u.downloads = g
    BY <1>1, <1>2 DEF Stores
  <1> HIDE DEF u, t
  <1>5. Fit(f, u) /\ Indexed(u) = Indexed(s) /\ (Over(u) <=> Over(s))
    BY <1>4, PinsFacts
  <1>6. \A e \in Digests : g[e] \in Nat /\ s.downloads[e] \in Nat /\ s.downloads[e] <= g[e]
    BY <1>1, <1>2
  <1>7. Held(u)
    <2>1. \A e \in Digests : Pinned(s, e) => Pinned(u, e)
      BY <1>4, <1>6 DEF Pinned
    <2>2. Indexed(s) \in SUBSET Digests
      BY IndexedFacts DEF Fit
    <2>3. QED BY <1>4, <1>5, <2>1, <2>2 DEF Held
  <1>8. CASE s.file[d] = "good"
    <2> DEFINE r == Append(u.index, d)
    <2>1. r \in Seq(Digests) /\ Range(r) = Indexed(u)
      <3>1. u.index \in Seq(Digests) /\ d \in Digests
        BY <1>1, <1>4
      <3>2. r \in Seq(Digests) /\ Range(r) = Range(u.index) \cup {d}
        BY <3>1, RangeFacts
      <3>3. d \in Indexed(u)
        BY <1>5
      <3>4. QED BY <3>2, <3>3 DEF Indexed
    <2>2. t = [u EXCEPT !.index = Latest(r)]
      BY <1>3, <1>8 DEF ToEnd
    <2> HIDE DEF r
    <2>3. Fit(f, t) /\ SamePins(u, t) /\ Indexed(t) = Indexed(u) /\ Held(t)
      BY <1>5, <1>7, <2>1, <2>2, OrderFacts
    <2>4. t.display = s.display /\ t.compile = s.compile /\ t.downloads = g
      BY <1>4, <2>3 DEF SamePins
    <2>5. Stays(f, s, t)
      BY <1>5, <2>3 DEF Stays
    <2>6. \A e \in Digests : /\ g[e] \in Nat
                             /\ g[e] = s.downloads[e] + 1 => e = d
                             /\ g[e] <= s.downloads[e] \/ g[e] = s.downloads[e] + 1
      <3>1. ASSUME NEW e \in Digests, e # d
            PROVE  /\ g[e] \in Nat /\ g[e] # s.downloads[e] + 1 /\ g[e] <= s.downloads[e]
        <4>1. g[e] = s.downloads[e] /\ s.downloads[e] \in Nat
          BY <1>2, <1>6, <3>1
        <4>2. QED BY <4>1
      <3>2. g[d] \in Nat /\ g[d] = s.downloads[d] + 1
        BY <1>1, <1>2
      <3>3. QED BY <3>1, <3>2
    <2>7. QED BY <2>3, <2>4, <2>5, <2>6 DEF t
  <1>9. CASE s.file[d] # "good"
    <2> DEFINE v == ReleaseDownload(u, d)
    <2>1. "damage" \in f
      BY <1>1, <1>9 DEF Fit, Sound
    <2>2. t = Drop(v, d)
      BY <1>3, <1>9
    <2>3. /\ Fit(f, v) /\ Held(v) /\ v.display = u.display /\ v.compile = u.compile
          /\ v.downloads = [u.downloads EXCEPT ![d] = IF @ = 0 THEN 0 ELSE @ - 1]
      <3>1. d \in Digests /\ Fit(f, u) /\ Held(u)
        BY <1>1, <1>5, <1>7
      <3>2. QED BY <3>1, ReleaseDownloadFacts
    <2> HIDE DEF v
    <2>4. /\ Exact(t) /\ SamePins(v, t) /\ t.due = v.due /\ (Over(t) => Over(v))
          /\ Indexed(t) \subseteq Indexed(v)
      BY <1>1, <2>2, <2>3, DropFacts DEF Fit
    <2>5. Fit(f, t) /\ Stays(f, s, t)
      BY <2>1, <2>4 DEF Fit, Stays
    <2>6. Held(t)
      BY <2>3, <2>4 DEF Held, SamePins, Pinned
    <2>7. /\ t.display = s.display /\ t.compile = s.compile
          /\ t.downloads = [g EXCEPT ![d] = IF @ = 0 THEN 0 ELSE @ - 1]
      BY <1>4, <2>3, <2>4 DEF SamePins
    <2>8. \A e \in Digests : t.downloads[e] = s.downloads[e]
      <3>1. ASSUME NEW e \in Digests, e # d PROVE t.downloads[e] = s.downloads[e]
        BY <1>2, <2>7, <3>1
      <3>2. t.downloads[d] = IF g[d] = 0 THEN 0 ELSE g[d] - 1
        BY <1>1, <1>2, <2>7
      <3>3. g[d] = s.downloads[d] + 1 /\ s.downloads[d] \in Nat
        BY <1>1, <1>2
      <3>4. t.downloads[d] = s.downloads[d]
        BY <3>2, <3>3
      <3>5. QED BY <3>1, <3>4
    <2>9. \A e \in Digests : /\ t.downloads[e] \in Nat
                             /\ t.downloads[e] = s.downloads[e] + 1 => e = d
                             /\ t.downloads[e] <= s.downloads[e] \/ t.downloads[e] = s.downloads[e] + 1
      BY <1>6, <2>8
    <2>10. QED BY <2>5, <2>6, <2>7, <2>9 DEF t
  <1>10. QED BY <1>8, <1>9

\* What restore makes of s: t, which pins what was pinned and could be found.
Restored(f, s, digests, display, compile, t) ==
    /\ Fit(f, t) /\ Held(t) /\ t.downloads = s.downloads
    /\ t.display = display \cap Indexed(t) /\ t.compile = compile \cap Indexed(t)
    /\ \A d \in Range(digests) :
           s.file[d] = "good" /\ d \in display \cup compile => d \in Indexed(t)

\* The index is rebuilt from the artifacts of the manifests.
LEMMA RestoreFacts ==
    ASSUME NEW f, NEW s \in Stores, "damage" \notin f => \A d \in Digests : s.file[d] # "bad",
           NEW digests \in Seq(Digests), NEW display \in SUBSET Digests, NEW compile \in SUBSET Digests,
           NEW t, t = Restore(s, digests, display, compile)
    PROVE  Restored(f, s, digests, display, compile, t)
  <1> DEFINE sound == Latest(Only(digests, {d \in Digests : s.file[d] = "good"}))
             n == Bytes(Range(sound))
             g == [d \in Digests |-> IF d \in Range(sound) THEN "good" ELSE "none"]
             u == [s EXCEPT !.index = sound, !.total = n, !.display = display, !.compile = compile,
                            !.pending = {}, !.due = FALSE, !.file = g]
             v == Evict(u, {})
  <1>1. /\ sound \in Seq(Digests) /\ IsInjective(sound)
        /\ Range(sound) = Range(digests) \cap {d \in Digests : s.file[d] = "good"}
    <2> DEFINE good == {d \in Digests : s.file[d] = "good"}
               r == Only(digests, good)
    <2>1. r \in Seq(Digests) /\ Range(r) = Range(digests) \cap good
      <3> HIDE DEF good
      <3>1. QED BY OnlyFacts
    <2>2. sound = Latest(r)
      OBVIOUS
    <2> HIDE DEF r, sound
    <2>3. sound \in Seq(Digests) /\ IsInjective(sound) /\ Range(sound) = Range(r)
      BY <2>1, <2>2, LatestFacts
    <2>4. QED BY <2>1, <2>3
  <1>2. t = [v EXCEPT !.display = @ \cap Indexed(v), !.compile = @ \cap Indexed(v)]
    BY DEF Restore
  <1> HIDE DEF sound
  <1>3. n \in Nat /\ Range(sound) \in SUBSET Digests
    <2>1. IsFiniteSet(Range(sound)) /\ Range(sound) \in SUBSET Digests
      BY <1>1, InjectiveLength
    <2>2. QED BY <2>1, PileIsFinite
  <1>4. g \in [Digests -> {"none", "good", "bad"}]
    OBVIOUS
  <1>5. \A d \in Digests : g[d] = IF d \in Range(sound) THEN "good" ELSE "none"
    OBVIOUS
  <1> HIDE DEF g, n
  <1>6. /\ u \in Stores /\ u.index = sound /\ u.total = n /\ u.file = g /\ u.due = FALSE
        /\ u.pending = {} /\ u.display = display /\ u.compile = compile /\ u.downloads = s.downloads
    <2>1. /\ u.index = sound /\ u.total = n /\ u.file = g /\ u.due = FALSE
          /\ u.pending = {} /\ u.display = display /\ u.compile = compile /\ u.downloads = s.downloads
      BY DEF Stores
    <2>2. n \in Int /\ {} \in SUBSET Digests /\ FALSE \in BOOLEAN
      BY <1>3
    <2>3. u \in Stores
      BY <1>1, <1>4, <2>2 DEF Stores
    <2>4. QED BY <2>1, <2>3
  <1> HIDE DEF u, v
  <1>7. Indexed(u) = Range(sound)
    BY <1>6 DEF Indexed
  <1>8. Exact(u)
    BY <1>1, <1>6, <1>7 DEF Exact, n
  <1>9. Sound(u) /\ Open(u)
    BY <1>5, <1>6, <1>7 DEF Sound, Open
  <1>10. Fit(f, u)
    BY <1>8, <1>9 DEF Fit
  <1>11. Fit(f, v) /\ Held(v) /\ Spared(u, v)
    BY <1>10, EvictPinned DEF v
  <1>12. /\ t \in Stores /\ t.index = v.index /\ t.total = v.total /\ t.file = v.file /\ t.due = v.due
         /\ t.pending = v.pending /\ t.display = v.display \cap Indexed(v)
         /\ t.compile = v.compile \cap Indexed(v) /\ t.downloads = v.downloads
    <2>1. /\ v \in Stores /\ v.display \cap Indexed(v) \in SUBSET Digests
          /\ v.compile \cap Indexed(v) \in SUBSET Digests
      BY <1>11 DEF Fit, Exact, Stores
    <2>2. QED BY <1>2, <2>1 DEF Stores
  <1>13. Fit(f, t) /\ Indexed(t) = Indexed(v) /\ (Over(t) <=> Over(v))
    BY <1>11, <1>12, PinsFacts
  <1>14. Held(t)
    BY <1>11, <1>12, <1>13 DEF Held, Pinned
  <1>15. /\ t.downloads = s.downloads /\ t.display = display \cap Indexed(t)
         /\ t.compile = compile \cap Indexed(t)
    BY <1>6, <1>11, <1>12, <1>13 DEF Spared, SamePins
  <1>16. ASSUME NEW d \in Range(digests), s.file[d] = "good", d \in display \cup compile
         PROVE  d \in Indexed(t)
    <2>1. d \in Indexed(u)
      BY <1>1, <1>7, <1>16
    <2>2. Pinned(u, d)
      BY <1>6, <1>16 DEF Pinned
    <2>3. QED BY <1>11, <1>13, <2>1, <2>2 DEF Spared
  <1>17. QED BY <1>13, <1>14, <1>15, <1>16 DEF Restored

-----------------------------------------------------------------------------
(* The artifacts of several packs *)

\* FlattenSeq is defined by recursion: there is such a function.
LEMMA FlattenFacts ==
    ASSUME NEW D, NEW q \in Seq(Seq(D))
    PROVE  /\ FlattenSeq(q) \in Seq(D)
           /\ Range(FlattenSeq(q)) = UNION {Range(q[i]) : i \in DOMAIN q}
  <1>1. Len(q) \in Nat /\ DOMAIN q = 1 .. Len(q) /\ \A i \in 1 .. Len(q) : q[i] \in Seq(D)
    OBVIOUS
  <1> DEFINE n == Len(q)
             Flattens(f, k) ==
                 /\ f \in [1 .. k -> Seq(D)]
                 /\ \A i \in 1 .. k : f[i] = IF i = 1 THEN q[i] ELSE f[i - 1] \o q[i]
             Is(f) == f = [i \in 1 .. n |-> IF i = 1 THEN q[i] ELSE f[i - 1] \o q[i]]
  <1>2. CASE n = 0
    <2>1. q = <<>>
      BY <1>1, <1>2
    <2>2. FlattenSeq(q) = q
      BY <1>2 DEF FlattenSeq
    <2>3. <<>> \in Seq(D) /\ Range(<<>>) = {} /\ DOMAIN <<>> = {}
      BY DEF Range
    <2>4. (UNION {Range(q[i]) : i \in {}}) = {}
      OBVIOUS
    <2>5. DOMAIN q = {}
      BY <2>1, <2>3
    <2>6. QED BY <2>1, <2>2, <2>3, <2>4, <2>5
  <1>3. CASE n # 0
    <2>1. \A k \in 0 .. n : \E f : Flattens(f, k)
      <3> DEFINE Bad == {k \in 0 .. n : ~\E f : Flattens(f, k)}
      <3>1. SUFFICES ASSUME Bad # {} PROVE FALSE
        OBVIOUS
      <3> DEFINE m == Min(Bad)
      <3>2. m \in Bad /\ \A k \in Bad : m <= k
        <4>1. Bad \in SUBSET Nat
          BY <1>1
        <4> HIDE DEF Bad
        <4>2. QED BY <3>1, <4>1, MinFacts
      <3> HIDE DEF m
      <3>3. Flattens([i \in 1 .. 0 |-> q], 0)
        OBVIOUS
      <3>4. m # 0 /\ m \in 1 .. n
        <4>1. 0 \notin Bad
          BY <3>3
        <4>2. m \in 0 .. n
          BY <3>2
        <4> HIDE DEF Bad
        <4>3. QED BY <1>1, <3>2, <4>1, <4>2
      <3>5. PICK f : Flattens(f, m - 1)
        <4>1. m - 1 \in 0 .. n /\ m \in Int
          BY <1>1, <3>4
        <4>2. ~(m <= m - 1)
          BY <4>1
        <4>3. m - 1 \notin Bad
          <5> HIDE DEF Bad
          <5>1. QED BY <3>2, <4>2
        <4>4. QED BY <4>1, <4>3
      <3> DEFINE g == [i \in 1 .. m |-> IF i < m THEN f[i] ELSE IF m = 1 THEN q[1] ELSE f[m - 1] \o q[m]]
      <3>6. \A i \in 1 .. m : i < m => i \in 1 .. m - 1 /\ (i # 1 => i - 1 \in 1 .. m - 1)
        BY <3>4
      <3>7. \A i \in 1 .. m : g[i] \in Seq(D)
        <4>1. m # 1 => m - 1 \in 1 .. m - 1
          BY <3>4
        <4>2. q[m] \in Seq(D) /\ q[1] \in Seq(D)
          BY <1>1, <3>4
        <4>3. m # 1 => f[m - 1] \o q[m] \in Seq(D)
          BY <3>5, <4>1, <4>2
        <4>4. \A i \in 1 .. m - 1 : f[i] \in Seq(D)
          BY <3>5
        <4>5. QED BY <3>6, <4>2, <4>3, <4>4
      <3>8. ASSUME NEW i \in 1 .. m PROVE g[i] = IF i = 1 THEN q[i] ELSE g[i - 1] \o q[i]
        <4>1. CASE i < m
          <5>1. g[i] = f[i] /\ (i # 1 => g[i - 1] = f[i - 1])
            BY <3>4, <3>6, <4>1
          <5>2. f[i] = IF i = 1 THEN q[i] ELSE f[i - 1] \o q[i]
            BY <3>5, <3>6, <4>1
          <5>3. QED BY <5>1, <5>2
        <4>2. CASE i = m
          <5>1. g[i] = IF i = 1 THEN q[i] ELSE f[i - 1] \o q[i]
            BY <4>2
          <5>2. i # 1 => g[i - 1] = f[i - 1]
            BY <3>4, <4>2
          <5>3. QED BY <5>1, <5>2
        <4>3. QED BY <3>4, <4>1, <4>2
      <3> HIDE DEF g
      <3>9. m \in 1 .. m /\ g \in [1 .. m -> Seq(D)]
        <4>1. g = [i \in 1 .. m |-> g[i]]
          BY DEF g
        <4>2. QED BY <3>4, <3>7, <4>1
      <3>10. Flattens(g, m)
        BY <3>8, <3>9
      <3>11. QED BY <3>2, <3>10
    <2>2. PICK h : Flattens(h, n)
      <3>1. n \in 0 .. n
        BY <1>1
      <3> HIDE DEF Flattens
      <3>2. QED BY <2>1, <3>1
    <2>3. Is(h)
      <3>1. h = [i \in 1 .. n |-> h[i]]
        BY <2>2
      <3>2. QED BY <2>2, <3>1
    <2> DEFINE f == CHOOSE f : Is(f)
    <2>4. Is(f)
      <3> HIDE DEF Is
      <3>1. QED BY <2>3
    <2>5. FlattenSeq(q) = f[n]
      BY <1>3 DEF FlattenSeq
    <2> HIDE DEF f
    <2>6. \A i \in 1 .. n : f[i] = IF i = 1 THEN q[i] ELSE f[i - 1] \o q[i]
      BY <2>4
    <2> HIDE DEF Is
    <2> DEFINE Right(k) == f[k] \in Seq(D) /\ Range(f[k]) = UNION {Range(q[i]) : i \in 1 .. k}
               Wrong == {k \in 1 .. n : ~Right(k)}
    <2>7. Wrong = {}
      <3>1. SUFFICES ASSUME Wrong # {} PROVE FALSE
        OBVIOUS
      <3> DEFINE m == Min(Wrong)
      <3>2. m \in Wrong /\ \A k \in Wrong : m <= k
        <4>1. Wrong \in SUBSET Nat
          BY <1>1
        <4> HIDE DEF Wrong
        <4>2. QED BY <3>1, <4>1, MinFacts
      <3> HIDE DEF m
      <3>3. m \in 1 .. n /\ q[m] \in Seq(D)
        BY <1>1, <3>2
      <3>4. CASE m = 1
        <4>1. f[1] = q[1] /\ 1 \in 1 .. n
          BY <2>6, <3>3, <3>4
        <4>2. {Range(q[i]) : i \in 1 .. 1} = {Range(q[1])}
          OBVIOUS
        <4>3. UNION {Range(q[i]) : i \in 1 .. 1} = Range(q[1])
          BY <4>2
        <4>4. Right(1)
          BY <3>3, <3>4, <4>1, <4>3
        <4>5. QED BY <3>2, <3>4, <4>4
      <3>5. CASE m # 1
        <4>0. m - 1 \in 1 .. n /\ ~(m <= m - 1)
          BY <1>1, <3>3, <3>5
        <4>1. m - 1 \in 1 .. n /\ m - 1 \notin Wrong
          <5> HIDE DEF Wrong
          <5>1. QED BY <3>2, <4>0
        <4>2. f[m - 1] \in Seq(D) /\ Range(f[m - 1]) = UNION {Range(q[i]) : i \in 1 .. m - 1}
          BY <4>1
        <4>3. f[m] = f[m - 1] \o q[m]
          BY <2>6, <3>3, <3>5
        <4>4. f[m] \in Seq(D) /\ Range(f[m]) = Range(f[m - 1]) \cup Range(q[m])
          BY <3>3, <4>2, <4>3, RangeFacts
        <4>5. \A i \in 1 .. m : i \in 1 .. m - 1 \/ i = m
          BY <3>3
        <4>6. m \in 1 .. m /\ \A i \in 1 .. m - 1 : i \in 1 .. m
          BY <3>3
        <4>7. UNION {Range(q[i]) : i \in 1 .. m} = (UNION {Range(q[i]) : i \in 1 .. m - 1}) \cup Range(q[m])
          BY <4>5, <4>6
        <4>8. Right(m)
          BY <4>2, <4>4, <4>7
        <4>9. QED BY <3>2, <4>8
      <3>6. QED BY <3>4, <3>5
    <2>8. n \in 1 .. n
      BY <1>1, <1>3
    <2>9. Right(n)
      BY <2>7, <2>8
    <2>10. QED BY <1>1, <2>5, <2>9
  <1>4. QED BY <1>2, <1>3

LEMMA PackFacts ==
    ASSUME NEW m \in Designs
    PROVE  /\ Batch[m] \in Seq(Digests) /\ Pack(m) \in Seq(Digests)
           /\ Range(Batch[m]) \in SUBSET Digests /\ Range(Pack(m)) \in SUBSET Digests
           /\ Range(Batch[m]) \subseteq Range(Pack(m))
  <1>1. Batch[m] \in Seq(Digests) /\ Documents[m] \in Seq(Digests)
    BY DesignAssumption
  <1>2. Pack(m) \in Seq(Digests) /\ Range(Pack(m)) = Range(Batch[m]) \cup Range(Documents[m])
    BY <1>1, RangeFacts DEF Pack
  <1>3. QED BY <1>1, <1>2, RangeFacts

LEMMA OfFacts ==
    ASSUME NEW packs \in Seq(Designs)
    PROVE  /\ Of(packs) \in Seq(Digests)
           /\ \A m \in Range(packs) : Range(Pack(m)) \subseteq Range(Of(packs))
  <1> DEFINE q == [i \in 1 .. Len(packs) |-> Pack(packs[i])]
  <1>1. /\ Len(packs) \in Nat
        /\ \A i \in 1 .. Len(packs) : packs[i] \in Designs /\ Pack(packs[i]) \in Seq(Digests)
    BY PackFacts
  <1>2. q \in Seq(Seq(Digests)) /\ DOMAIN q = 1 .. Len(packs)
    BY <1>1
  <1>3. \A i \in 1 .. Len(packs) : q[i] = Pack(packs[i])
    OBVIOUS
  <1>4. Of(packs) = FlattenSeq(q)
    BY DEF Of
  <1> HIDE DEF q
  <1>5. Of(packs) \in Seq(Digests) /\ Range(Of(packs)) = UNION {Range(q[i]) : i \in DOMAIN q}
    BY <1>2, <1>4, FlattenFacts
  <1>6. ASSUME NEW m \in Range(packs) PROVE Range(Pack(m)) \subseteq Range(Of(packs))
    <2>1. PICK i \in 1 .. Len(packs) : packs[i] = m
      BY DEF Range
    <2>2. Range(q[i]) = Range(Pack(m))
      BY <1>3, <2>1
    <2>3. QED BY <1>2, <1>5, <2>1, <2>2
  <1>7. QED BY <1>5, <1>6

\* A save that failed: the displayed pack, if its manifest is durable, is still displayed.
LEMMA RollbackFacts ==
    ASSUME NEW f, NEW s, Fit(f, s), Held(s), durable \in Seq(Designs)
    PROVE  LET t == Rollback(s) IN
           /\ Fit(f, t) /\ Held(t) /\ t.downloads = s.downloads
           /\ t.display \subseteq s.display /\ t.compile \subseteq s.compile
           /\ "damage" \notin f =>
                  \A d \in s.display \cap Indexed(s) : d \in Range(Of(durable))
                      => d \in t.display /\ d \in Indexed(t)
  <1> DEFINE u == Restore(s, Of(durable), s.display, s.compile)
             v == ReplaceCompile(u, s.compile \cap Indexed(u))
             t == Rollback(s)
  <1>1. s \in Stores /\ s.display \in SUBSET Digests /\ s.compile \in SUBSET Digests
    BY DEF Fit, Exact, Stores
  <1>2. Of(durable) \in Seq(Digests)
    BY OfFacts
  <1>3. "damage" \notin f => \A d \in Digests : s.file[d] # "bad" /\ (d \in Indexed(s) => s.file[d] = "good")
    BY DEF Fit, Sound
  <1>4. t = ReplaceDisplay(v, s.display \cap Indexed(v))
    BY DEF Rollback
  <1> HIDE DEF t
  <1>5. /\ Fit(f, u) /\ Held(u) /\ u.downloads = s.downloads
        /\ u.display = s.display \cap Indexed(u) /\ u.compile = s.compile \cap Indexed(u)
        /\ \A d \in Range(Of(durable)) :
               s.file[d] = "good" /\ d \in s.display \cup s.compile => d \in Indexed(u)
    <2>1. u = Restore(s, Of(durable), s.display, s.compile)
      OBVIOUS
    <2> HIDE DEF u
    <2>2. Restored(f, s, Of(durable), s.display, s.compile, u)
      BY <1>1, <1>2, <1>3, <2>1, RestoreFacts
    <2>3. QED BY <2>2 DEF Restored
  <1> HIDE DEF u
  <1>6. /\ Fit(f, v) /\ Held(v) /\ Stays(f, u, v) /\ v.display = u.display
        /\ v.compile = s.compile \cap Indexed(u) /\ v.downloads = u.downloads
    BY <1>1, <1>5, ReplaceCompileFacts
  <1> HIDE DEF v
  <1>7. /\ Fit(f, t) /\ Held(t) /\ Stays(f, v, t) /\ t.compile = v.compile
        /\ t.display = s.display \cap Indexed(v) /\ t.downloads = v.downloads
    BY <1>1, <1>4, <1>6, ReplaceDisplayFacts
  <1>8. ASSUME "damage" \notin f, NEW d \in s.display \cap Indexed(s), d \in Range(Of(durable))
        PROVE  d \in t.display /\ d \in Indexed(t)
    <2>1. d \in Indexed(u) /\ d \in u.display
      BY <1>1, <1>3, <1>5, <1>8
    <2>2. d \in Indexed(v)
      BY <1>6, <1>8, <2>1 DEF Stays
    <2>3. QED BY <1>7, <1>8, <2>2 DEF Stays
  <1>9. QED BY <1>5, <1>6, <1>7, <1>8 DEF t

-----------------------------------------------------------------------------
(* The service keeps its store *)

\* The displayed pack is of a durable manifest, a batch of some design.
ShownBy(q, X) == X = {} \/ \E m \in Range(q) :
    IF {"save", "damage"} \subseteq faults THEN X \subseteq Range(Pack(m)) ELSE X = Range(Pack(m))
Batched(X) == X = {} \/ \E m \in Designs : X \subseteq Range(Batch[m])

\* What is in the index of t, while nothing is damaged.
Sure(t, X) == "damage" \notin faults => X \subseteq Indexed(t)

ManifestsInv == /\ durable \in Seq(Designs) /\ IsInjective(durable)
                /\ manifests \in Seq(Designs) /\ IsInjective(manifests)
                /\ Range(durable) \subseteq Range(manifests)

DisplayInv ==
    IF stage = "packing"
    THEN /\ ShownBy(durable, job.before) /\ Sure(store, job.before)
         /\ store.display = job.before \cup Range(Pack(Mine))
    ELSE ShownBy(durable, store.display) /\ Sure(store, store.display)

CompileInv ==
    /\ stage \in {"idle", "asked", "compiling"} => Batched(store.compile)
    /\ stage = "storing" => /\ Batched(job.before)
                            /\ store.compile = job.before \cup Range(Batch[Mine])
    /\ stage \in {"compiled", "checked", "packing"} =>
           store.compile = Range(Batch[Mine]) /\ Sure(store, Range(Batch[Mine]))

\* What is still to be stored.
TodoIn(artifacts) ==
    /\ Range(job.todo) \subseteq Range(artifacts)
    /\ Sure(store, Range(artifacts) \ Range(job.todo))
TodoInv == /\ stage = "storing" => TodoIn(Batch[Mine])
           /\ stage = "packing" => TodoIn(Pack(Mine))

ArtifactsInv ==
    /\ TypeOK /\ (stage # "idle" => job \in Jobs) /\ ManifestsInv
    /\ Fit(faults, store) /\ Held(store)
    /\ DisplayInv /\ CompileInv /\ TodoInv

\* What the invariant says of the store, and of the tool at work.
LEMMA InvFacts ==
    ASSUME ArtifactsInv
    PROVE  /\ Fit(faults, store) /\ Held(store) /\ store \in Stores
           /\ store.display \in SUBSET Digests /\ store.compile \in SUBSET Digests
           /\ \A d \in Digests : store.downloads[d] \in Nat /\ store.downloads[d] <= MaxDownloads
           /\ Indexed(store) \in SUBSET Digests /\ cache \subseteq Designs /\ faults \in FaultModels
           /\ ManifestsInv
           /\ stage # "idle" =>
                  /\ job \in Jobs /\ Mine \in Designs
                  /\ Batch[Mine] \in Seq(Digests) /\ Pack(Mine) \in Seq(Digests)
                  /\ Range(Batch[Mine]) \in SUBSET Digests /\ Range(Pack(Mine)) \in SUBSET Digests
                  /\ Range(Batch[Mine]) \subseteq Range(Pack(Mine))
                  /\ job.before \in SUBSET Digests /\ job.todo \in Seq(Digests)
  <1>1. Fit(faults, store) /\ Held(store) /\ store \in Stores /\ ManifestsInv
    BY DEF ArtifactsInv, Fit, Exact
  <1>2. /\ cache \subseteq Designs /\ faults \in FaultModels
        /\ \A d \in Digests : store.downloads[d] <= MaxDownloads
    BY DEF ArtifactsInv, TypeOK
  <1>3. /\ store.display \in SUBSET Digests /\ store.compile \in SUBSET Digests
        /\ \A d \in Digests : store.downloads[d] \in Nat
    BY <1>1 DEF Stores
  <1>4. Indexed(store) \in SUBSET Digests
    BY <1>1, IndexedFacts DEF Fit
  <1>5. ASSUME stage # "idle"
        PROVE  /\ job \in Jobs /\ Mine \in Designs
               /\ job.before \in SUBSET Digests /\ job.todo \in Seq(Digests)
    <2>1. job \in Jobs
      BY <1>5 DEF ArtifactsInv
    <2>2. QED BY <2>1 DEF Jobs, Mine
  <1>6. QED BY <1>1, <1>2, <1>3, <1>4, <1>5, PackFacts

LEMMA StoreTyped ==
    ASSUME NEW t, Fit(faults, t)
    PROVE  t \in Stores /\ t.total >= 0 /\ t.display \in SUBSET Digests /\ t.compile \in SUBSET Digests
           /\ \A d \in Digests : t.downloads[d] \in Nat
  <1>1. t \in Stores /\ Exact(t)
    BY DEF Fit, Exact
  <1>2. t.total \in Nat
    BY <1>1, IndexedFacts
  <1>3. QED BY <1>1, <1>2 DEF Stores

\* A store between two tools.
Settled(t) ==
    /\ Fit(faults, t) /\ Held(t) /\ t.downloads = store.downloads
    /\ Sure(t, t.display) /\ Batched(t.compile)

LEMMA Settles ==
    ASSUME ArtifactsInv, UNCHANGED faults, Settled(store'), stage' = "idle", job' \in Jobs \cup {None},
           cache' \subseteq Designs, ManifestsInv', ShownBy(durable', store'.display)
    PROVE  ArtifactsInv'
  <1>1. Fit(faults', store') /\ Held(store')
    BY DEF Settled
  <1>2. TypeOK'
    <2>1. store' \in Stores /\ store'.total >= 0
      BY StoreTyped DEF Settled
    <2>2. \A d \in Digests : store'.downloads[d] <= MaxDownloads
      BY InvFacts DEF Settled
    <2>3. faults' \in FaultModels
      BY InvFacts
    <2>4. QED BY <2>1, <2>2, <2>3 DEF TypeOK, Stages, ManifestsInv
  <1>3. DisplayInv'
    BY DEF DisplayInv, Settled, Sure, ShownBy
  <1>4. CompileInv'
    BY DEF CompileInv, Settled, Batched
  <1>5. TodoInv'
    BY DEF TodoInv
  <1>6. QED BY <1>1, <1>2, <1>3, <1>4, <1>5 DEF ArtifactsInv

\* A list of manifests that is only ever longer.
LEMMA ShownLonger ==
    ASSUME NEW p, NEW q, NEW X, ShownBy(p, X), Range(p) \subseteq Range(q)
    PROVE  ShownBy(q, X)
  BY DEF ShownBy

\* A rollback settles what was settled.
LEMMA RollbackSettles ==
    ASSUME ArtifactsInv, "save" \in faults, NEW t, Settled(t), ShownBy(durable, t.display)
    PROVE  Settled(Rollback(t)) /\ ShownBy(durable, Rollback(t).display)
  <1> DEFINE u == Rollback(t)
  <1>1. /\ Fit(faults, t) /\ Held(t) /\ durable \in Seq(Designs)
        /\ t.downloads = store.downloads
    BY InvFacts DEF Settled, ManifestsInv
  <1>2. /\ Fit(faults, u) /\ Held(u) /\ u.downloads = t.downloads
        /\ u.display \subseteq t.display /\ u.compile \subseteq t.compile
        /\ "damage" \notin faults =>
               \A d \in t.display \cap Indexed(t) : d \in Range(Of(durable))
                   => d \in u.display /\ d \in Indexed(u)
    BY <1>1, RollbackFacts
  <1> HIDE DEF u
  <1>3. Batched(u.compile)
    BY <1>2 DEF Settled, Batched
  <1>4. CASE "damage" \in faults
    BY <1>1, <1>2, <1>3, <1>4 DEF Settled, ShownBy, Sure, u
  <1>5. CASE "damage" \notin faults
    <2>1. t.display \subseteq Indexed(t)
      BY <1>5 DEF Settled, Sure
    <2>2. t.display \subseteq Range(Of(durable))
      <3>1. CASE t.display = {}
        BY <3>1
      <3>2. CASE t.display # {}
        <4>1. PICK m \in Range(durable) : t.display = Range(Pack(m))
          BY <1>5, <3>2 DEF ShownBy
        <4>2. QED BY <1>1, <4>1, OfFacts
      <3>3. QED BY <3>1, <3>2
    <2>3. u.display = t.display /\ u.display \subseteq Indexed(u)
      BY <1>2, <1>5, <2>1, <2>2
    <2>4. QED BY <1>1, <1>2, <1>3, <2>3 DEF Settled, Sure, u
  <1>6. QED BY <1>4, <1>5

LEMMA SavedSettles ==
    ASSUME ArtifactsInv, UNCHANGED faults, NEW t, Settled(t), ShownBy(durable, t.display), Saved(t),
           stage' = "idle", job' \in Jobs \cup {None}
    PROVE  ArtifactsInv'
  <1>1. store' = t /\ durable' = manifests /\ manifests' = manifests /\ cache' = cache
    BY DEF Saved
  <1>2. ManifestsInv'
    BY <1>1, InvFacts DEF ManifestsInv
  <1>3. ShownBy(durable', store'.display)
    <2>1. Range(durable) \subseteq Range(manifests)
      BY InvFacts DEF ManifestsInv
    <2>2. QED BY <1>1, <2>1, ShownLonger
  <1>4. cache' \subseteq Designs
    BY <1>1, InvFacts
  <1>5. QED BY <1>1, <1>2, <1>3, <1>4, Settles

LEMMA SaveFailsSettles ==
    ASSUME ArtifactsInv, UNCHANGED faults, NEW t, Settled(t), ShownBy(durable, t.display), SaveFails(t)
    PROVE  ArtifactsInv'
  <1>1. "save" \in faults /\ durable' = durable /\ stage' = "idle" /\ job' = None
    BY DEF SaveFails, End
  <1>2. CASE store' = Rollback(t) /\ cache' = {} /\ manifests' = durable
    <2>1. Settled(store') /\ ShownBy(durable', store'.display)
      BY <1>1, <1>2, RollbackSettles
    <2>2. ManifestsInv'
      BY <1>1, <1>2, InvFacts DEF ManifestsInv
    <2>3. QED BY <1>1, <1>2, <2>1, <2>2, Settles
  <1>3. CASE store' = t /\ UNCHANGED <<cache, manifests>>
    <2>1. ManifestsInv'
      BY <1>1, <1>3, InvFacts DEF ManifestsInv
    <2>2. cache' \subseteq Designs
      BY <1>3, InvFacts
    <2>3. QED BY <1>1, <1>3, <2>1, <2>2, Settles
  <1>4. QED BY <1>2, <1>3 DEF SaveFails

\* Outside the two loops that store artifacts the store is settled, whatever is read.
LEMMA IsSettled ==
    ASSUME ArtifactsInv, stage \notin {"storing", "packing"}, NEW t, Fit(faults, t), Held(t),
           SamePins(store, t), Stays(faults, store, t)
    PROVE  Settled(t) /\ ShownBy(durable, t.display)
  <1>1. t.downloads = store.downloads /\ t.display = store.display /\ t.compile = store.compile
    BY DEF SamePins
  <1>2. ShownBy(durable, t.display) /\ Sure(store, store.display)
    BY <1>1 DEF ArtifactsInv, DisplayInv
  <1>3. Sure(t, t.display)
    BY <1>1, <1>2 DEF Sure, Stays
  <1>4. Batched(t.compile)
    <2>1. stage \in Stages
      BY DEF ArtifactsInv, TypeOK
    <2>2. CASE stage \in {"idle", "asked", "compiling"}
      BY <1>1, <2>2 DEF ArtifactsInv, CompileInv
    <2>3. CASE stage \in {"compiled", "checked", "packing"}
      <3>1. t.compile = Range(Batch[Mine])
        BY <1>1, <2>3 DEF ArtifactsInv, CompileInv
      <3>2. Mine \in Designs
        BY <2>3, InvFacts
      <3>3. QED BY <3>1, <3>2 DEF Batched
    <2>4. QED BY <2>1, <2>2, <2>3 DEF Stages
  <1>5. QED BY <1>1, <1>2, <1>3, <1>4 DEF Settled

LEMMA StoreSettled ==
    ASSUME ArtifactsInv, stage \notin {"storing", "packing"}
    PROVE  Settled(store) /\ ShownBy(durable, store.display)
  <1>1. SamePins(store, store) /\ Stays(faults, store, store)
    BY DEF SamePins, Stays
  <1>2. QED BY <1>1, InvFacts, IsSettled

-----------------------------------------------------------------------------
(* Every action keeps the invariant *)

LEMMA SureStays ==
    ASSUME NEW s, NEW t, NEW X, Sure(s, X), Stays(faults, s, t), X \subseteq t.display \cup t.compile
    PROVE  Sure(t, X)
  BY DEF Sure, Stays

LEMMA Typed ==
    ASSUME ArtifactsInv, UNCHANGED faults, ManifestsInv', Fit(faults, store'), cache' \subseteq Designs,
           \A d \in Digests : store'.downloads[d] <= MaxDownloads,
           stage' \in Stages, job' \in Jobs \cup {None}
    PROVE  TypeOK' /\ Fit(faults', store')
  <1>1. store' \in Stores /\ store'.total >= 0
    BY StoreTyped
  <1>2. faults' \in FaultModels
    BY InvFacts
  <1>3. QED BY <1>1, <1>2 DEF TypeOK, ManifestsInv

\* The tool stays where it is, and so do the pins.
LEMMA QuietKeeps ==
    ASSUME ArtifactsInv, UNCHANGED <<faults, cache, manifests, durable, stage, job>>,
           Fit(faults, store'), Held(store'), Stays(faults, store, store'),
           store'.display = store.display, store'.compile = store.compile,
           \A d \in Digests : store'.downloads[d] <= MaxDownloads
    PROVE  ArtifactsInv'
  <1>1. ManifestsInv' /\ cache' \subseteq Designs /\ stage' \in Stages /\ job' \in Jobs \cup {None}
    BY DEF ArtifactsInv, ManifestsInv, TypeOK
  <1>2. TypeOK' /\ Fit(faults', store')
    BY <1>1, Typed
  <1>3. Mine' = Mine
    BY DEF Mine
  <1>4. DisplayInv'
    <2>1. DisplayInv
      BY DEF ArtifactsInv
    <2>2. CASE stage = "packing"
      <3>1. /\ ShownBy(durable, job.before) /\ Sure(store, job.before)
            /\ store.display = job.before \cup Range(Pack(Mine))
        BY <2>1, <2>2 DEF DisplayInv
      <3>2. Sure(store', job.before)
        BY <3>1, SureStays
      <3>3. QED BY <1>3, <2>2, <3>1, <3>2 DEF DisplayInv, ShownBy, Sure
    <2>3. CASE stage # "packing"
      <3>1. ShownBy(durable, store.display) /\ Sure(store, store.display)
        BY <2>1, <2>3 DEF DisplayInv
      <3>2. Sure(store', store'.display)
        BY <3>1, SureStays
      <3>3. QED BY <2>3, <3>1, <3>2 DEF DisplayInv, ShownBy, Sure
    <2>4. QED BY <2>2, <2>3
  <1>5. CompileInv'
    <2>1. CompileInv
      BY DEF ArtifactsInv
    <2>2. stage \in {"compiled", "checked", "packing"} => Sure(store', Range(Batch[Mine]))
      BY <2>1, SureStays DEF CompileInv
    <2>3. QED BY <1>3, <2>1, <2>2 DEF CompileInv, Batched, Sure
  <1>6. TodoInv'
    <2>1. stage = "storing" => Sure(store', Range(Batch[Mine]) \ Range(job.todo))
      BY SureStays DEF ArtifactsInv, CompileInv, TodoInv, TodoIn
    <2>2. stage = "packing" => Sure(store', Range(Pack(Mine)) \ Range(job.todo))
      BY SureStays DEF ArtifactsInv, DisplayInv, TodoInv, TodoIn
    <2>3. QED BY <1>3, <2>1, <2>2 DEF ArtifactsInv, TodoInv, TodoIn, Sure
  <1>7. QED BY <1>1, <1>2, <1>4, <1>5, <1>6 DEF ArtifactsInv

LEMMA StartDownloadKeeps ==
    ASSUME ArtifactsInv, UNCHANGED faults, NEW d \in Digests, StartDownload(d)
    PROVE  ArtifactsInv'
  <1>1. /\ d \in Indexed(store) /\ store.downloads[d] < MaxDownloads
        /\ store' = PrepareDownload(store, d) /\ UNCHANGED <<cache, manifests, durable, stage, job>>
    BY DEF StartDownload
  <1>2. /\ Fit(faults, store') /\ Held(store') /\ Stays(faults, store, store')
        /\ store'.display = store.display /\ store'.compile = store.compile
        /\ \A e \in Digests : /\ store'.downloads[e] \in Nat
                              /\ store'.downloads[e] = store.downloads[e] + 1 => e = d
                              /\ \/ store'.downloads[e] <= store.downloads[e]
                                 \/ store'.downloads[e] = store.downloads[e] + 1
    BY <1>1, InvFacts, PrepareDownloadFacts
  <1>3. ASSUME NEW e \in Digests PROVE store'.downloads[e] <= MaxDownloads
    <2>1. store.downloads[e] \in Nat /\ store.downloads[e] <= MaxDownloads /\ MaxDownloads \in Nat
      BY InvFacts, DesignAssumption
    <2>2. /\ store'.downloads[e] \in Nat
          /\ store'.downloads[e] = store.downloads[e] + 1 => store.downloads[e] < MaxDownloads
          /\ store'.downloads[e] <= store.downloads[e] \/ store'.downloads[e] = store.downloads[e] + 1
      BY <1>1, <1>2
    <2>3. QED BY <2>1, <2>2
  <1>4. QED BY <1>1, <1>2, <1>3, QuietKeeps

LEMMA EndDownloadKeeps ==
    ASSUME ArtifactsInv, UNCHANGED faults, NEW d \in Digests, EndDownload(d)
    PROVE  ArtifactsInv'
  <1>1. store' = ReleaseDownload(store, d) /\ UNCHANGED <<cache, manifests, durable, stage, job>>
    BY DEF EndDownload
  <1>2. /\ Fit(faults, store') /\ Held(store') /\ Stays(faults, store, store')
        /\ store'.display = store.display /\ store'.compile = store.compile
        /\ store'.downloads = [store.downloads EXCEPT ![d] = IF @ = 0 THEN 0 ELSE @ - 1]
    BY <1>1, InvFacts, ReleaseDownloadFacts
  <1>3. ASSUME NEW e \in Digests PROVE store'.downloads[e] <= MaxDownloads
    <2>1. store.downloads[e] \in Nat /\ store.downloads[e] <= MaxDownloads /\ MaxDownloads \in Nat
      BY InvFacts, DesignAssumption
    <2>2. store.downloads \in [Digests -> Nat]
      BY InvFacts DEF Stores
    <2>3. store'.downloads[e] \in {store.downloads[e], 0, store.downloads[e] - 1}
      BY <1>2, <2>2
    <2>4. QED BY <2>1, <2>3
  <1>4. QED BY <1>1, <1>2, <1>3, QuietKeeps

LEMMA BeginKeeps ==
    ASSUME ArtifactsInv, UNCHANGED faults, NEW tool \in Tools, NEW design \in Designs, Begin(tool, design)
    PROVE  ArtifactsInv'
  <1>1. /\ stage = "idle" /\ stage' = "asked" /\ UNCHANGED <<store, cache, manifests, durable>>
        /\ job' = [tool |-> tool, design |-> design, todo |-> <<>>, before |-> {}]
    BY DEF Begin
  <1>2. job' \in Jobs
    BY <1>1 DEF Jobs
  <1>3. TypeOK'
    BY <1>1, <1>2 DEF ArtifactsInv, TypeOK, Stages
  <1>4. DisplayInv' /\ CompileInv' /\ TodoInv'
    BY <1>1 DEF ArtifactsInv, DisplayInv, CompileInv, TodoInv, ShownBy, Sure, Batched
  <1>5. QED BY <1>1, <1>2, <1>3, <1>4 DEF ArtifactsInv, ManifestsInv

\* What is read changes no pins.
LEMMA ReadStays ==
    ASSUME ArtifactsInv, stage # "idle"
    PROVE  LET read == ReadAll(store, Batch[Mine])
               t == read.store
           IN /\ Fit(faults, t) /\ Held(t) /\ SamePins(store, t) /\ Stays(faults, store, t)
              /\ "damage" \notin faults => Indexed(t) = Indexed(store)
              /\ read.ok => Range(Batch[Mine]) \subseteq Indexed(t)
  <1> DEFINE read == ReadAll(store, Batch[Mine])
             t == read.store
  <1>1. /\ Fit(faults, t) /\ Held(t) /\ SamePins(store, t)
        /\ "damage" \notin faults => Indexed(t) = Indexed(store)
        /\ read.ok => Range(Batch[Mine]) \subseteq Indexed(t)
    BY InvFacts, ReadAllFacts
  <1> HIDE DEF read
  <1>2. Stays(faults, store, t)
    BY <1>1 DEF Stays
  <1>3. QED BY <1>1, <1>2 DEF read

LEMMA CacheHitKeeps ==
    ASSUME ArtifactsInv, UNCHANGED faults, CacheHit
    PROVE  ArtifactsInv'
  <1> DEFINE read == ReadAll(store, Batch[Mine])
             t == read.store
  <1>1. /\ stage = "asked" /\ read.ok /\ store' = ReplaceCompile(t, Range(Batch[Mine]))
        /\ stage' = "compiled" /\ UNCHANGED <<cache, manifests, durable, job>>
    BY DEF CacheHit, GoTo
  <1>2. /\ Fit(faults, t) /\ Held(t) /\ SamePins(store, t) /\ Stays(faults, store, t)
        /\ Range(Batch[Mine]) \subseteq Indexed(t)
    BY <1>1, ReadStays
  <1> HIDE DEF read
  <1>3. Range(Batch[Mine]) \in SUBSET Digests /\ job \in Jobs
    BY <1>1, InvFacts
  <1>4. /\ Fit(faults, store') /\ Held(store') /\ Stays(faults, t, store')
        /\ store'.compile = Range(Batch[Mine]) /\ store'.display = t.display
        /\ store'.downloads = t.downloads
    BY <1>1, <1>2, <1>3, ReplaceCompileFacts
  <1>5. store'.display = store.display /\ store'.downloads = store.downloads
    BY <1>2, <1>4 DEF SamePins
  <1>6. Sure(store', store'.display)
    <2>1. Sure(store, store.display)
      BY <1>1 DEF ArtifactsInv, DisplayInv
    <2>2. Sure(t, t.display)
      BY <1>2, <2>1, SureStays DEF SamePins
    <2>3. QED BY <1>4, <2>2, SureStays
  <1>7. Sure(store', Range(Batch[Mine]))
    BY <1>2, <1>4 DEF Sure, Stays
  <1>8. /\ ManifestsInv' /\ cache' \subseteq Designs
        /\ \A d \in Digests : store'.downloads[d] <= MaxDownloads
    BY <1>1, <1>5, InvFacts DEF ManifestsInv
  <1>9. TypeOK' /\ Fit(faults', store')
    BY <1>1, <1>3, <1>4, <1>8, Typed DEF Stages
  <1>10. DisplayInv'
    BY <1>1, <1>5, <1>6 DEF ArtifactsInv, DisplayInv, ShownBy, Sure
  <1>11. CompileInv' /\ TodoInv'
    BY <1>1, <1>4, <1>7 DEF CompileInv, TodoInv, Mine, Sure
  <1>12. QED BY <1>1, <1>3, <1>4, <1>8, <1>9, <1>10, <1>11 DEF ArtifactsInv

LEMMA CacheMissKeeps ==
    ASSUME ArtifactsInv, UNCHANGED faults, CacheMiss
    PROVE  ArtifactsInv'
  <1>1. /\ stage = "asked" /\ stage' = "compiling" /\ cache' = cache \ {Mine}
        /\ store' \in {store, ReadAll(store, Batch[Mine]).store} /\ UNCHANGED <<manifests, durable, job>>
    BY DEF CacheMiss, GoTo
  <1>2. job \in Jobs
    BY <1>1, InvFacts
  <1>3. Fit(faults, store') /\ Held(store') /\ SamePins(store, store') /\ Stays(faults, store, store')
    <2>1. CASE store' = store
      <3>1. Fit(faults, store) /\ Held(store)
        BY InvFacts
      <3>2. QED BY <2>1, <3>1 DEF SamePins, Stays
    <2>2. CASE store' = ReadAll(store, Batch[Mine]).store
      BY <1>1, <2>2, ReadStays
    <2>3. QED BY <1>1, <2>1, <2>2
  <1>4. /\ store'.display = store.display /\ store'.compile = store.compile
        /\ store'.downloads = store.downloads
    BY <1>3 DEF SamePins
  <1>5. /\ ManifestsInv' /\ cache' \subseteq Designs
        /\ \A d \in Digests : store'.downloads[d] <= MaxDownloads
    BY <1>1, <1>4, InvFacts DEF ManifestsInv
  <1>6. TypeOK' /\ Fit(faults', store')
    BY <1>1, <1>2, <1>3, <1>5, Typed DEF Stages
  <1>7. DisplayInv'
    <2>1. ShownBy(durable, store.display) /\ Sure(store, store.display)
      BY <1>1 DEF ArtifactsInv, DisplayInv
    <2>2. Sure(store', store'.display)
      BY <1>3, <1>4, <2>1, SureStays
    <2>3. QED BY <1>1, <1>4, <2>1, <2>2 DEF DisplayInv, ShownBy, Sure
  <1>8. CompileInv' /\ TodoInv'
    BY <1>1, <1>4 DEF ArtifactsInv, CompileInv, TodoInv, Batched
  <1>9. QED BY <1>1, <1>2, <1>3, <1>5, <1>6, <1>7, <1>8 DEF ArtifactsInv

LEMMA CompileFailsKeeps ==
    ASSUME ArtifactsInv, UNCHANGED faults, CompileFails
    PROVE  ArtifactsInv'
  <1>1. stage = "compiling" /\ ((Saved(store) /\ End) \/ SaveFails(store))
    BY DEF CompileFails
  <1>2. Settled(store) /\ ShownBy(durable, store.display)
    BY <1>1, StoreSettled
  <1>3. CASE Saved(store) /\ End
    BY <1>2, <1>3, SavedSettles DEF End
  <1>4. CASE SaveFails(store)
    BY <1>2, <1>4, SaveFailsSettles
  <1>5. QED BY <1>1, <1>3, <1>4

LEMMA ReserveKeeps ==
    ASSUME ArtifactsInv, UNCHANGED faults, Reserve
    PROVE  ArtifactsInv'
  <1>1. /\ stage = "compiling" /\ stage' = "storing"
        /\ store' = ReserveCompile(store, Range(Batch[Mine]))
        /\ job' = [job EXCEPT !.todo = Batch[Mine], !.before = store.compile]
        /\ UNCHANGED <<cache, manifests, durable>>
    BY DEF Reserve
  <1>2. /\ job \in Jobs /\ Batch[Mine] \in Seq(Digests) /\ Range(Batch[Mine]) \in SUBSET Digests
        /\ store.compile \in SUBSET Digests
    BY <1>1, InvFacts
  <1>3. /\ job' \in Jobs /\ job'.todo = Batch[Mine] /\ job'.before = store.compile /\ Mine' = Mine
    BY <1>1, <1>2 DEF Jobs, Mine
  <1>4. /\ Fit(faults, store') /\ Held(store') /\ Indexed(store') = Indexed(store)
        /\ store'.downloads = store.downloads /\ store'.display = store.display
        /\ store'.compile = store.compile \cup Range(Batch[Mine])
    BY <1>1, <1>2, InvFacts, ReserveFacts
  <1>5. /\ ManifestsInv' /\ cache' \subseteq Designs
        /\ \A d \in Digests : store'.downloads[d] <= MaxDownloads
    BY <1>1, <1>4, InvFacts DEF ManifestsInv
  <1>6. TypeOK' /\ Fit(faults', store')
    BY <1>1, <1>3, <1>4, <1>5, Typed DEF Stages
  <1>7. DisplayInv'
    BY <1>1, <1>4 DEF ArtifactsInv, DisplayInv, ShownBy, Sure
  <1>8. CompileInv'
    BY <1>1, <1>3, <1>4 DEF ArtifactsInv, CompileInv, Batched
  <1>9. TodoInv'
    BY <1>1, <1>3 DEF TodoInv, TodoIn, Sure
  <1>10. QED BY <1>3, <1>4, <1>5, <1>6, <1>7, <1>8, <1>9 DEF ArtifactsInv

\* One more artifact of those that are listed is stored.
LEMMA PutNextKeeps ==
    ASSUME ArtifactsInv, UNCHANGED faults, PutNext
    PROVE  ArtifactsInv'
  <1> DEFINE d == Head(job.todo)
             rest == Tail(job.todo)
  <1>1. /\ stage \in {"storing", "packing"} /\ job.todo # <<>> /\ store' = Put(store, d)
        /\ job' = [job EXCEPT !.todo = rest] /\ UNCHANGED <<cache, manifests, durable, stage>>
    BY DEF PutNext
  <1>2. job \in Jobs /\ job.todo \in Seq(Digests) /\ Mine \in Designs
    BY <1>1, InvFacts
  <1>3. d \in Digests /\ rest \in Seq(Digests) /\ Range(job.todo) = {d} \cup Range(rest)
    BY <1>1, <1>2, RangeFacts
  <1> HIDE DEF d, rest
  <1>4. job' \in Jobs /\ job'.todo = rest /\ job'.before = job.before /\ Mine' = Mine
    BY <1>1, <1>2, <1>3 DEF Jobs, Mine
  <1>5. /\ stage = "storing" => /\ Range(job.todo) \subseteq Range(Batch[Mine])
                                /\ Sure(store, Range(Batch[Mine]) \ Range(job.todo))
                                /\ store.compile = job.before \cup Range(Batch[Mine])
        /\ stage = "packing" => /\ Range(job.todo) \subseteq Range(Pack(Mine))
                                /\ Sure(store, Range(Pack(Mine)) \ Range(job.todo))
                                /\ store.display = job.before \cup Range(Pack(Mine))
    BY DEF ArtifactsInv, CompileInv, DisplayInv, TodoInv, TodoIn
  <1>6. d \in store.display \cup store.compile
    BY <1>1, <1>3, <1>5
  <1>7. /\ Fit(faults, store') /\ Held(store') /\ SamePins(store, store') /\ d \in Indexed(store')
        /\ \A e \in Indexed(store) : Pinned(store, e) => e \in Indexed(store')
    BY <1>1, <1>3, <1>6, InvFacts, PutFacts
  <1>8. /\ store'.display = store.display /\ store'.compile = store.compile
        /\ store'.downloads = store.downloads
    BY <1>7 DEF SamePins
  <1>9. Stays(faults, store, store')
    BY <1>7, <1>8 DEF Stays, Pinned
  <1>10. /\ ManifestsInv' /\ cache' \subseteq Designs
         /\ \A e \in Digests : store'.downloads[e] <= MaxDownloads
    BY <1>1, <1>8, InvFacts DEF ManifestsInv
  <1>11. TypeOK' /\ Fit(faults', store')
    <2>1. stage' \in Stages
      BY <1>1 DEF Stages
    <2>2. QED BY <1>4, <1>7, <1>10, <2>1, Typed
  <1>12. DisplayInv'
    <2>1. CASE stage = "packing"
      <3>1. ShownBy(durable, job.before) /\ Sure(store, job.before)
        BY <2>1 DEF ArtifactsInv, DisplayInv
      <3>2. Sure(store', job.before)
        BY <1>5, <1>8, <1>9, <2>1, <3>1, SureStays
      <3>3. QED BY <1>1, <1>4, <1>5, <1>8, <2>1, <3>1, <3>2 DEF DisplayInv, ShownBy, Sure
    <2>2. CASE stage = "storing"
      <3>1. ShownBy(durable, store.display) /\ Sure(store, store.display)
        BY <2>2 DEF ArtifactsInv, DisplayInv
      <3>2. Sure(store', store'.display)
        BY <1>8, <1>9, <3>1, SureStays
      <3>3. QED BY <1>1, <1>8, <2>2, <3>1, <3>2 DEF DisplayInv, ShownBy, Sure
    <2>3. QED BY <1>1, <2>1, <2>2
  <1>13. CompileInv'
    <2>1. stage = "storing" => Batched(job.before)
      BY DEF ArtifactsInv, CompileInv
    <2>2. stage = "packing" => store.compile = Range(Batch[Mine]) /\ Sure(store, Range(Batch[Mine]))
      BY DEF ArtifactsInv, CompileInv
    <2>3. stage = "packing" => Sure(store', Range(Batch[Mine]))
      BY <1>8, <1>9, <2>2, SureStays
    <2>4. QED BY <1>1, <1>4, <1>5, <1>8, <2>1, <2>2, <2>3 DEF CompileInv, Batched, Sure
  <1>14. TodoInv'
    <2>1. ASSUME NEW A, Range(job.todo) \subseteq Range(A), Sure(store, Range(A) \ Range(job.todo)),
                 Range(A) \subseteq store.display \cup store.compile
          PROVE  Range(rest) \subseteq Range(A) /\ Sure(store', Range(A) \ Range(rest))
      <3>1. Sure(store', Range(A) \ Range(job.todo))
        BY <1>8, <1>9, <2>1, SureStays
      <3>2. \A e \in Range(A) \ Range(rest) : e \in Range(A) \ Range(job.todo) \/ e = d
        BY <1>3
      <3>3. QED BY <1>3, <1>7, <2>1, <3>1, <3>2 DEF Sure
    <2>2. stage = "storing" => /\ Range(rest) \subseteq Range(Batch[Mine])
                               /\ Sure(store', Range(Batch[Mine]) \ Range(rest))
      BY <1>5, <2>1
    <2>3. stage = "packing" => /\ Range(rest) \subseteq Range(Pack(Mine))
                               /\ Sure(store', Range(Pack(Mine)) \ Range(rest))
      BY <1>5, <2>1
    <2>4. QED BY <1>1, <1>4, <2>2, <2>3 DEF TodoInv, TodoIn, Sure
  <1>15. QED BY <1>4, <1>7, <1>10, <1>11, <1>12, <1>13, <1>14 DEF ArtifactsInv

\* An artifact that could not be stored: the pins go back to what they were.
LEMMA UnpinSettles ==
    ASSUME ArtifactsInv, stage \in {"storing", "packing"}, NEW s, Fit(faults, s), Held(s),
           SamePins(store, s), Indexed(s) = Indexed(store)
    PROVE  Settled(Unpin(s)) /\ ShownBy(durable, Unpin(s).display)
  <1> DEFINE t == Unpin(s)
  <1>1. job.before \in SUBSET Digests /\ Mine \in Designs
    BY InvFacts
  <1>2. s.display = store.display /\ s.compile = store.compile /\ s.downloads = store.downloads
    BY DEF SamePins
  <1>3. CASE stage = "storing"
    <2>1. t = ReplaceCompile(s, job.before)
      BY <1>3 DEF Unpin
    <2> HIDE DEF t
    <2>2. /\ Fit(faults, t) /\ Held(t) /\ Stays(faults, s, t)
          /\ t.compile = job.before /\ t.display = s.display /\ t.downloads = s.downloads
      BY <1>1, <2>1, ReplaceCompileFacts
    <2>3. ShownBy(durable, store.display) /\ Sure(store, store.display) /\ Batched(job.before)
      BY <1>3 DEF ArtifactsInv, DisplayInv, CompileInv
    <2>4. Sure(t, t.display)
      BY <1>2, <2>2, <2>3 DEF Sure, Stays
    <2>5. QED BY <1>2, <2>2, <2>3, <2>4 DEF Settled, t
  <1>4. CASE stage = "packing"
    <2>1. t = ReplaceDisplay(s, job.before)
      BY <1>4 DEF Unpin
    <2> HIDE DEF t
    <2>2. /\ Fit(faults, t) /\ Held(t) /\ Stays(faults, s, t)
          /\ t.display = job.before /\ t.compile = s.compile /\ t.downloads = s.downloads
      BY <1>1, <2>1, ReplaceDisplayFacts
    <2>3. /\ ShownBy(durable, job.before) /\ Sure(store, job.before)
          /\ store.compile = Range(Batch[Mine])
      BY <1>4 DEF ArtifactsInv, DisplayInv, CompileInv
    <2>4. Sure(t, t.display)
      BY <2>2, <2>3 DEF Sure, Stays
    <2>5. Batched(t.compile)
      BY <1>1, <1>2, <2>2, <2>3 DEF Batched
    <2>6. QED BY <1>2, <2>2, <2>3, <2>4, <2>5 DEF Settled, t
  <1>5. QED BY <1>3, <1>4

LEMMA PutFailsKeeps ==
    ASSUME ArtifactsInv, UNCHANGED faults, PutFails
    PROVE  ArtifactsInv'
  <1> DEFINE d == Head(job.todo)
             left == {store.file[d]} \cup (IF store.file[d] = "none" THEN {"good"} ELSE {})
             Places == IF CanPut(store, d) THEN left ELSE {store.file[d]}
  <1>1. /\ stage \in {"storing", "packing"} /\ job.todo # <<>>
        /\ ~CanPut(store, d) \/ "write" \in faults
        /\ \E f \in Places : LET s == Unpin([store EXCEPT !.file[d] = f]) IN
               \/ store' = s /\ End /\ UNCHANGED <<cache, manifests, durable>>
               \/ stage = "storing" /\ ((Saved(s) /\ End) \/ SaveFails(s))
    BY DEF PutFails
  <1>2. job.todo \in Seq(Digests) /\ store \in Stores /\ Fit(faults, store) /\ Held(store)
    BY <1>1, InvFacts
  <1>3. d \in Digests
    BY <1>1, <1>2, RangeFacts
  <1>4. PICK f \in Places : LET s == Unpin([store EXCEPT !.file[d] = f]) IN
               \/ store' = s /\ End /\ UNCHANGED <<cache, manifests, durable>>
               \/ stage = "storing" /\ ((Saved(s) /\ End) \/ SaveFails(s))
    BY <1>1
  <1>5. /\ store.file \in [Digests -> {"none", "good", "bad"}]
        /\ f = store.file[d] \/ (f = "good" /\ store.file[d] = "none" /\ "write" \in faults)
    BY <1>1, <1>2, <1>4 DEF Stores
  <1> HIDE DEF d, Places
  <1> DEFINE g == [store.file EXCEPT ![d] = f]
             u == [store EXCEPT !.file = g]
             s == Unpin(u)
  <1>6. /\ g \in [Digests -> {"none", "good", "bad"}] /\ g[d] = f
        /\ \A e \in Digests \ {d} : g[e] = store.file[e]
    BY <1>3, <1>5
  <1>7. u = [store EXCEPT !.file[d] = f]
    OBVIOUS
  <1> HIDE DEF g
  <1>8. /\ u \in Stores /\ u.file = g /\ u.index = store.index /\ u.total = store.total
        /\ u.due = store.due
        /\ u.downloads = store.downloads /\ u.display = store.display /\ u.compile = store.compile
        /\ u.pending = store.pending
    BY <1>2, <1>6 DEF Stores
  <1> HIDE DEF u
  <1>9. Indexed(u) = Indexed(store) /\ (Over(u) <=> Over(store)) /\ SamePins(store, u)
    BY <1>8 DEF Indexed, Over, SamePins
  <1>10. Fit(faults, u)
    <2>1. Exact(u)
      BY <1>2, <1>8, <1>9 DEF Fit, Exact
    <2>2. Sound(store) => Sound(u)
      BY <1>3, <1>5, <1>6, <1>8, <1>9 DEF Sound
    <2>3. "write" \notin faults /\ Open(store) => Open(u)
      BY <1>3, <1>5, <1>6, <1>8, <1>9 DEF Open
    <2>4. QED BY <1>2, <2>1, <2>2, <2>3 DEF Fit
  <1>11. Held(u)
    BY <1>2, <1>8, <1>9 DEF Held, Pinned
  <1>12. Settled(s) /\ ShownBy(durable, s.display)
    BY <1>1, <1>9, <1>10, <1>11, UnpinSettles
  <1>13. \/ store' = s /\ End /\ UNCHANGED <<cache, manifests, durable>>
         \/ Saved(s) /\ End
         \/ SaveFails(s)
    BY <1>4, <1>7
  <1> HIDE DEF s
  <1>14. CASE store' = s /\ End /\ UNCHANGED <<cache, manifests, durable>>
    <2>1. ManifestsInv' /\ cache' \subseteq Designs
      BY <1>14, InvFacts DEF ManifestsInv
    <2>2. stage' = "idle" /\ job' \in Jobs \cup {None}
      BY <1>14 DEF End
    <2>3. QED BY <1>12, <1>14, <2>1, <2>2, Settles
  <1>15. CASE Saved(s) /\ End
    BY <1>12, <1>15, SavedSettles DEF End
  <1>16. CASE SaveFails(s)
    BY <1>12, <1>16, SaveFailsSettles
  <1>17. QED BY <1>13, <1>14, <1>15, <1>16

LEMMA StoredKeeps ==
    ASSUME ArtifactsInv, UNCHANGED faults, Stored
    PROVE  ArtifactsInv'
  <1>1. /\ stage = "storing" /\ job.todo = <<>> /\ store' = ReplaceCompile(store, Range(Batch[Mine]))
        /\ cache' = cache \cup {Mine} /\ stage' = "compiled" /\ UNCHANGED <<manifests, durable, job>>
    BY DEF Stored, GoTo
  <1>2. /\ job \in Jobs /\ Mine \in Designs /\ Range(Batch[Mine]) \in SUBSET Digests
        /\ Fit(faults, store) /\ Held(store)
    BY <1>1, InvFacts
  <1>3. Sure(store, Range(Batch[Mine]))
    <2>1. Sure(store, Range(Batch[Mine]) \ Range(job.todo))
      BY <1>1 DEF ArtifactsInv, TodoInv, TodoIn
    <2>2. Range(job.todo) = {}
      BY <1>1 DEF Range
    <2>3. QED BY <2>1, <2>2 DEF Sure
  <1>4. /\ Fit(faults, store') /\ Held(store') /\ Stays(faults, store, store')
        /\ store'.compile = Range(Batch[Mine]) /\ store'.display = store.display
        /\ store'.downloads = store.downloads
    BY <1>1, <1>2, ReplaceCompileFacts
  <1>5. /\ ManifestsInv' /\ cache' \subseteq Designs
        /\ \A d \in Digests : store'.downloads[d] <= MaxDownloads
    BY <1>1, <1>2, <1>4, InvFacts DEF ManifestsInv
  <1>6. TypeOK' /\ Fit(faults', store')
    BY <1>1, <1>2, <1>4, <1>5, Typed DEF Stages
  <1>7. DisplayInv'
    <2>1. ShownBy(durable, store.display) /\ Sure(store, store.display)
      BY <1>1 DEF ArtifactsInv, DisplayInv
    <2>2. Sure(store', store'.display)
      BY <1>4, <2>1, SureStays
    <2>3. QED BY <1>1, <1>4, <2>1, <2>2 DEF DisplayInv, ShownBy, Sure
  <1>8. Sure(store', Range(Batch[Mine]))
    BY <1>3, <1>4, SureStays
  <1>9. CompileInv' /\ TodoInv'
    BY <1>1, <1>4, <1>8 DEF CompileInv, TodoInv, Mine, Sure
  <1>10. QED BY <1>1, <1>2, <1>4, <1>5, <1>6, <1>7, <1>9 DEF ArtifactsInv

LEMMA ForgetKeeps ==
    ASSUME ArtifactsInv, UNCHANGED faults, NEW design \in Designs, Forget(design)
    PROVE  ArtifactsInv'
  <1>1. cache' \subseteq Designs /\ UNCHANGED <<store, manifests, durable, stage, job>>
    BY InvFacts DEF Forget
  <1>2. TypeOK' /\ ManifestsInv'
    BY <1>1 DEF ArtifactsInv, TypeOK, ManifestsInv
  <1>3. DisplayInv' /\ CompileInv' /\ TodoInv'
    BY <1>1 DEF ArtifactsInv, DisplayInv, CompileInv, TodoInv, TodoIn, ShownBy, Sure, Batched, Mine
  <1>4. QED BY <1>1, <1>2, <1>3 DEF ArtifactsInv

\* The displayed pack may be let go whenever the store is settled.
LEMMA ReleasedSettled ==
    ASSUME ArtifactsInv, stage \notin {"storing", "packing"}
    PROVE  Settled(ReleaseDisplay(store)) /\ ShownBy(durable, ReleaseDisplay(store).display)
  <1> DEFINE t == ReleaseDisplay(store)
  <1>1. /\ Fit(faults, t) /\ Held(t) /\ t.display = {} /\ t.compile = store.compile
        /\ t.downloads = store.downloads
    BY InvFacts, ReleaseDisplayFacts
  <1> HIDE DEF t
  <1>2. Batched(t.compile)
    BY <1>1, StoreSettled DEF Settled
  <1>3. QED BY <1>1, <1>2 DEF Settled, Sure, ShownBy, t

LEMMA EndDesignKeeps ==
    ASSUME ArtifactsInv, UNCHANGED faults, EndDesign
    PROVE  ArtifactsInv'
  <1>1. stage = "compiled"
    BY DEF EndDesign
  <1>2. /\ Settled(store) /\ ShownBy(durable, store.display)
        /\ Settled(ReleaseDisplay(store)) /\ ShownBy(durable, ReleaseDisplay(store).display)
    BY <1>1, StoreSettled, ReleasedSettled
  <1>3. CASE \E shown \in {store, ReleaseDisplay(store)} : Saved(shown) /\ End
    <2>1. PICK shown \in {store, ReleaseDisplay(store)} : Saved(shown) /\ End
      BY <1>3
    <2>2. Settled(shown) /\ ShownBy(durable, shown.display)
      BY <1>2
    <2>3. QED BY <2>1, <2>2, SavedSettles DEF End
  <1>4. CASE SaveFails(store)
    BY <1>2, <1>4, SaveFailsSettles
  <1>5. QED BY <1>3, <1>4 DEF EndDesign

LEMMA CommitKeeps ==
    ASSUME ArtifactsInv, UNCHANGED faults, Commit
    PROVE  ArtifactsInv'
  <1>1. stage = "idle" /\ Saved(ReleaseDisplay(store)) /\ UNCHANGED <<stage, job>>
    BY DEF Commit
  <1>2. Settled(ReleaseDisplay(store)) /\ ShownBy(durable, ReleaseDisplay(store).display)
    BY <1>1, ReleasedSettled
  <1>3. stage' = "idle" /\ job' \in Jobs \cup {None}
    BY <1>1 DEF ArtifactsInv, TypeOK
  <1>4. QED BY <1>1, <1>2, <1>3, SavedSettles

LEMMA CheckKeeps ==
    ASSUME ArtifactsInv, UNCHANGED faults, Check
    PROVE  ArtifactsInv'
  <1>1. stage = "compiled" /\ ((Saved(store) /\ GoTo("checked")) \/ SaveFails(store))
    BY DEF Check
  <1>2. CASE SaveFails(store)
    BY <1>1, <1>2, StoreSettled, SaveFailsSettles
  <1>3. CASE Saved(store) /\ GoTo("checked")
    <2>1. /\ store' = store /\ durable' = manifests /\ UNCHANGED <<cache, manifests, job>>
          /\ stage' = "checked"
      BY <1>3 DEF Saved, GoTo
    <2>2. job \in Jobs /\ ManifestsInv
      BY <1>1, InvFacts
    <2>3. ManifestsInv'
      BY <2>1, <2>2 DEF ManifestsInv
    <2>4. TypeOK'
      BY <2>1, <2>3 DEF ArtifactsInv, TypeOK, ManifestsInv, Stages
    <2>5. DisplayInv'
      <3>1. ShownBy(durable, store.display) /\ Sure(store, store.display)
        BY <1>1 DEF ArtifactsInv, DisplayInv
      <3>2. ShownBy(manifests, store.display)
        BY <2>2, <3>1, ShownLonger DEF ManifestsInv
      <3>3. QED BY <2>1, <3>1, <3>2 DEF DisplayInv, ShownBy, Sure
    <2>6. CompileInv' /\ TodoInv'
      BY <1>1, <2>1 DEF ArtifactsInv, CompileInv, TodoInv, Sure, Mine
    <2>7. QED BY <2>1, <2>2, <2>3, <2>4, <2>5, <2>6 DEF ArtifactsInv
  <1>4. QED BY <1>1, <1>2, <1>3

LEMMA BlockedKeeps ==
    ASSUME ArtifactsInv, UNCHANGED faults, Blocked
    PROVE  ArtifactsInv'
  <1> DEFINE t == ReadAll(store, Batch[Mine]).store
  <1>1. stage = "checked" /\ ((Saved(t) /\ End) \/ SaveFails(t))
    BY DEF Blocked
  <1>2. Fit(faults, t) /\ Held(t) /\ SamePins(store, t) /\ Stays(faults, store, t)
    BY <1>1, ReadStays
  <1> HIDE DEF t
  <1>3. Settled(t) /\ ShownBy(durable, t.display)
    BY <1>1, <1>2, IsSettled
  <1>4. CASE Saved(t) /\ End
    BY <1>3, <1>4, SavedSettles DEF End
  <1>5. CASE SaveFails(t)
    BY <1>3, <1>5, SaveFailsSettles
  <1>6. QED BY <1>1, <1>4, <1>5

LEMMA UnblockedKeeps ==
    ASSUME ArtifactsInv, UNCHANGED faults, Unblocked
    PROVE  ArtifactsInv'
  <1> DEFINE read == ReadAll(store, Batch[Mine])
             t == read.store
             pack == Range(Pack(Mine))
  <1>1. /\ stage = "checked" /\ stage' = "packing" /\ store' = ReserveDisplay(t, pack) /\ read.ok
        /\ job' = [job EXCEPT !.todo = Pack(Mine), !.before = store.display]
        /\ UNCHANGED <<cache, manifests, durable>>
    BY DEF Unblocked
  <1>2. /\ Fit(faults, t) /\ Held(t) /\ SamePins(store, t) /\ Stays(faults, store, t)
        /\ Range(Batch[Mine]) \subseteq Indexed(t)
    BY <1>1, ReadStays
  <1> HIDE DEF read
  <1>3. /\ job \in Jobs /\ Pack(Mine) \in Seq(Digests) /\ pack \in SUBSET Digests
        /\ store.display \in SUBSET Digests
    BY <1>1, InvFacts
  <1> HIDE DEF pack
  <1>4. /\ job' \in Jobs /\ job'.todo = Pack(Mine) /\ job'.before = store.display /\ Mine' = Mine
    BY <1>1, <1>3 DEF Jobs, Mine
  <1>5. /\ Fit(faults, store') /\ Held(store') /\ Indexed(store') = Indexed(t)
        /\ store'.downloads = t.downloads /\ store'.display = t.display \cup pack
        /\ store'.compile = t.compile
    BY <1>1, <1>2, <1>3, ReserveFacts
  <1>6. /\ store'.downloads = store.downloads /\ store'.display = store.display \cup pack
        /\ store'.compile = store.compile
    BY <1>2, <1>5 DEF SamePins
  <1>7. /\ ManifestsInv' /\ cache' \subseteq Designs
        /\ \A d \in Digests : store'.downloads[d] <= MaxDownloads
    BY <1>1, <1>6, InvFacts DEF ManifestsInv
  <1>8. TypeOK' /\ Fit(faults', store')
    BY <1>1, <1>4, <1>5, <1>7, Typed DEF Stages
  <1>9. DisplayInv'
    <2>1. ShownBy(durable, store.display) /\ Sure(store, store.display)
      BY <1>1 DEF ArtifactsInv, DisplayInv
    <2>2. Sure(store', store.display)
      BY <1>2, <1>5, <2>1 DEF Sure, Stays, SamePins
    <2>3. QED BY <1>1, <1>4, <1>6, <2>1, <2>2 DEF DisplayInv, ShownBy, Sure, pack
  <1>10. CompileInv'
    <2>1. store.compile = Range(Batch[Mine])
      BY <1>1 DEF ArtifactsInv, CompileInv
    <2>2. QED BY <1>1, <1>2, <1>4, <1>5, <1>6, <2>1 DEF CompileInv, Sure
  <1>11. TodoInv'
    BY <1>1, <1>4 DEF TodoInv, TodoIn, Sure
  <1>12. QED BY <1>4, <1>5, <1>7, <1>8, <1>9, <1>10, <1>11 DEF ArtifactsInv

LEMMA ListedFacts ==
    ASSUME ArtifactsInv, stage # "idle"
    PROVE  /\ Listed \in Seq(Designs) /\ IsInjective(Listed)
           /\ Range(Listed) = Range(manifests) \cup {Mine}
  <1>1. manifests \in Seq(Designs) /\ IsInjective(manifests) /\ Mine \in Designs
    BY InvFacts DEF ManifestsInv
  <1>2. CASE Mine \in Range(manifests)
    BY <1>1, <1>2 DEF Listed
  <1>3. CASE Mine \notin Range(manifests)
    <2>1. Listed = Append(manifests, Mine)
      BY <1>3 DEF Listed
    <2>2. Listed \in Seq(Designs) /\ Range(Listed) = Range(manifests) \cup {Mine}
      BY <1>1, <2>1, RangeFacts
    <2>3. ASSUME NEW i \in DOMAIN Listed, NEW j \in DOMAIN Listed, Listed[i] = Listed[j], i # j
          PROVE  FALSE
      <3>1. /\ Len(manifests) \in Nat /\ DOMAIN Listed = 1 .. Len(manifests) + 1
            /\ Listed[Len(manifests) + 1] = Mine
            /\ \A k \in 1 .. Len(manifests) : Listed[k] = manifests[k] /\ manifests[k] \in Range(manifests)
        BY <1>1, <2>1 DEF Range
      <3>2. \A k \in DOMAIN Listed : k \in 1 .. Len(manifests) \/ k = Len(manifests) + 1
        BY <3>1
      <3>3. i \in 1 .. Len(manifests) /\ j \in 1 .. Len(manifests)
        BY <1>3, <2>3, <3>1, <3>2
      <3>4. manifests[i] = manifests[j] /\ i \in DOMAIN manifests /\ j \in DOMAIN manifests
        BY <1>1, <2>3, <3>1, <3>3
      <3>5. QED BY <1>1, <2>3, <3>4 DEF IsInjective
    <2>4. IsInjective(Listed)
      BY <2>3 DEF IsInjective
    <2>5. QED BY <2>2, <2>4
  <1>4. QED BY <1>2, <1>3

LEMMA EndPackKeeps ==
    ASSUME ArtifactsInv, UNCHANGED faults, EndPack
    PROVE  ArtifactsInv'
  <1> DEFINE pack == Range(Pack(Mine))
  <1>1. /\ stage = "packing" /\ job.todo = <<>> /\ store' = ReplaceDisplay(store, pack)
        /\ manifests' = Listed /\ durable' = Listed /\ cache' = cache /\ stage' = "idle" /\ job' = None
    BY DEF EndPack, End
  <1>2. /\ Mine \in Designs /\ pack \in SUBSET Digests /\ Fit(faults, store) /\ Held(store)
        /\ cache \subseteq Designs
    BY <1>1, InvFacts
  <1>3. Sure(store, pack)
    <2>1. Sure(store, pack \ Range(job.todo))
      BY <1>1 DEF ArtifactsInv, TodoInv, TodoIn
    <2>2. Range(job.todo) = {}
      BY <1>1 DEF Range
    <2>3. QED BY <2>1, <2>2 DEF Sure
  <1>4. Mine \in Range(Listed) /\ ManifestsInv'
    BY <1>1, ListedFacts DEF ManifestsInv
  <1>5. ShownBy(durable', pack)
    BY <1>1, <1>4 DEF ShownBy
  <1>6. store.compile = Range(Batch[Mine])
    BY <1>1 DEF ArtifactsInv, CompileInv
  <1> HIDE DEF pack
  <1>7. /\ Fit(faults, store') /\ Held(store') /\ Stays(faults, store, store')
        /\ store'.display = pack /\ store'.compile = store.compile /\ store'.downloads = store.downloads
    BY <1>1, <1>2, ReplaceDisplayFacts
  <1>8. Sure(store', store'.display)
    BY <1>3, <1>7, SureStays
  <1>9. Batched(store'.compile)
    BY <1>2, <1>6, <1>7 DEF Batched
  <1>10. Settled(store')
    BY <1>7, <1>8, <1>9 DEF Settled
  <1>11. QED BY <1>1, <1>2, <1>4, <1>5, <1>7, <1>10, Settles

LEMMA EndPackUnsavedKeeps ==
    ASSUME ArtifactsInv, UNCHANGED faults, EndPackUnsaved
    PROVE  ArtifactsInv'
  <1>1. /\ stage = "packing" /\ stage' = "idle" /\ job' = None /\ durable' = durable
        /\ \/ store' = ReplaceDisplay(Rollback(store), job.before) /\ cache' = {} /\ manifests' = durable
           \/ store' = ReplaceDisplay(store, job.before) /\ manifests' = Listed /\ cache' = cache
    BY DEF EndPackUnsaved, End
  <1>2. /\ Mine \in Designs /\ job.before \in SUBSET Digests /\ Fit(faults, store) /\ Held(store)
        /\ cache \subseteq Designs /\ ManifestsInv
    BY <1>1, InvFacts
  <1>3. /\ ShownBy(durable, job.before) /\ Sure(store, job.before)
        /\ store.display = job.before \cup Range(Pack(Mine)) /\ store.compile = Range(Batch[Mine])
    BY <1>1 DEF ArtifactsInv, DisplayInv, CompileInv
  <1>4. CASE store' = ReplaceDisplay(Rollback(store), job.before) /\ cache' = {} /\ manifests' = durable
    <2> DEFINE u == Rollback(store)
    <2>1. /\ Fit(faults, u) /\ Held(u) /\ u.downloads = store.downloads
          /\ u.compile \subseteq store.compile
          /\ "damage" \notin faults =>
                 \A d \in store.display \cap Indexed(store) : d \in Range(Of(durable))
                     => d \in u.display /\ d \in Indexed(u)
      BY <1>2, RollbackFacts DEF ManifestsInv
    <2>2. store' = ReplaceDisplay(u, job.before)
      BY <1>4
    <2> HIDE DEF u
    <2>3. Sure(u, job.before)
      <3>1. ASSUME "damage" \notin faults PROVE job.before \subseteq Range(Of(durable))
        <4>1. CASE job.before = {}
          BY <4>1
        <4>2. CASE job.before # {}
          <5>1. PICK m \in Range(durable) : job.before = Range(Pack(m))
            BY <1>3, <3>1, <4>2 DEF ShownBy
          <5>2. QED BY <1>2, <5>1, OfFacts DEF ManifestsInv
        <4>3. QED BY <4>1, <4>2
      <3>2. QED BY <1>3, <2>1, <3>1 DEF Sure
    <2>4. /\ Fit(faults, store') /\ Held(store') /\ Stays(faults, u, store')
          /\ store'.display = job.before /\ store'.compile = u.compile /\ store'.downloads = u.downloads
      BY <1>2, <2>1, <2>2, ReplaceDisplayFacts
    <2>5. Sure(store', store'.display)
      BY <2>3, <2>4, SureStays
    <2>6. Batched(store'.compile)
      BY <1>2, <1>3, <2>1, <2>4 DEF Batched
    <2>7. Settled(store')
      BY <2>1, <2>4, <2>5, <2>6 DEF Settled
    <2>8. ManifestsInv'
      BY <1>1, <1>2, <1>4 DEF ManifestsInv
    <2>9. ShownBy(durable', store'.display)
      BY <1>1, <1>3, <2>4
    <2>10. QED BY <1>1, <1>4, <2>7, <2>8, <2>9, Settles
  <1>5. CASE store' = ReplaceDisplay(store, job.before) /\ manifests' = Listed /\ cache' = cache
    <2>1. /\ Fit(faults, store') /\ Held(store') /\ Stays(faults, store, store')
          /\ store'.display = job.before /\ store'.compile = store.compile
          /\ store'.downloads = store.downloads
      BY <1>2, <1>5, ReplaceDisplayFacts
    <2>2. Sure(store', store'.display)
      BY <1>3, <2>1, SureStays
    <2>3. Batched(store'.compile)
      BY <1>2, <1>3, <2>1 DEF Batched
    <2>4. Settled(store')
      BY <2>1, <2>2, <2>3 DEF Settled
    <2>5. ManifestsInv'
      BY <1>1, <1>2, <1>5, ListedFacts DEF ManifestsInv
    <2>6. ShownBy(durable', store'.display)
      BY <1>1, <1>3, <2>1
    <2>7. QED BY <1>1, <1>2, <1>5, <2>4, <2>5, <2>6, Settles
  <1>6. QED BY <1>1, <1>4, <1>5

LEMMA DamageKeeps ==
    ASSUME ArtifactsInv, UNCHANGED faults, NEW d \in Digests, Damage(d)
    PROVE  ArtifactsInv'
  <1>1. /\ "damage" \in faults /\ UNCHANGED <<cache, manifests, durable, stage, job>>
        /\ \E left \in {"none", "bad"} : store' = [store EXCEPT !.file[d] = left]
    BY DEF Damage
  <1>2. PICK left \in {"none", "bad"} : store' = [store EXCEPT !.file[d] = left]
    BY <1>1
  <1> DEFINE g == [store.file EXCEPT ![d] = left]
  <1>3. store \in Stores /\ Fit(faults, store) /\ Held(store)
    BY InvFacts
  <1>4. g \in [Digests -> {"none", "good", "bad"}]
    BY <1>3 DEF Stores
  <1>5. store' = [store EXCEPT !.file = g]
    BY <1>2
  <1> HIDE DEF g
  <1>6. /\ store' \in Stores /\ store'.index = store.index /\ store'.total = store.total
        /\ store'.downloads = store.downloads /\ store'.display = store.display
        /\ store'.compile = store.compile /\ store'.due = store.due
    BY <1>3, <1>4, <1>5 DEF Stores
  <1>7. Indexed(store') = Indexed(store) /\ (Over(store') <=> Over(store))
    BY <1>6 DEF Indexed, Over
  <1>8. Fit(faults, store') /\ Held(store') /\ Stays(faults, store, store')
    BY <1>1, <1>3, <1>6, <1>7 DEF Fit, Exact, Held, Pinned, Stays
  <1>9. \A e \in Digests : store'.downloads[e] <= MaxDownloads
    BY <1>6, InvFacts
  <1>10. QED BY <1>1, <1>6, <1>8, <1>9, QuietKeeps

LEMMA RestartKeeps ==
    ASSUME ArtifactsInv, UNCHANGED faults, Restart
    PROVE  ArtifactsInv'
  <1> DEFINE s == [EmptyStore EXCEPT !.file = store.file]
  <1>1. /\ store' = Restore(s, Of(durable), {}, {}) /\ cache' = {} /\ manifests' = durable
        /\ stage' = "idle" /\ job' = None /\ durable' = durable
    BY DEF Restart
  <1>2. ManifestsInv /\ store \in Stores /\ Fit(faults, store)
    BY InvFacts
  <1>3. /\ s \in Stores /\ s.file = store.file /\ \A d \in Digests : s.downloads[d] = 0
    <2>1. store.file \in [Digests -> {"none", "good", "bad"}]
      BY <1>2 DEF Stores
    <2>2. EmptyStore \in Stores /\ EmptyStore.downloads = [d \in Digests |-> 0]
      BY DEF EmptyStore, Stores
    <2>3. s \in Stores /\ s.file = store.file /\ s.downloads = EmptyStore.downloads
      BY <2>1, <2>2 DEF Stores
    <2>4. QED BY <2>2, <2>3
  <1>4. "damage" \notin faults => \A d \in Digests : s.file[d] # "bad"
    BY <1>2, <1>3 DEF Fit, Sound
  <1>5. Of(durable) \in Seq(Digests)
    BY <1>2, OfFacts DEF ManifestsInv
  <1> HIDE DEF s
  <1>6. /\ Fit(faults, store') /\ Held(store') /\ store'.downloads = s.downloads
        /\ store'.display = {} /\ store'.compile = {}
    <2>1. {} \in SUBSET Digests
      OBVIOUS
    <2> DEFINE u == store'
               packs == Of(durable)
    <2>2. s \in Stores /\ packs \in Seq(Digests) /\ u = Restore(s, packs, {}, {})
      BY <1>1, <1>3, <1>5
    <2> HIDE DEF u, packs
    <2>3. Restored(faults, s, packs, {}, {}, u)
      BY <1>4, <2>1, <2>2, RestoreFacts
    <2>4. QED BY <2>3 DEF Restored, u
  <1>7. ManifestsInv' /\ cache' \subseteq Designs
    BY <1>1, <1>2 DEF ManifestsInv
  <1>8. TypeOK' /\ Fit(faults', store')
    <2>1. \A d \in Digests : store'.downloads[d] <= MaxDownloads
      BY <1>3, <1>6, DesignAssumption
    <2>2. stage' \in Stages /\ job' \in Jobs \cup {None}
      BY <1>1 DEF Stages
    <2>3. QED BY <1>6, <1>7, <2>1, <2>2, Typed
  <1>9. DisplayInv' /\ CompileInv' /\ TodoInv'
    BY <1>1, <1>6 DEF DisplayInv, CompileInv, TodoInv, ShownBy, Sure, Batched
  <1>10. QED BY <1>1, <1>6, <1>7, <1>8, <1>9 DEF ArtifactsInv

-----------------------------------------------------------------------------
(* The theorems *)

LEMMA ArtifactsNext ==
    ASSUME ArtifactsInv, [Next]_vars
    PROVE  ArtifactsInv'
  <1>1. CASE UNCHANGED vars
    BY <1>1 DEF vars, ArtifactsInv, TypeOK, ManifestsInv, DisplayInv, CompileInv, TodoInv, TodoIn,
                ShownBy, Sure, Batched, Mine
  <1>2. CASE Next
    <2>1. UNCHANGED faults
      BY <1>2 DEF Next
    <2>2. ASSUME NEW d \in Digests, StartDownload(d) \/ EndDownload(d) \/ Damage(d) PROVE ArtifactsInv'
      BY <2>1, <2>2, StartDownloadKeeps, EndDownloadKeeps, DamageKeeps
    <2>3. ASSUME NEW tool \in Tools, NEW design \in Designs, Begin(tool, design) PROVE ArtifactsInv'
      BY <2>1, <2>3, BeginKeeps
    <2>4. CASE Compile
      BY <2>1, <2>4, CacheHitKeeps, CacheMissKeeps, CompileFailsKeeps, ReserveKeeps, PutNextKeeps,
         PutFailsKeeps, StoredKeeps DEF Compile
    <2>5. CASE EndDesign \/ Commit \/ Check \/ Blocked \/ Unblocked
      BY <2>1, <2>5, EndDesignKeeps, CommitKeeps, CheckKeeps, BlockedKeeps, UnblockedKeeps
    <2>6. CASE EndPack \/ EndPackUnsaved \/ Restart
      BY <2>1, <2>6, EndPackKeeps, EndPackUnsavedKeeps, RestartKeeps
    <2>7. ASSUME NEW design \in Designs, Forget(design) PROVE ArtifactsInv'
      BY <2>1, <2>7, ForgetKeeps
    <2>8. QED BY <1>2, <2>2, <2>3, <2>4, <2>5, <2>6, <2>7 DEF Next
  <1>3. QED BY <1>1, <1>2

LEMMA ArtifactsInit == Init => ArtifactsInv
  <1> SUFFICES ASSUME Init PROVE ArtifactsInv
    OBVIOUS
  <1>1. /\ faults \in FaultModels /\ store = EmptyStore /\ cache = {} /\ manifests = <<>>
        /\ durable = <<>>
        /\ stage = "idle" /\ job = None
    BY DEF Init
  <1>2. store \in Stores
    BY <1>1 DEF EmptyStore, Stores
  <1>3. /\ store.index = <<>> /\ store.total = 0 /\ store.file = [d \in Digests |-> "none"]
        /\ store.downloads = [d \in Digests |-> 0] /\ store.display = {} /\ store.compile = {}
        /\ store.pending = {}
    BY <1>1 DEF EmptyStore
  <1>4. Range(<<>>) = {} /\ IsInjective(<<>>) /\ \A D : <<>> \in Seq(D)
    BY DEF Range, IsInjective
  <1>5. Indexed(store) = {}
    BY <1>3, <1>4 DEF Indexed
  <1>6. Exact(store)
    BY <1>2, <1>3, <1>4, <1>5, BytesOfNone DEF Exact
  <1>7. Fit(faults, store)
    BY <1>3, <1>5, <1>6 DEF Fit, Sound, Open
  <1>8. Held(store)
    <2>1. ~Over(store)
      BY <1>3, BudgetAssumption DEF Over
    <2>2. QED BY <2>1 DEF Held
  <1>9. ManifestsInv
    BY <1>1, <1>4 DEF ManifestsInv
  <1>10. TypeOK
    BY <1>1, <1>2, <1>3, <1>9, DesignAssumption DEF TypeOK, ManifestsInv, Stages
  <1>11. DisplayInv /\ CompileInv /\ TodoInv
    BY <1>1, <1>3 DEF DisplayInv, CompileInv, TodoInv, ShownBy, Sure, Batched
  <1>12. QED BY <1>1, <1>7, <1>8, <1>9, <1>10, <1>11 DEF ArtifactsInv

LEMMA ArtifactsInvariant == Spec => []ArtifactsInv
  <1>1. Init => ArtifactsInv
    BY ArtifactsInit
  <1>2. ArtifactsInv /\ [Next]_vars => ArtifactsInv'
    BY ArtifactsNext
  <1>3. QED BY <1>1, <1>2, PTL DEF Spec

\* Bytes are counted (SessionArtifactStore.total_bytes): the total is the size of what is
\* indexed, and while writes succeed no object file is outside the index.
THEOREM AccountExactAlways == Spec => []AccountExact
  <1>1. ASSUME ArtifactsInv PROVE AccountExact
    <2>1. TypeOK /\ Fit(faults, store)
      BY <1>1 DEF ArtifactsInv
    <2>2. store.total = Bytes(Indexed(store)) /\ Len(store.index) = Cardinality(Indexed(store))
      BY <2>1, IndexedFacts DEF Fit, Exact
    <2>3. faults \cap {"write", "damage"} = {} =>
              \A d \in Digests : store.file[d] # "none" => d \in Indexed(store)
      BY <2>1 DEF Fit, Open
    <2>4. QED BY <2>1, <2>2, <2>3 DEF AccountExact, TotalExact, NoHiddenBytes
  <1>2. QED BY ArtifactsInvariant, <1>1, PTL

\* The budget (artifacts.py, _evict_to_budget) is exceeded only by pinned artifacts, and only
\* while the eviction that makes up for it is due.
THEOREM BudgetHeldAlways == Spec => []BudgetHeld
  <1>1. ArtifactsInv => BudgetHeld
    BY DEF ArtifactsInv, Held, BudgetHeld
  <1>2. QED BY ArtifactsInvariant, <1>1, PTL

\* What is pinned can be read: evictions, rollbacks and restarts take neither the displayed pack
\* nor the batch of the tool at work, and no reservation outlives the tool that made it.
THEOREM PinnedKeptAlways == Spec => []PinnedKept
  <1>1. ASSUME ArtifactsInv PROVE PinnedKept
    <2>1. /\ Fit(faults, store) /\ ManifestsInv /\ DisplayInv /\ CompileInv
          /\ Indexed(store) \in SUBSET Digests
      BY <1>1, InvFacts DEF ArtifactsInv
    <2>2. "damage" \notin faults => \A d \in Indexed(store) : CanRead(store, d)
      BY <2>1 DEF Fit, Sound, CanRead
    <2>3. DisplayKept
      BY <2>1, <2>2 DEF DisplayKept, DisplayInv, Sure
    <2>4. BatchKept
      BY <2>1, <2>2 DEF BatchKept, CompileInv, Sure
    <2>5. Range(durable) \subseteq Designs
      BY <2>1, RangeFacts DEF ManifestsInv
    <2>6. OnePackPinned
      <3>1. stage = "idle" => ShownBy(durable, store.display) /\ Batched(store.compile)
        BY <2>1 DEF DisplayInv, CompileInv
      <3>2. QED BY <2>5, <3>1 DEF OnePackPinned, ShownBy, Batched
    <2>7. QED BY <2>3, <2>4, <2>6 DEF PinnedKept
  <1>2. QED BY ArtifactsInvariant, <1>1, PTL

-----------------------------------------------------------------------------
(* What is true of one job, of its harm h, caller c, thread t, process w and directory d *)

\* An answer about the input: its own result or refusal, or a failure.
Fair(in, a) == \/ a = Cad!Result(in.spec, in.profile) /\ in.spec \notin Refuses
               \/ \E code \in Cad!Codes : a = Cad!Failure(code) /\ (code = "CAD_REFUSED" => in.spec \in Refuses)

\* An answer that run gives: no result that is too large, or has two parts of one name.
Final(in, a) == Fair(in, a) /\ (a = Cad!Result(in.spec, in.profile) => in.spec \notin Oversized \cup Clashing)

Blames == {"CAD_JOB_RESULT_MISSING", "CAD_JOB_TRANSPORT_INVALID", "CAD_JOB_INTERNAL_ERROR"}

\* An answer that blames the transport with reason only.
Blameless(in, h, a) ==
    /\ a # Cad!Failure("CAD_JOB_RESULT_MISSING")
    /\ a = Cad!Failure("CAD_JOB_TRANSPORT_INVALID") => in.spec \in Clashing
    /\ a = Cad!Failure("CAD_JOB_INTERNAL_ERROR") => "worker" \in h

Resting(w) == w.at \in {"none", "exited"}
EndsWell(w) == w.at = "exiting" \/ (w.at = "exited" /\ w.code = 0)

CallerShape(c) == \/ c = [at |-> "idle"]
                  \/ \E place, in, answer : c = [at |-> place, in |-> in, answer |-> answer]
ThreadShape(t) == \/ \E place : t = [at |-> place]
                  \/ \E answer : t = [at |-> "leaving", answer |-> answer]

CallerOk(c) ==
    /\ c.at \in {"idle", "awaiting", "answered", "cancelled", "lost"}
    /\ c.at # "idle" => c.in \in Inputs
    /\ c.at = "answered" => Final(c.in, c.answer)

ThreadOk(c, t, w, d) ==
    /\ t.at \in {"none", "queued", "encoded", "starting", "waiting", "killing", "collecting",
                 "leaving", "done", "dead"}
    /\ t.at # "none" => c.at # "idle"
    /\ c.at = "awaiting" => t.at \notin {"none", "done", "dead"}
    /\ t.at \in {"none", "queued", "encoded"} => w.at = "none" /\ d = None
    /\ t.at = "starting" => w.at = "none" /\ d # None
    /\ t.at \in {"waiting", "killing"} => w.at # "none" /\ d # None
    /\ t.at = "collecting" => w.at = "exited" /\ w.code = 0 /\ d # None
    /\ t.at = "leaving" => Resting(w) /\ Final(c.in, t.answer)
    /\ t.at = "done" => Resting(w) /\ d = None

WorkerOk(c, w, d) ==
    /\ w.at \in {"none", "started", "compiling", "writing", "exiting", "exited"}
    /\ ~Resting(w) => d # None
    /\ w.at = "compiling" => w.request = Cad!Request(c.in)
    /\ w.at = "writing" => Fair(c.in, w.response)

DirOk(c, d) ==
    d # None =>
        /\ c.at # "idle"
        /\ d \in Cad!Dirs
        /\ d.request \in {Cad!Contents(Cad!Request(c.in)), Cad!Damaged}
        /\ \/ d.response \in {None, Cad!Damaged}
           \/ d.response = Cad!Contents(d.response.payload) /\ Fair(c.in, d.response.payload)

\* What is true of a job while its files are not damaged.
Undamaged(h, c, t, w, d) ==
    /\ c.at = "answered" => Blameless(c.in, h, c.answer)
    /\ t.at = "leaving" => Blameless(c.in, h, t.answer)
    /\ w.at = "writing" => Blameless(c.in, h, w.response)
    /\ d # None => /\ d.request # Cad!Damaged /\ d.response # Cad!Damaged
                   /\ d.response # None => Blameless(c.in, h, d.response.payload)
                   /\ EndsWell(w) => d.response # None

JobOk(c, t, w, d) ==
    /\ CallerShape(c) /\ ThreadShape(t)
    /\ CallerOk(c) /\ ThreadOk(c, t, w, d) /\ WorkerOk(c, w, d) /\ DirOk(c, d)

CadInv ==
    /\ caller = [j \in Calls |-> caller[j]] /\ thread = [j \in Calls |-> thread[j]]
    /\ worker = [j \in Calls |-> worker[j]] /\ files = [j \in Calls |-> files[j]]
    /\ harm = [j \in Calls |-> harm[j]]
    /\ \A j \in Calls :
          /\ JobOk(caller[j], thread[j], worker[j], files[j])
          /\ "files" \notin harm[j] => Undamaged(harm[j], caller[j], thread[j], worker[j], files[j])

-----------------------------------------------------------------------------
(* Facts about answers and envelopes *)

LEMMA FairIsOutcome ==
    ASSUME NEW in \in Inputs, NEW a, Fair(in, a)
    PROVE  a \in Cad!Outcomes
  BY DEF Fair, Cad!Outcomes

LEMMA FailureIsFinal ==
    ASSUME NEW in, NEW code \in Cad!Codes, code # "CAD_REFUSED"
    PROVE  /\ Final(in, Cad!Failure(code))
           /\ code \notin Blames => \A h : Blameless(in, h, Cad!Failure(code))
  <1>1. Final(in, Cad!Failure(code))
    BY DEF Final, Fair, Cad!Failure, Cad!Result
  <1>2. ASSUME code \notin Blames, NEW h PROVE Blameless(in, h, Cad!Failure(code))
    BY <1>2 DEF Blames, Blameless, Cad!Failure
  <1>3. QED BY <1>1, <1>2

LEMMA BlamelessLater ==
    ASSUME NEW in, NEW h, NEW more, h \subseteq more, NEW a, Blameless(in, h, a)
    PROVE  Blameless(in, more, a)
  BY DEF Blameless

\* What the fields of an answer say.
LEMMA FinalSays ==
    ASSUME NEW in, NEW a, Final(in, a)
    PROVE  \/ /\ a.status = "succeeded" /\ a = Cad!Result(in.spec, in.profile)
              /\ in.spec \notin Refuses \cup Oversized \cup Clashing
           \/ /\ a.status = "failed" /\ a.code \in Cad!Codes
              /\ a.code = "CAD_REFUSED" => in.spec \in Refuses
  <1>1. CASE a = Cad!Result(in.spec, in.profile) /\ in.spec \notin Refuses
    <2>1. a.status = "succeeded"
      BY <1>1 DEF Cad!Result
    <2>2. QED BY <1>1, <2>1 DEF Final
  <1>2. ASSUME NEW code \in Cad!Codes, a = Cad!Failure(code), code = "CAD_REFUSED" => in.spec \in Refuses
        PROVE  /\ a.status = "failed" /\ a.code \in Cad!Codes
               /\ a.code = "CAD_REFUSED" => in.spec \in Refuses
    BY <1>2 DEF Cad!Failure
  <1>3. QED BY <1>1, <1>2 DEF Final, Fair

LEMMA EnvelopeFacts ==
    /\ ~Cad!Decodable(Cad!Damaged)
    /\ \A p : Cad!Decodable(Cad!Contents(p)) /\ Cad!Contents(p).payload = p
    /\ \A p : Cad!Contents(p) # Cad!Damaged
    /\ Cad!Damaged # None
  BY NoneAssumption DEF Cad!Decodable, Cad!Damaged, Cad!Mismatch, Cad!Contents, Cad!Envelopes

\* What the server decodes of a response is fair, and final if it is not too large.
LEMMA DecodedIsFinal ==
    ASSUME NEW in \in Inputs, NEW r,
           r = Cad!Damaged \/ (r = Cad!Contents(r.payload) /\ Fair(in, r.payload)), ~Cad!Oversize(r)
    PROVE  Final(in, Cad!Decoded(r))
  <1>1. CASE r = Cad!Damaged
    BY <1>1, EnvelopeFacts, FailureIsFinal DEF Cad!Decoded, Cad!Codes
  <1>2. CASE r = Cad!Contents(r.payload) /\ Fair(in, r.payload)
    <2>1. CASE r.payload \in Cad!ResultsOf(Clashing)
      BY <2>1, FailureIsFinal DEF Cad!Decoded, Cad!Codes
    <2>2. CASE r.payload \notin Cad!ResultsOf(Clashing)
      <3>1. Cad!Decoded(r) = r.payload
        BY <1>2, <2>2, EnvelopeFacts DEF Cad!Decoded
      <3>2. r.payload = Cad!Result(in.spec, in.profile) => in.spec \notin Oversized \cup Clashing
        BY <2>2 DEF Cad!Oversize, Cad!ResultsOf
      <3>3. QED BY <1>2, <3>1, <3>2 DEF Final
    <2>3. QED BY <2>1, <2>2
  <1>3. QED BY <1>1, <1>2

\* A fair result among those of some specs is of one of those specs.
LEMMA FairResultOf ==
    ASSUME NEW in \in Inputs, NEW specs, NEW a, Fair(in, a), a \in Cad!ResultsOf(specs)
    PROVE  in.spec \in specs
  <1>1. PICK i \in {o \in Inputs : o.spec \in specs}, other \in Inputs : a = Cad!Result(i.spec, other.profile)
    BY DEF Cad!ResultsOf
  <1>2. a.status = "succeeded" /\ a.spec = i.spec
    BY <1>1 DEF Cad!Result
  <1>3. a = Cad!Result(in.spec, in.profile)
    BY <1>2 DEF Fair, Cad!Failure
  <1>4. a.spec = in.spec
    BY <1>3 DEF Cad!Result
  <1>5. QED BY <1>1, <1>2, <1>4

\* The shapes there are.
LEMMA Shapes ==
    /\ CallerShape([at |-> "idle"])
    /\ \A place, in, answer : CallerShape([at |-> place, in |-> in, answer |-> answer])
    /\ \A place : ThreadShape([at |-> place])
    /\ \A answer : ThreadShape([at |-> "leaving", answer |-> answer])
  BY DEF CallerShape, ThreadShape

LEMMA ShapeOfThread ==
    ASSUME NEW t, ThreadShape(t), t.at # "leaving"
    PROVE  t = [at |-> t.at]
  BY DEF ThreadShape

LEMMA ShapeOfCaller ==
    ASSUME NEW c, CallerShape(c), c.at # "idle"
    PROVE  c = [at |-> c.at, in |-> c.in, answer |-> c.answer]
  BY DEF CallerShape

-----------------------------------------------------------------------------
(* A step of one job leaves the others alone *)

OnlyOf(j) ==
    /\ caller' = [caller EXCEPT ![j] = caller'[j]]
    /\ thread' = [thread EXCEPT ![j] = thread'[j]]
    /\ worker' = [worker EXCEPT ![j] = worker'[j]]
    /\ files' = [files EXCEPT ![j] = files'[j]]
    /\ harm' = [harm EXCEPT ![j] = harm'[j]]

LEMMA OneJob ==
    ASSUME CadInv, NEW j \in Calls, OnlyOf(j),
           JobOk(caller'[j], thread'[j], worker'[j], files'[j]),
           "files" \notin harm'[j] => Undamaged(harm'[j], caller'[j], thread'[j], worker'[j], files'[j])
    PROVE  CadInv'
  <1>1. ASSUME NEW i \in Calls, i # j
        PROVE  /\ caller'[i] = caller[i] /\ thread'[i] = thread[i] /\ worker'[i] = worker[i]
               /\ files'[i] = files[i]
               /\ harm'[i] = harm[i]
    BY <1>1 DEF OnlyOf, CadInv
  <1>2. ASSUME NEW i \in Calls
        PROVE  /\ JobOk(caller'[i], thread'[i], worker'[i], files'[i])
               /\ "files" \notin harm'[i] => Undamaged(harm'[i], caller'[i], thread'[i], worker'[i], files'[i])
    <2>1. CASE i = j
      BY <2>1
    <2>2. CASE i # j
      BY <1>1, <2>2 DEF CadInv
    <2>3. QED BY <2>1, <2>2
  <1>3. /\ caller' = [i \in Calls |-> caller'[i]] /\ thread' = [i \in Calls |-> thread'[i]]
        /\ worker' = [i \in Calls |-> worker'[i]] /\ files' = [i \in Calls |-> files'[i]]
    BY DEF OnlyOf, CadInv
  <1>4. harm' = [i \in Calls |-> harm'[i]]
    BY DEF OnlyOf, CadInv
  <1>5. QED BY <1>2, <1>3, <1>4 DEF CadInv

\* What is known of a job before a step.
LEMMA Before ==
    ASSUME CadInv, NEW j \in Calls
    PROVE  /\ JobOk(caller[j], thread[j], worker[j], files[j])
           /\ "files" \notin harm[j] => Undamaged(harm[j], caller[j], thread[j], worker[j], files[j])
           /\ Cad!DirOf(j) = j
  BY DEF CadInv, Cad!DirOf

LEMMA Shaped ==
    ASSUME CadInv, NEW j \in Calls
    PROVE  /\ thread[j].at # "leaving" => thread[j] = [at |-> thread[j].at]
           /\ caller[j].at # "idle" =>
                 caller[j] = [at |-> caller[j].at, in |-> caller[j].in, answer |-> caller[j].answer]
  <1>1. ThreadShape(thread[j]) /\ CallerShape(caller[j])
    BY Before DEF JobOk
  <1>2. QED BY <1>1, ShapeOfThread, ShapeOfCaller

\* A place of the thread that says nothing of an answer.
LEMMA GoesOn ==
    ASSUME CadInv, NEW j \in Calls, NEW place, Cad!Goes(j, place), thread[j].at # "leaving"
    PROVE  thread'[j] = [at |-> place] /\ thread' = [thread EXCEPT ![j] = thread'[j]]
  <1>1. thread[j] = [at |-> thread[j].at]
    BY Shaped
  <1>2. QED BY <1>1 DEF Cad!Goes, CadInv

LEMMA ReturnsWith ==
    ASSUME CadInv, NEW j \in Calls, NEW answer, Cad!Returns(j, answer)
    PROVE  /\ thread'[j] = [at |-> "leaving", answer |-> answer]
           /\ thread' = [thread EXCEPT ![j] = thread'[j]]
  BY DEF Cad!Returns, CadInv

LEMMA WorksAt ==
    ASSUME CadInv, NEW j \in Calls, NEW w, Cad!Works(j, w)
    PROVE  worker'[j] = w /\ worker' = [worker EXCEPT ![j] = worker'[j]]
  BY DEF Cad!Works, CadInv

\* What does not change at all changes only at j.
LEMMA Same ==
    ASSUME CadInv, NEW j \in Calls
    PROVE  /\ caller' = caller => caller' = [caller EXCEPT ![j] = caller'[j]]
           /\ thread' = thread => thread' = [thread EXCEPT ![j] = thread'[j]]
           /\ worker' = worker => worker' = [worker EXCEPT ![j] = worker'[j]]
           /\ files' = files => files' = [files EXCEPT ![j] = files'[j]]
           /\ harm' = harm => harm' = [harm EXCEPT ![j] = harm'[j]]
  BY DEF CadInv

-----------------------------------------------------------------------------
(* The caller *)

LEMMA CallKeeps ==
    ASSUME CadInv, NEW j \in Calls, Cad!Call(j)
    PROVE  CadInv'
  <1>1. PICK in \in Inputs :
            \/ /\ caller' = [caller EXCEPT ![j] = [at |-> "awaiting", in |-> in, answer |-> None]]
               /\ thread' = [thread EXCEPT ![j].at = "queued"]
            \/ \E code \in {"CAD_JOB_PROFILE_INVALID", "CAD_PROFILE_MISMATCH"} :
                  /\ caller' = [caller EXCEPT ![j] =
                           [at |-> "answered", in |-> in, answer |-> Cad!Failure(code)]]
                  /\ thread' = thread
    BY DEF Cad!Call
  <1>2. /\ caller[j].at = "idle" /\ thread[j].at = "none"
        /\ worker[j].at = "none" /\ files[j] = None
    BY Before DEF Cad!Call, JobOk, CallerOk, ThreadOk
  <1>a. thread[j] = [at |-> "none"]
    BY <1>2, Shaped
  <1>3. worker' = worker /\ files' = files /\ harm' = harm
    BY DEF Cad!Call
  <1>4. /\ \/ /\ caller'[j] = [at |-> "awaiting", in |-> in, answer |-> None]
              /\ thread'[j] = [at |-> "queued"]
           \/ \E code \in {"CAD_JOB_PROFILE_INVALID", "CAD_PROFILE_MISMATCH"} :
                 /\ caller'[j] = [at |-> "answered", in |-> in, answer |-> Cad!Failure(code)]
                 /\ thread'[j] = [at |-> "none"]
        /\ caller' = [caller EXCEPT ![j] = caller'[j]] /\ thread' = [thread EXCEPT ![j] = thread'[j]]
    BY <1>1, <1>a DEF CadInv
  <1>5. /\ worker'[j].at = "none" /\ files'[j] = None
    BY <1>2, <1>3
  <1>6. \A code \in {"CAD_JOB_PROFILE_INVALID", "CAD_PROFILE_MISMATCH"} :
            Final(in, Cad!Failure(code)) /\ \A h : Blameless(in, h, Cad!Failure(code))
    BY FailureIsFinal DEF Cad!Codes, Blames
  <1>7. JobOk(caller'[j], thread'[j], worker'[j], files'[j])
    BY <1>4, <1>5, <1>6, Shapes DEF JobOk, CallerOk, ThreadOk, WorkerOk, DirOk, Resting
  <1>8. Undamaged(harm'[j], caller'[j], thread'[j], worker'[j], files'[j])
    BY <1>4, <1>5, <1>6 DEF Undamaged
  <1>9. QED BY <1>3, <1>4, <1>7, <1>8, Same, OneJob DEF OnlyOf

LEMMA CancelKeeps ==
    ASSUME CadInv, NEW j \in Calls, Cad!Cancel(j)
    PROVE  CadInv'
  <1>1. worker' = worker /\ files' = files /\ harm' = harm
    BY DEF Cad!Cancel
  <1>a. /\ caller[j].at = "awaiting"
        /\ caller[j] = [at |-> "awaiting", in |-> caller[j].in, answer |-> caller[j].answer]
    BY Shaped DEF Cad!Cancel
  <1>b. thread[j].at = "queued" => thread[j] = [at |-> "queued"]
    BY Shaped
  <1>2. /\ caller' = [caller EXCEPT ![j] = caller'[j]] /\ thread' = [thread EXCEPT ![j] = thread'[j]]
        /\ caller'[j] = [at |-> "cancelled", in |-> caller[j].in, answer |-> caller[j].answer]
        /\ thread'[j] = IF thread[j].at = "queued" THEN [at |-> "done"] ELSE thread[j]
    <2>1. /\ caller' = [caller EXCEPT ![j].at = "cancelled"]
          /\ thread' = IF thread[j].at = "queued" THEN [thread EXCEPT ![j].at = "done"] ELSE thread
      BY DEF Cad!Cancel
    <2>2. /\ caller'[j] = [caller[j] EXCEPT !.at = "cancelled"]
          /\ caller' = [caller EXCEPT ![j] = caller'[j]]
      BY <2>1 DEF CadInv
    <2>3. [caller[j] EXCEPT !.at = "cancelled"]
              = [at |-> "cancelled", in |-> caller[j].in, answer |-> caller[j].answer]
      BY <1>a
    <2>4. CASE thread[j].at = "queued"
      <3>1. thread'[j] = [thread[j] EXCEPT !.at = "done"] /\ thread' = [thread EXCEPT ![j] = thread'[j]]
        BY <2>1, <2>4 DEF CadInv
      <3>2. [thread[j] EXCEPT !.at = "done"] = [at |-> "done"]
        BY <1>b, <2>4
      <3>3. QED BY <2>2, <2>3, <2>4, <3>1, <3>2
    <2>5. CASE thread[j].at # "queued"
      BY <2>1, <2>2, <2>3, <2>5 DEF CadInv
    <2>6. QED BY <2>4, <2>5
  <1>3. caller[j].at = "awaiting"
    BY DEF Cad!Cancel
  <1>4. JobOk(caller'[j], thread'[j], worker'[j], files'[j])
    BY <1>1, <1>2, <1>3, Before, Shapes DEF JobOk, CallerOk, ThreadOk, WorkerOk, DirOk, Resting
  <1>5. "files" \notin harm'[j] => Undamaged(harm'[j], caller'[j], thread'[j], worker'[j], files'[j])
    BY <1>1, <1>2, Before DEF Undamaged
  <1>6. QED BY <1>1, <1>2, <1>4, <1>5, Same, OneJob DEF OnlyOf

-----------------------------------------------------------------------------
(* The thread *)

\* A step that only moves the thread.
LEMMA ThreadMoves ==
    ASSUME CadInv, NEW j \in Calls, thread' = [thread EXCEPT ![j] = thread'[j]],
           caller' = caller, worker' = worker, files' = files,
           harm' = [harm EXCEPT ![j] = harm'[j]], harm[j] \subseteq harm'[j],
           ThreadShape(thread'[j]), ThreadOk(caller[j], thread'[j], worker[j], files[j]),
           "files" \notin harm'[j] =>
               (thread'[j].at = "leaving" => Blameless(caller[j].in, harm'[j], thread'[j].answer))
    PROVE  CadInv'
  <1>1. JobOk(caller'[j], thread'[j], worker'[j], files'[j])
    BY Before DEF JobOk
  <1>2. "files" \notin harm'[j] => Undamaged(harm'[j], caller'[j], thread'[j], worker'[j], files'[j])
    BY Before, BlamelessLater DEF Undamaged
  <1>3. QED BY <1>1, <1>2, Same, OneJob DEF OnlyOf

LEMMA JobBeginKeeps ==
    ASSUME CadInv, NEW j \in Calls, Cad!Begin(j)
    PROVE  CadInv'
  <1> DEFINE code == Cad!Refusal(caller[j].in.wrong)
  <1>1. \/ thread'[j] = [at |-> "leaving", answer |-> Cad!Failure(code)]
        \/ thread'[j] = [at |-> "encoded"]
    BY ReturnsWith, GoesOn DEF Cad!Begin
  <1>2. thread' = [thread EXCEPT ![j] = thread'[j]]
    BY ReturnsWith, GoesOn DEF Cad!Begin
  <1>3. Final(caller[j].in, Cad!Failure(code)) /\ Blameless(caller[j].in, harm[j], Cad!Failure(code))
    <2>1. code \in {"CAD_JOB_INPUT_INVALID", "CAD_JOB_PROFILE_INVALID", "CAD_JOB_INPUT_TOO_LARGE"}
      BY DEF Cad!Refusal
    <2> HIDE DEF code
    <2>2. code \in Cad!Codes /\ code # "CAD_REFUSED" /\ code \notin Blames
      BY <2>1 DEF Cad!Codes, Blames
    <2>3. QED BY <2>2, FailureIsFinal
  <1> HIDE DEF code
  <1>4. ThreadOk(caller[j], thread'[j], worker[j], files[j])
    BY <1>1, <1>3, Before DEF Cad!Begin, JobOk, ThreadOk, Resting
  <1>5. harm' = harm
    BY DEF Cad!Begin
  <1>6. QED BY <1>1, <1>2, <1>3, <1>4, <1>5, Same, Shapes, ThreadMoves DEF Cad!Begin

LEMMA WriteRequestKeeps ==
    ASSUME CadInv, NEW j \in Calls, Cad!WriteRequest(j)
    PROVE  CadInv'
  <1> DEFINE d == [request |-> Cad!Contents(Cad!Request(caller[j].in)), response |-> None]
  <1>1. caller' = caller /\ worker' = worker /\ harm' = harm
    BY DEF Cad!WriteRequest
  <1>2. files'[j] = d /\ files' = [files EXCEPT ![j] = files'[j]]
    BY Before DEF Cad!WriteRequest, CadInv
  <1>3. /\ \/ thread'[j] = [at |-> "leaving", answer |-> Cad!Failure("OSError")]
           \/ thread'[j] = [at |-> "starting"]
        /\ thread' = [thread EXCEPT ![j] = thread'[j]]
    BY ReturnsWith, GoesOn DEF Cad!WriteRequest
  <1>4. caller[j].at # "idle" /\ caller[j].in \in Inputs /\ worker[j].at = "none"
    BY Before DEF Cad!WriteRequest, JobOk, CallerOk, ThreadOk
  <1>5. d \in Cad!Dirs /\ d # None /\ d.request # Cad!Damaged /\ None # Cad!Damaged
    BY <1>4, NoneAssumption, EnvelopeFacts DEF Cad!Dirs, Cad!Envelopes, Cad!Requests
  <1>6. \A in : Final(in, Cad!Failure("OSError")) /\ \A h : Blameless(in, h, Cad!Failure("OSError"))
    BY FailureIsFinal DEF Cad!Codes, Blames
  <1>7. d.request = Cad!Contents(Cad!Request(caller[j].in)) /\ d.response = None
    OBVIOUS
  <1> HIDE DEF d
  <1>8. JobOk(caller[j], thread'[j], worker[j], d)
    BY <1>3, <1>4, <1>5, <1>6, <1>7, Before, Shapes DEF Cad!WriteRequest, JobOk, CallerOk, ThreadOk,
       WorkerOk, DirOk, Resting
  <1>9. "files" \notin harm[j] => Undamaged(harm[j], caller[j], thread'[j], worker[j], d)
    <2>1. "files" \notin harm[j] => (caller[j].at = "answered" => Blameless(caller[j].in, harm[j], caller[j].answer))
      BY Before DEF Undamaged
    <2>2. thread'[j].at = "leaving" => Blameless(caller[j].in, harm[j], thread'[j].answer)
      BY <1>3, <1>6
    <2>3. worker[j].at # "writing" /\ ~EndsWell(worker[j])
      BY <1>4 DEF EndsWell
    <2>4. QED BY <1>5, <1>7, <2>1, <2>2, <2>3 DEF Undamaged
  <1>10. QED BY <1>1, <1>2, <1>3, <1>8, <1>9, Same, OneJob DEF OnlyOf

LEMMA StartKeeps ==
    ASSUME CadInv, NEW j \in Calls, Cad!Start(j)
    PROVE  CadInv'
  <1>1. CASE Cad!Returns(j, Cad!Failure("CAD_JOB_START_FAILED")) /\ UNCHANGED worker
    <2>1. /\ thread'[j] = [at |-> "leaving", answer |-> Cad!Failure("CAD_JOB_START_FAILED")]
          /\ thread' = [thread EXCEPT ![j] = thread'[j]]
      BY <1>1, ReturnsWith
    <2>2. \A in : /\ Final(in, Cad!Failure("CAD_JOB_START_FAILED"))
                  /\ \A h : Blameless(in, h, Cad!Failure("CAD_JOB_START_FAILED"))
      BY FailureIsFinal DEF Cad!Codes, Blames
    <2>3. ThreadOk(caller[j], thread'[j], worker[j], files[j])
      BY <2>1, <2>2, Before DEF Cad!Start, JobOk, ThreadOk, Resting
    <2>4. caller' = caller /\ worker' = worker /\ files' = files /\ harm' = harm
      BY <1>1 DEF Cad!Start
    <2>5. Blameless(caller[j].in, harm'[j], thread'[j].answer) /\ ThreadShape(thread'[j])
      BY <2>1, <2>2, Shapes
    <2>6. QED BY <2>1, <2>3, <2>4, <2>5, Same, ThreadMoves
  <1>2. CASE worker' = [worker EXCEPT ![j] = [at |-> "started"]] /\ Cad!Goes(j, "waiting")
    <2>1. /\ thread'[j] = [at |-> "waiting"] /\ thread' = [thread EXCEPT ![j] = thread'[j]]
          /\ worker'[j] = [at |-> "started"] /\ worker' = [worker EXCEPT ![j] = worker'[j]]
      BY <1>2, GoesOn DEF Cad!Start, CadInv
    <2>2. JobOk(caller[j], thread'[j], worker'[j], files[j])
      BY <2>1, Before, Shapes DEF Cad!Start, JobOk, CallerOk, ThreadOk, WorkerOk, DirOk
    <2>3. "files" \notin harm[j] => Undamaged(harm[j], caller[j], thread'[j], worker'[j], files[j])
      BY <2>1, Before DEF Undamaged, EndsWell
    <2>4. caller' = caller /\ files' = files /\ harm' = harm
      BY DEF Cad!Start
    <2>5. QED BY <2>1, <2>2, <2>3, <2>4, Same, OneJob DEF OnlyOf
  <1>3. QED BY <1>1, <1>2 DEF Cad!Start

LEMMA TimeoutKeeps ==
    ASSUME CadInv, NEW j \in Calls, Cad!Timeout(j)
    PROVE  CadInv'
  <1>1. thread'[j] = [at |-> "killing"] /\ thread' = [thread EXCEPT ![j] = thread'[j]]
    BY GoesOn DEF Cad!Timeout, Cad!TimesOut
  <1>2. ThreadOk(caller[j], thread'[j], worker[j], files[j])
    BY <1>1, Before DEF Cad!Timeout, Cad!TimesOut, JobOk, ThreadOk
  <1>3. harm' = harm
    BY DEF Cad!Timeout
  <1>4. QED BY <1>1, <1>2, <1>3, Same, Shapes, ThreadMoves DEF Cad!Timeout

LEMMA KillKeeps ==
    ASSUME CadInv, NEW j \in Calls, Cad!Kill(j)
    PROVE  CadInv'
  <1>1. /\ thread'[j] = [at |-> "leaving", answer |-> Cad!Failure("CAD_JOB_TIMEOUT")]
        /\ thread' = [thread EXCEPT ![j] = thread'[j]]
    BY ReturnsWith DEF Cad!Kill
  <1>2. /\ worker'[j] = IF Resting(worker[j]) THEN worker[j] ELSE [at |-> "exited", code |-> -9]
        /\ worker' = [worker EXCEPT ![j] = worker'[j]]
    BY DEF Cad!Kill, Cad!AfterKill, Cad!Alive, Resting, CadInv
  <1>3. \A in : /\ Final(in, Cad!Failure("CAD_JOB_TIMEOUT"))
                /\ \A h : Blameless(in, h, Cad!Failure("CAD_JOB_TIMEOUT"))
    BY FailureIsFinal DEF Cad!Codes, Blames
  <1>4. JobOk(caller[j], thread'[j], worker'[j], files[j])
    BY <1>1, <1>2, <1>3, Before, Shapes DEF Cad!Kill, JobOk, CallerOk, ThreadOk, WorkerOk, DirOk, Resting
  <1>5. "files" \notin harm[j] => Undamaged(harm[j], caller[j], thread'[j], worker'[j], files[j])
    <2>1. Blameless(caller[j].in, harm[j], thread'[j].answer)
      BY <1>1, <1>3
    <2>2. worker'[j].at # "writing" /\ (EndsWell(worker'[j]) => EndsWell(worker[j]))
      BY <1>2 DEF Resting, EndsWell
    <2>3. QED BY <2>1, <2>2, Before DEF Undamaged
  <1>6. caller' = caller /\ files' = files /\ harm' = harm
    BY DEF Cad!Kill
  <1>7. QED BY <1>1, <1>2, <1>4, <1>5, <1>6, Same, OneJob DEF OnlyOf

LEMMA ExitedKeeps ==
    ASSUME CadInv, NEW j \in Calls, Cad!Exited(j)
    PROVE  CadInv'
  <1>1. /\ \/ \E code \in {"CAD_JOB_RESOURCE_LIMIT", "CAD_JOB_WORKER_FAILED"} :
                 thread'[j] = [at |-> "leaving", answer |-> Cad!Failure(code)]
           \/ thread'[j] = [at |-> "collecting"] /\ worker[j].code = 0
        /\ thread' = [thread EXCEPT ![j] = thread'[j]]
    BY ReturnsWith, GoesOn DEF Cad!Exited
  <1>2. \A code \in {"CAD_JOB_RESOURCE_LIMIT", "CAD_JOB_WORKER_FAILED"} :
            \A in : Final(in, Cad!Failure(code)) /\ \A h : Blameless(in, h, Cad!Failure(code))
    BY FailureIsFinal DEF Cad!Codes, Blames
  <1>3. /\ thread'[j].at = "leaving" => /\ Final(caller[j].in, thread'[j].answer)
                                       /\ Blameless(caller[j].in, harm[j], thread'[j].answer)
        /\ thread'[j].at \in {"leaving", "collecting"}
        /\ thread'[j].at = "collecting" => worker[j].code = 0
    BY <1>1, <1>2
  <1>4. thread[j].at = "waiting" /\ worker[j].at = "exited"
    BY DEF Cad!Exited
  <1>5. ThreadOk(caller[j], thread'[j], worker[j], files[j])
    BY <1>3, <1>4, Before DEF JobOk, ThreadOk, Resting
  <1>6. caller' = caller /\ worker' = worker /\ files' = files /\ harm' = harm
    BY DEF Cad!Exited
  <1>7. QED BY <1>1, <1>3, <1>5, <1>6, Same, Shapes, ThreadMoves

\* What is harmed of a job, is harmed of that job only.
LEMMA HarmsOne ==
    ASSUME CadInv, NEW j \in Calls, NEW what, Cad!Harms(j, what)
    PROVE  harm'[j] = harm[j] \cup {what} /\ harm' = [harm EXCEPT ![j] = harm'[j]]
  BY DEF Cad!Harms, CadInv

LEMMA CollectKeeps ==
    ASSUME CadInv, NEW j \in Calls, Cad!Collect(j)
    PROVE  CadInv'
  <1> DEFINE r == files[j].response
             in == caller[j].in
  <1>1. /\ files[j] # None /\ caller[j].at # "idle" /\ in \in Inputs /\ worker[j].at = "exited"
        /\ worker[j].code = 0
        /\ r \in {None, Cad!Damaged} \/ (r = Cad!Contents(r.payload) /\ Fair(in, r.payload))
    BY Before DEF Cad!Collect, JobOk, CallerOk, ThreadOk, DirOk
  <1>2. ASSUME NEW a, Cad!Returns(j, a), Final(in, a), harm' = [harm EXCEPT ![j] = harm'[j]],
               harm[j] \subseteq harm'[j], "files" \notin harm'[j] => Blameless(in, harm'[j], a)
        PROVE  CadInv'
    <2>1. /\ thread'[j] = [at |-> "leaving", answer |-> a]
          /\ thread' = [thread EXCEPT ![j] = thread'[j]]
      BY <1>2, ReturnsWith
    <2>2. ThreadOk(caller[j], thread'[j], worker[j], files[j])
      BY <1>1, <1>2, <2>1, Before DEF Cad!Collect, JobOk, ThreadOk, Resting
    <2>3. caller' = caller /\ worker' = worker /\ files' = files
      BY DEF Cad!Collect
    <2>4. QED BY <1>2, <2>1, <2>2, <2>3, Shapes, ThreadMoves
  <1>3. CASE Cad!Returns(j, Cad!Collected(r)) /\ harm' = harm
    <2>1. Final(in, Cad!Collected(r))
      <3>1. CASE r = None \/ Cad!Oversize(r)
        BY <3>1, FailureIsFinal DEF Cad!Collected, Cad!Codes
      <3>2. CASE r # None /\ ~Cad!Oversize(r)
        BY <1>1, <3>2, DecodedIsFinal DEF Cad!Collected
      <3>3. QED BY <3>1, <3>2
    <2>2. ASSUME "files" \notin harm[j] PROVE Blameless(in, harm[j], Cad!Collected(r))
      <3>1. r # None /\ r # Cad!Damaged /\ Blameless(in, harm[j], r.payload)
        BY <1>1, <2>2, Before DEF Undamaged, EndsWell
      <3>2. CASE Cad!Oversize(r)
        <4>1. "CAD_JOB_RESULT_TOO_LARGE" \in Cad!Codes \ Blames
          BY DEF Cad!Codes, Blames
        <4>2. QED BY <3>1, <3>2, <4>1, FailureIsFinal DEF Cad!Collected
      <3>3. CASE ~Cad!Oversize(r) /\ r.payload \in Cad!ResultsOf(Clashing)
        <4>1. in.spec \in Clashing
          BY <1>1, <3>1, <3>3, FairResultOf
        <4>2. Cad!Collected(r) = Cad!Failure("CAD_JOB_TRANSPORT_INVALID")
          BY <3>1, <3>3 DEF Cad!Collected, Cad!Decoded
        <4>3. QED BY <4>1, <4>2 DEF Blameless, Cad!Failure
      <3>4. CASE ~Cad!Oversize(r) /\ r.payload \notin Cad!ResultsOf(Clashing)
        BY <1>1, <3>1, <3>4, EnvelopeFacts DEF Cad!Collected, Cad!Decoded
      <3>5. QED BY <3>2, <3>3, <3>4
    <2>3. QED BY <1>2, <1>3, <2>1, <2>2, Same
  <1>4. ASSUME NEW code \in {"CAD_JOB_RESULT_MISSING", "CAD_JOB_TRANSPORT_INVALID"},
               Cad!Harms(j, "files"), Cad!Returns(j, Cad!Failure(code))
        PROVE  CadInv'
    <2>1. Final(in, Cad!Failure(code))
      BY FailureIsFinal DEF Cad!Codes
    <2>2. QED BY <1>2, <1>4, <2>1, HarmsOne
  <1>5. \/ Cad!Returns(j, Cad!Collected(r)) /\ harm' = harm
        \/ /\ Cad!Harms(j, "files")
           /\ \E code \in {"CAD_JOB_RESULT_MISSING", "CAD_JOB_TRANSPORT_INVALID"} :
                 Cad!Returns(j, Cad!Failure(code))
    BY <1>1, Before DEF Cad!Collect
  <1>6. QED BY <1>3, <1>4, <1>5

LEMMA LeaveKeeps ==
    ASSUME CadInv, NEW j \in Calls, Cad!Leave(j)
    PROVE  CadInv'
  <1>1. /\ Final(caller[j].in, thread[j].answer)
        /\ Resting(worker[j]) /\ caller[j].at # "idle"
    BY Before DEF Cad!Leave, JobOk, ThreadOk
  <1>2. /\ thread'[j] = [at |-> "done"] /\ thread' = [thread EXCEPT ![j] = thread'[j]]
        /\ files'[j] = None /\ files' = [files EXCEPT ![j] = files'[j]]
    BY Before DEF Cad!Leave, Cad!AfterLeave, CadInv
  <1>3. /\ caller' = [caller EXCEPT ![j] = caller'[j]]
        /\ caller'[j] = IF caller[j].at = "awaiting"
                        THEN [at |-> "answered", in |-> caller[j].in, answer |-> thread[j].answer]
                        ELSE caller[j]
    BY DEF Cad!Leave, Cad!Answer, CadInv
  <1>4. worker' = worker /\ harm' = harm
    BY DEF Cad!Leave
  <1>5. JobOk(caller'[j], thread'[j], worker[j], files'[j])
    BY <1>1, <1>2, <1>3, Before, Shapes DEF JobOk, CallerOk, ThreadOk, WorkerOk, DirOk, Resting
  <1>6. "files" \notin harm[j] => Undamaged(harm[j], caller'[j], thread'[j], worker[j], files'[j])
    BY <1>1, <1>2, <1>3, Before DEF Cad!Leave, Undamaged, Resting
  <1>7. QED BY <1>2, <1>3, <1>4, <1>5, <1>6, Same, OneJob DEF OnlyOf

-----------------------------------------------------------------------------
(* The worker *)

\* A step that only moves the worker.
LEMMA WorkerMoves ==
    ASSUME CadInv, NEW j \in Calls, worker' = [worker EXCEPT ![j] = worker'[j]],
           caller' = caller, thread' = thread, files' = files,
           harm' = [harm EXCEPT ![j] = harm'[j]], harm[j] \subseteq harm'[j],
           ~Resting(worker[j]), worker'[j].at # "none",
           WorkerOk(caller[j], worker'[j], files[j]),
           worker'[j].at # "exiting" \/ worker[j].at = "exiting",
           worker'[j].at = "exited" /\ worker'[j].code = 0 => worker[j].at = "exiting",
           "files" \notin harm'[j] =>
               (worker'[j].at = "writing" => Blameless(caller[j].in, harm'[j], worker'[j].response))
    PROVE  CadInv'
  <1>1. ThreadOk(caller[j], thread[j], worker'[j], files[j])
    BY Before DEF JobOk, ThreadOk, Resting
  <1>2. JobOk(caller'[j], thread'[j], worker'[j], files'[j])
    BY <1>1, Before DEF JobOk
  <1>3. "files" \notin harm'[j] => Undamaged(harm'[j], caller'[j], thread'[j], worker'[j], files'[j])
    BY Before, BlamelessLater DEF Undamaged, EndsWell
  <1>4. QED BY <1>2, <1>3, Same, OneJob DEF OnlyOf

\* A worker that is not at rest has a directory, and its caller an input.
LEMMA WorkerHas ==
    ASSUME CadInv, NEW j \in Calls, ~Resting(worker[j])
    PROVE  /\ files[j] # None /\ caller[j].at # "idle" /\ caller[j].in \in Inputs
           /\ files[j] \in Cad!Dirs
           /\ files[j].request \in {Cad!Contents(Cad!Request(caller[j].in)), Cad!Damaged}
           /\ thread[j].at \in {"waiting", "killing", "dead"}
  <1>1. files[j] # None
    BY Before DEF JobOk, WorkerOk
  <1>2. /\ caller[j].at # "idle" /\ files[j] \in Cad!Dirs
        /\ files[j].request \in {Cad!Contents(Cad!Request(caller[j].in)), Cad!Damaged}
    BY <1>1, Before DEF JobOk, DirOk
  <1>3. caller[j].in \in Inputs
    BY <1>2, Before DEF JobOk, CallerOk
  <1>4. thread[j].at \in {"waiting", "killing", "dead"}
    BY Before DEF JobOk, ThreadOk, Resting
  <1>5. QED BY <1>1, <1>2, <1>3, <1>4

LEMMA ReadRequestKeeps ==
    ASSUME CadInv, NEW j \in Calls, Cad!ReadRequest(j)
    PROVE  CadInv'
  <1> DEFINE in == caller[j].in
  <1>1. ~Resting(worker[j]) /\ worker[j].at = "started"
    BY DEF Cad!ReadRequest, Resting
  <1>2. /\ worker' = [worker EXCEPT ![j] = worker'[j]]
        /\ \/ /\ Cad!Decodable(files[j].request)
              /\ worker'[j] = [at |-> "compiling", request |-> files[j].request.payload]
           \/ /\ ~Cad!Decodable(files[j].request)
              /\ worker'[j] = [at |-> "writing", response |-> Cad!Failure("CAD_JOB_INTERNAL_ERROR")]
    BY <1>1, WorksAt, WorkerHas DEF Cad!ReadRequest, Cad!DirOf
  <1>3. Fair(in, Cad!Failure("CAD_JOB_INTERNAL_ERROR"))
    BY FailureIsFinal DEF Final, Cad!Codes
  <1>4. Cad!Decodable(files[j].request) => files[j].request.payload = Cad!Request(in)
    BY <1>1, WorkerHas, EnvelopeFacts
  <1>5. "files" \notin harm[j] => Cad!Decodable(files[j].request)
    BY <1>1, Before, WorkerHas, EnvelopeFacts DEF Undamaged
  <1>6. WorkerOk(caller[j], worker'[j], files[j])
    BY <1>1, <1>2, <1>3, <1>4, WorkerHas DEF WorkerOk
  <1>7. caller' = caller /\ thread' = thread /\ files' = files /\ harm' = harm
    BY DEF Cad!ReadRequest
  <1>8. QED BY <1>1, <1>2, <1>5, <1>6, <1>7, Same, WorkerMoves

LEMMA CompileKeeps ==
    ASSUME CadInv, NEW j \in Calls, Cad!Compile(j)
    PROVE  CadInv'
  <1> DEFINE in == caller[j].in
  <1>1. ~Resting(worker[j]) /\ worker[j].request = Cad!Request(in)
    BY Before DEF Cad!Compile, Resting, JobOk, WorkerOk
  <1>2. PICK a : /\ worker' = [worker EXCEPT ![j] = worker'[j]]
                 /\ worker'[j] = [at |-> "writing", response |-> a]
                 /\ a = Cad!Compiled(Cad!Request(in)) \/ a = Cad!Failure("CAD_GEOMETRY_FAILED")
    BY <1>1, WorksAt DEF Cad!Compile
  <1>3. Fair(in, Cad!Failure("CAD_GEOMETRY_FAILED")) /\ Blameless(in, harm[j], Cad!Failure("CAD_GEOMETRY_FAILED"))
    BY FailureIsFinal DEF Final, Cad!Codes, Blames
  <1>4. Cad!Request(in).spec = in.spec /\ Cad!Request(in).profile = in.profile
    BY DEF Cad!Request
  <1>5. Fair(in, Cad!Compiled(Cad!Request(in))) /\ Blameless(in, harm[j], Cad!Compiled(Cad!Request(in)))
    <2>1. CASE in.spec \in Refuses
      BY <1>4, <2>1 DEF Cad!Compiled, Fair, Blameless, Cad!Codes, Cad!Failure
    <2>2. CASE in.spec \notin Refuses
      BY <1>4, <2>2 DEF Cad!Compiled, Fair, Blameless, Cad!Result, Cad!Failure
    <2>3. QED BY <2>1, <2>2
  <1>6. WorkerOk(caller[j], worker'[j], files[j])
    BY <1>1, <1>2, <1>3, <1>5, WorkerHas DEF WorkerOk
  <1>7. caller' = caller /\ thread' = thread /\ files' = files /\ harm' = harm
    BY DEF Cad!Compile
  <1>8. QED BY <1>1, <1>2, <1>3, <1>5, <1>6, <1>7, Same, WorkerMoves

LEMMA RunsShortKeeps ==
    ASSUME CadInv, NEW j \in Calls, Cad!RunsShort(j)
    PROVE  CadInv'
  <1> DEFINE a == Cad!Failure("CAD_JOB_INTERNAL_ERROR")
  <1>1. ~Resting(worker[j])
    BY DEF Cad!RunsShort, Resting
  <1>2. worker'[j] = [at |-> "writing", response |-> a] /\ worker' = [worker EXCEPT ![j] = worker'[j]]
    BY WorksAt DEF Cad!RunsShort
  <1>3. harm'[j] = harm[j] \cup {"worker"} /\ harm' = [harm EXCEPT ![j] = harm'[j]]
    BY HarmsOne DEF Cad!RunsShort
  <1>4. Fair(caller[j].in, a)
    BY FailureIsFinal DEF Final, Cad!Codes
  <1>5. Blameless(caller[j].in, harm'[j], a)
    BY <1>3 DEF Blameless, Cad!Failure
  <1> HIDE DEF a
  <1>6. WorkerOk(caller[j], worker'[j], files[j])
    BY <1>1, <1>2, <1>4, WorkerHas DEF WorkerOk
  <1>7. caller' = caller /\ thread' = thread /\ files' = files
    BY DEF Cad!RunsShort
  <1>8. worker'[j].at = "writing" /\ Blameless(caller[j].in, harm'[j], worker'[j].response)
    BY <1>2, <1>5
  <1>9. harm[j] \subseteq harm'[j] /\ harm' = [harm EXCEPT ![j] = harm'[j]]
    BY <1>3
  <1>10. worker' = [worker EXCEPT ![j] = worker'[j]]
    BY <1>2
  <1>11. QED BY <1>1, <1>6, <1>7, <1>8, <1>9, <1>10, WorkerMoves

\* The response is written as a whole.
LEMMA ResponseWritten ==
    ASSUME NEW in \in Inputs, NEW a, Fair(in, a), NEW d \in Cad!Dirs,
           NEW e, e = [d EXCEPT !.response = Cad!Contents(a)]
    PROVE  /\ e \in Cad!Dirs /\ e # None /\ e.request = d.request
           /\ e.response = Cad!Contents(a) /\ e.response.payload = a
           /\ e.response # None /\ e.response # Cad!Damaged
  <1>1. Cad!Contents(a) \in Cad!Envelopes(Cad!Outcomes)
    BY FairIsOutcome DEF Cad!Envelopes
  <1>2. e \in Cad!Dirs /\ e.request = d.request /\ e.response = Cad!Contents(a)
    BY <1>1 DEF Cad!Dirs
  <1>3. QED BY <1>1, <1>2, NoneAssumption, EnvelopeFacts

LEMMA WriteResponseKeeps ==
    ASSUME CadInv, NEW j \in Calls, Cad!WriteResponse(j)
    PROVE  CadInv'
  <1>1. ~Resting(worker[j]) /\ Fair(caller[j].in, worker[j].response) /\ worker[j].at = "writing"
    BY Before DEF Cad!WriteResponse, Resting, JobOk, WorkerOk
  <1>2. CASE Cad!Works(j, [at |-> "exited", code |-> Cad!CodeUnwritten]) /\ UNCHANGED files
    <2>1. worker'[j] = [at |-> "exited", code |-> 1] /\ worker' = [worker EXCEPT ![j] = worker'[j]]
      BY <1>2, WorksAt DEF Cad!CodeUnwritten
    <2>2. WorkerOk(caller[j], worker'[j], files[j])
      BY <2>1 DEF WorkerOk, Resting
    <2>3. caller' = caller /\ thread' = thread /\ harm' = harm
      BY DEF Cad!WriteResponse
    <2>4. QED BY <1>1, <1>2, <2>1, <2>2, <2>3, Same, WorkerMoves
  <1>3. CASE /\ files' = [files EXCEPT ![Cad!DirOf(j)].response = Cad!Contents(worker[j].response)]
             /\ Cad!Works(j, [at |-> "exiting"])
    <2>1. /\ worker'[j] = [at |-> "exiting"] /\ worker' = [worker EXCEPT ![j] = worker'[j]]
          /\ files'[j] = [files[j] EXCEPT !.response = Cad!Contents(worker[j].response)]
          /\ files' = [files EXCEPT ![j] = files'[j]]
      BY <1>3, WorksAt DEF CadInv, Cad!DirOf
    <2>2. /\ files'[j] \in Cad!Dirs /\ files'[j] # None /\ files'[j].request = files[j].request
          /\ files'[j].response = Cad!Contents(worker[j].response)
          /\ files'[j].response.payload = worker[j].response
          /\ files'[j].response # None /\ files'[j].response # Cad!Damaged
      BY <1>1, <2>1, WorkerHas, ResponseWritten
    <2>3. caller' = caller /\ thread' = thread /\ harm' = harm
      BY DEF Cad!WriteResponse
    <2>4. WorkerOk(caller[j], worker'[j], files'[j]) /\ DirOk(caller[j], files'[j])
      BY <1>1, <2>1, <2>2, WorkerHas DEF WorkerOk, DirOk
    <2>5. ThreadOk(caller[j], thread[j], worker'[j], files'[j])
      BY <1>1, <2>1, <2>2, WorkerHas, Before DEF JobOk, ThreadOk
    <2>6. JobOk(caller[j], thread[j], worker'[j], files'[j])
      BY <2>4, <2>5, Before DEF JobOk
    <2>7. "files" \notin harm[j] => Undamaged(harm[j], caller[j], thread[j], worker'[j], files'[j])
      BY <1>1, <2>1, <2>2, WorkerHas, Before DEF Undamaged
    <2>8. QED BY <2>1, <2>3, <2>6, <2>7, Same, OneJob DEF OnlyOf
  <1>4. QED BY <1>2, <1>3 DEF Cad!WriteResponse

LEMMA EndKeeps ==
    ASSUME CadInv, NEW j \in Calls, Cad!Exit(j) \/ Cad!Crash(j)
    PROVE  CadInv'
  <1>1. ~Resting(worker[j])
    <2>1. CASE Cad!Exit(j)
      BY <2>1 DEF Cad!Exit, Resting
    <2>2. CASE Cad!Crash(j)
      BY <2>2 DEF Cad!Crash, Cad!Alive, Resting
    <2>3. QED BY <2>1, <2>2
  <1>2. PICK code : /\ worker'[j] = [at |-> "exited", code |-> code]
                    /\ worker' = [worker EXCEPT ![j] = worker'[j]]
                    /\ code = 0 => worker[j].at = "exiting"
    <2>1. CASE Cad!Exit(j)
      <3>1. worker[j].at = "exiting" /\ Cad!Works(j, [at |-> "exited", code |-> 0])
        BY <2>1 DEF Cad!Exit
      <3>2. /\ worker'[j] = [at |-> "exited", code |-> 0]
            /\ worker' = [worker EXCEPT ![j] = worker'[j]]
        BY <3>1, WorksAt
      <3>3. QED BY <3>1, <3>2
    <2>2. CASE Cad!Crash(j)
      <3>1. PICK code \in {-24, 1} : Cad!Works(j, [at |-> "exited", code |-> code])
        BY <2>2 DEF Cad!Crash
      <3>2. code # 0
        BY <3>1
      <3>3. /\ worker'[j] = [at |-> "exited", code |-> code]
            /\ worker' = [worker EXCEPT ![j] = worker'[j]]
        BY <3>1, WorksAt
      <3>4. QED BY <3>2, <3>3
    <2>3. QED BY <2>1, <2>2
  <1>3. WorkerOk(caller[j], worker'[j], files[j])
    BY <1>2 DEF WorkerOk, Resting
  <1>4. caller' = caller /\ thread' = thread /\ files' = files /\ harm' = harm
    BY DEF Cad!Exit, Cad!Crash
  <1>5. QED BY <1>1, <1>2, <1>3, <1>4, Same, WorkerMoves

-----------------------------------------------------------------------------
(* The rest of the machine *)

LEMMA JobDamageKeeps ==
    ASSUME CadInv, NEW j \in Calls, Cad!Damage(j)
    PROVE  CadInv'
  <1> DEFINE d == files[j]
  <1>1. d # None /\ d \in Cad!Dirs
    BY Before DEF Cad!Damage, Cad!DirOf, JobOk, DirOk
  <1>2. /\ files' = [files EXCEPT ![j] = files'[j]]
        /\ \/ files'[j] = [d EXCEPT !.request = Cad!Damaged]
           \/ files'[j] = [d EXCEPT !.response = Cad!Damaged]
           \/ files'[j] = [d EXCEPT !.response = None]
    BY DEF Cad!Damage, Cad!DirOf, CadInv
  <1>3. /\ files'[j] \in Cad!Dirs /\ files'[j].request \in {d.request, Cad!Damaged}
        /\ files'[j].response \in {d.response, Cad!Damaged, None}
    BY <1>1, <1>2 DEF Cad!Dirs, Cad!Envelopes
  <1>4. files'[j] # None
    BY <1>3, NoneAssumption
  <1>5. /\ caller' = caller /\ thread' = thread /\ worker' = worker
        /\ "files" \in harm'[j] /\ harm' = [harm EXCEPT ![j] = harm'[j]]
    BY HarmsOne DEF Cad!Damage
  <1>6. DirOk(caller[j], files'[j])
    BY <1>1, <1>3, Before DEF JobOk, DirOk
  <1>7. ThreadOk(caller[j], thread[j], worker[j], files'[j]) /\ WorkerOk(caller[j], worker[j], files'[j])
    BY <1>1, <1>4, Before DEF JobOk, ThreadOk, WorkerOk
  <1>8. JobOk(caller[j], thread[j], worker[j], files'[j])
    BY <1>6, <1>7, Before DEF JobOk
  <1>9. QED BY <1>2, <1>5, <1>8, Same, OneJob DEF OnlyOf

LEMMA DiesKeeps ==
    ASSUME CadInv, Cad!Dies
    PROVE  CadInv'
  <1>1. worker' = worker /\ files' = files /\ harm' = harm
    BY DEF Cad!Dies
  <1>2. /\ caller' = [j \in Calls |-> caller'[j]] /\ thread' = [j \in Calls |-> thread'[j]]
    BY DEF Cad!Dies
  <1>3. ASSUME NEW j \in Calls
        PROVE  /\ JobOk(caller'[j], thread'[j], worker[j], files[j])
               /\ "files" \notin harm[j] => Undamaged(harm[j], caller'[j], thread'[j], worker[j], files[j])
    <2>1. caller[j].at = "awaiting" =>
             caller[j] = [at |-> "awaiting", in |-> caller[j].in, answer |-> caller[j].answer]
      BY Shaped
    <2>2. caller'[j] = IF caller[j].at = "awaiting"
                       THEN [at |-> "lost", in |-> caller[j].in, answer |-> caller[j].answer] ELSE caller[j]
      <3>1. caller'[j] = IF caller[j].at = "awaiting" THEN [caller[j] EXCEPT !.at = "lost"] ELSE caller[j]
        BY DEF Cad!Dies
      <3>2. QED BY <2>1, <3>1
    <2>3. thread'[j] = IF thread[j].at \in {"none", "done"} THEN thread[j] ELSE [at |-> "dead"]
      BY DEF Cad!Dies
    <2>4. CallerShape(caller'[j]) /\ CallerOk(caller'[j])
      BY <2>2, Before, Shapes DEF JobOk, CallerOk
    <2>5. ThreadShape(thread'[j]) /\ ThreadOk(caller'[j], thread'[j], worker[j], files[j])
      BY <2>2, <2>3, Before, Shapes DEF JobOk, ThreadOk
    <2>6. WorkerOk(caller'[j], worker[j], files[j]) /\ DirOk(caller'[j], files[j])
      BY <2>2, Before DEF JobOk, WorkerOk, DirOk
    <2>7. "files" \notin harm[j] => Undamaged(harm[j], caller'[j], thread'[j], worker[j], files[j])
      BY <2>2, <2>3, Before DEF Undamaged
    <2>8. QED BY <2>4, <2>5, <2>6, <2>7 DEF JobOk
  <1>4. QED BY <1>1, <1>2, <1>3 DEF CadInv

-----------------------------------------------------------------------------
(* The theorems *)

LEMMA CadInit == Cad!Init => CadInv
  <1> SUFFICES ASSUME Cad!Init PROVE CadInv
    OBVIOUS
  <1>1. ASSUME NEW j \in Calls
        PROVE  /\ caller[j] = [at |-> "idle"] /\ thread[j] = [at |-> "none"]
               /\ worker[j] = [at |-> "none"]
               /\ files[j] = None
    BY DEF Cad!Init, Cad!DirOf
  <1>2. ASSUME NEW j \in Calls
        PROVE  JobOk(caller[j], thread[j], worker[j], files[j])
    BY <1>1, Shapes DEF JobOk, CallerOk, ThreadOk, WorkerOk, DirOk, Resting
  <1>3. ASSUME NEW j \in Calls
        PROVE  Undamaged(harm[j], caller[j], thread[j], worker[j], files[j])
    BY <1>1 DEF Undamaged
  <1>4. QED BY <1>2, <1>3 DEF Cad!Init, Cad!DirOf, CadInv

LEMMA CadNext == CadInv /\ [Cad!Next]_(Cad!vars) => CadInv'
  <1> SUFFICES ASSUME CadInv, [Cad!Next]_(Cad!vars) PROVE CadInv'
    OBVIOUS
  <1>1. ASSUME NEW j \in Calls, Cad!Call(j) \/ Cad!Cancel(j) PROVE CadInv'
    BY <1>1, CallKeeps, CancelKeeps
  <1>2. ASSUME NEW j \in Calls, Cad!ThreadStep(j) PROVE CadInv'
    BY <1>2, JobBeginKeeps, WriteRequestKeeps, StartKeeps, TimeoutKeeps, KillKeeps, ExitedKeeps, CollectKeeps,
       LeaveKeeps DEF Cad!ThreadStep
  <1>3. ASSUME NEW j \in Calls, Cad!WorkerStep(j) PROVE CadInv'
    BY <1>3, ReadRequestKeeps, CompileKeeps, RunsShortKeeps, WriteResponseKeeps, EndKeeps DEF Cad!WorkerStep
  <1>4. ASSUME NEW j \in Calls, Cad!Damage(j) PROVE CadInv'
    BY <1>4, JobDamageKeeps
  <1>5. CASE Cad!Dies
    BY <1>5, DiesKeeps
  <1>6. CASE UNCHANGED Cad!vars
    <2>1. UNCHANGED <<caller, thread, worker, files, harm, jobFaults>>
      BY <1>6 DEF Cad!vars
    <2>2. QED BY <2>1 DEF CadInv
  <1>7. QED BY <1>1, <1>2, <1>3, <1>4, <1>5, <1>6 DEF Cad!Next

\* What is true of every job in every state: of its caller, thread, process and directory together.
THEOREM CadInvariant == Cad!Spec => []CadInv
  BY CadInit, CadNext, PTL DEF Cad!Spec

\* Whatever else runs, is damaged or dies, a job is answered with the result of its own design and
\* profile, with a refusal of its own design, or with a failure that has a code; when it has ended
\* neither a process nor a directory is left; and where no file was damaged a failure blames the
\* transport only if the parts of the design clash, and the worker only if that ran short.
THEOREM JobsSoundAlways == Cad!Spec => []JobsSound
  <1>1. ASSUME CadInv, NEW j \in Calls
        PROVE  /\ Cad!HasAnswer(j) => Final(caller[j].in, caller[j].answer)
               /\ "files" \notin harm[j] =>
                     (Cad!HasAnswer(j) => Blameless(caller[j].in, harm[j], caller[j].answer))
    BY <1>1, Before DEF Cad!HasAnswer, JobOk, CallerOk, Undamaged
  <1>2. ASSUME CadInv PROVE Cad!TypeOK
    <2>1. ASSUME NEW j \in Calls
          PROVE  Cad!HasAnswer(j) => Cad!Succeeded(j) \/ Cad!FailedWith(j, Cad!Codes)
      BY <1>1, <1>2, FinalSays DEF Cad!Succeeded, Cad!FailedWith
    <2>2. ASSUME NEW j \in Calls
          PROVE  /\ caller[j].at = "awaiting" => thread[j].at \notin {"none", "done", "dead"}
                 /\ thread[j].at \in {"none", "queued", "encoded", "starting", "waiting", "killing", "collecting",
                                      "leaving", "done", "dead"}
                 /\ worker[j].at \in {"none", "started", "compiling", "writing", "exiting", "exited"}
      BY <1>2, Before DEF JobOk, ThreadOk, WorkerOk
    <2>3. QED BY <2>1, <2>2 DEF Cad!TypeOK
  <1>3. ASSUME CadInv PROVE Cad!OutcomeTrue
    <2>1. ASSUME NEW j \in Calls, Cad!Succeeded(j)
          PROVE  /\ caller[j].answer = Cad!Result(caller[j].in.spec, caller[j].in.profile)
                 /\ caller[j].in.spec \notin Refuses \cup Oversized \cup Clashing
      BY <1>1, <1>3, <2>1, FinalSays DEF Cad!Succeeded
    <2>2. ASSUME NEW j \in Calls, Cad!FailedWith(j, {"CAD_REFUSED"})
          PROVE  caller[j].in.spec \in Refuses
      BY <1>1, <1>3, <2>2, FinalSays DEF Cad!FailedWith
    <2>3. QED BY <2>1, <2>2 DEF Cad!OutcomeTrue
  <1>4. ASSUME CadInv PROVE Cad!LeavesNothing
    BY <1>4, Before DEF Cad!LeavesNothing, JobOk, ThreadOk, Cad!Alive, Resting, Cad!DirOf
  <1>5. ASSUME CadInv PROVE Cad!TransportWorks
    <2>1. ASSUME NEW j \in Calls, "files" \notin harm[j], NEW code \in Blames, Cad!FailedWith(j, {code})
          PROVE  caller[j].answer = Cad!Failure(code) /\ Blameless(caller[j].in, harm[j], Cad!Failure(code))
      <3>1. Fair(caller[j].in, caller[j].answer) /\ Blameless(caller[j].in, harm[j], caller[j].answer)
        BY <1>1, <1>5, <2>1 DEF Final, Cad!FailedWith
      <3>2. caller[j].answer.status = "failed" /\ caller[j].answer.code = code
        BY <2>1 DEF Cad!FailedWith
      <3>3. caller[j].answer # Cad!Result(caller[j].in.spec, caller[j].in.profile)
        BY <3>2 DEF Cad!Result
      <3>4. PICK other \in Cad!Codes : caller[j].answer = Cad!Failure(other)
        BY <3>1, <3>3 DEF Fair
      <3>5. other = code
        BY <3>2, <3>4 DEF Cad!Failure
      <3>6. QED BY <3>1, <3>4, <3>5
    <2>2. ASSUME NEW j \in Calls, "files" \notin harm[j]
          PROVE  /\ ~Cad!FailedWith(j, {"CAD_JOB_RESULT_MISSING"})
                 /\ Cad!FailedWith(j, {"CAD_JOB_TRANSPORT_INVALID"}) => caller[j].in.spec \in Clashing
                 /\ Cad!FailedWith(j, {"CAD_JOB_INTERNAL_ERROR"}) => "worker" \in harm[j]
      BY <2>1, <2>2 DEF Blames, Blameless
    <2>3. QED BY <2>2 DEF Cad!TransportWorks
  <1>6. CadInv => JobsSound
    BY <1>2, <1>3, <1>4, <1>5 DEF JobsSound, Cad!JobsSound
  <1>7. QED BY <1>6, CadInvariant, PTL
=============================================================================
