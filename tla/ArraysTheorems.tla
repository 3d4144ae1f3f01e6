--------------------------- MODULE ArraysTheorems ---------------------------
(***************************************************************************)
(* What thinning out an array preserves, and what appending, taking the    *)
(* head, removing at an index and concatenating do to the elements of a    *)
(* sequence: the facts about NSMutableArrays and queues that the proofs of *)
(* the components share.                                                   *)
(***************************************************************************)
EXTENDS Arrays, SequencesExt, SequenceTheorems, FunctionTheorems, FiniteSetTheorems, WellFoundedInduction, TLAPS

LEMMA IndexType ==
    ASSUME NEW n \in Nat, NEW K \in SUBSET (1 .. n)
    PROVE  \A j \in K : j \in Nat /\ 1 <= j /\ j <= n
OBVIOUS

\* The rank of an index is a natural number, at most the number of indices;
\* it is 0 before the first index, grows with the index, and by at most one
\* from each index to the next.
LEMMA RankType ==
    ASSUME NEW n \in Nat, NEW K \in SUBSET (1 .. n)
    PROVE  /\ IsFiniteSet(K) /\ Cardinality(K) \in Nat
           /\ Rank(K, 0) = 0
           /\ Rank(K, n) = Cardinality(K)
           /\ \A i \in Nat : Rank(K, i) \in Nat
<1>1. IsFiniteSet(K) /\ Cardinality(K) \in Nat
  <2>1. IsFiniteSet(1 .. n)
    BY FS_Interval
  <2>2. IsFiniteSet(K)
    BY <2>1, FS_Subset
  <2> QED BY <2>2, FS_CardinalityType
<1>2. {j \in K : j <= 0} = {} /\ {j \in K : j <= n} = K
  <2>1. \A j \in K : ~(j <= 0) /\ j <= n
    BY IndexType
  <2> QED BY <2>1
<1>3. Rank(K, 0) = 0 /\ Rank(K, n) = Cardinality(K)
  BY <1>2, FS_EmptySet DEF Rank
<1>4. ASSUME NEW i \in Nat PROVE Rank(K, i) \in Nat
  <2>1. {j \in K : j <= i} \in SUBSET K
    OBVIOUS
  <2> QED BY <1>1, <2>1, FS_Subset, FS_CardinalityType DEF Rank
<1> QED BY <1>1, <1>3, <1>4

LEMMA RankMonotone ==
    ASSUME NEW n \in Nat, NEW K \in SUBSET (1 .. n),
           NEW i \in Nat, NEW j \in Nat, i <= j
    PROVE  Rank(K, i) <= Rank(K, j)
<1>1. {k \in K : k <= i} \in SUBSET {k \in K : k <= j}
  <2>1. \A k \in K : k <= i => k <= j
    BY IndexType
  <2> QED BY <2>1
<1>2. IsFiniteSet({k \in K : k <= j})
  <2>1. {k \in K : k <= j} \in SUBSET K
    OBVIOUS
  <2> QED BY <2>1, RankType, FS_Subset
<1> QED BY <1>1, <1>2, FS_Subset DEF Rank

LEMMA RankNext ==
    ASSUME NEW n \in Nat, NEW K \in SUBSET (1 .. n), NEW i \in Nat
    PROVE  Rank(K, i + 1) = IF i + 1 \in K THEN Rank(K, i) + 1 ELSE Rank(K, i)
<1> DEFINE Upto == {k \in K : k <= i}
<1>1. IsFiniteSet(Upto)
  <2>1. Upto \in SUBSET K
    OBVIOUS
  <2> QED BY <2>1, RankType, FS_Subset
<1>2. CASE i + 1 \in K
  <2>1. {k \in K : k <= i + 1} = Upto \cup {i + 1}
    <3>1. \A k \in K : k <= i + 1 <=> k <= i \/ k = i + 1
      BY IndexType
    <3> QED BY <1>2, <3>1
  <2>2. i + 1 \notin Upto
    OBVIOUS
  <2>3. Cardinality(Upto \cup {i + 1}) = Cardinality(Upto) + 1
    BY <1>1, <2>2, FS_AddElement
  <2> QED BY <1>2, <2>1, <2>3 DEF Rank
<1>3. CASE i + 1 \notin K
  <2>1. {k \in K : k <= i + 1} = Upto
    <3>1. \A k \in K : k # i + 1
      BY <1>3
    <3>2. \A k \in K : k <= i + 1 <=> k <= i
      BY <3>1, IndexType
    <3> QED BY <3>2
  <2> QED BY <1>3, <2>1 DEF Rank
<1> QED BY <1>2, <1>3

\* There is an index of every rank: the least one with at least that rank.
LEMMA PickInIndices ==
    ASSUME NEW n \in Nat, NEW K \in SUBSET (1 .. n), NEW k \in 1 .. Cardinality(K)
    PROVE  Pick(K, k) \in K /\ Rank(K, Pick(K, k)) = k
<1> DEFINE M == {i \in Nat : k <= Rank(K, i)}
<1>1. M \subseteq Nat /\ n \in M
  BY RankType
<1>2. PICK m \in M : \A i \in M : ~ (<<i, m>> \in OpToRel(<, Nat))
  BY <1>1, WFMin, NatLessThanWellFounded
<1>3. m # 0
  BY RankType
<1>4. m - 1 \in Nat /\ m = (m - 1) + 1
  BY <1>3
<1>5. m - 1 \notin M
  <2>1. <<m - 1, m>> \in OpToRel(<, Nat)
    BY <1>4 DEF OpToRel
  <2> QED BY <1>2, <2>1
<1>a. k \in Int
  BY RankType
<1>6. Rank(K, m - 1) < k /\ Rank(K, m - 1) \in Nat
  <2>1. Rank(K, m - 1) \in Nat /\ ~ (k <= Rank(K, m - 1))
    BY <1>4, <1>5, RankType
  <2> QED BY ONLY <1>a, <2>1
<1>7. m \in K /\ Rank(K, m) = k
  <2>1. Rank(K, m) = IF m \in K THEN Rank(K, m - 1) + 1 ELSE Rank(K, m - 1)
    <3>1. Rank(K, (m - 1) + 1) =
             IF (m - 1) + 1 \in K THEN Rank(K, m - 1) + 1 ELSE Rank(K, m - 1)
      BY <1>4, RankNext, Zenon
    <3> QED BY ONLY <1>4, <3>1
  <2>2. k <= Rank(K, m) /\ k \in Int
    BY <1>a
  <2> QED BY ONLY <1>6, <2>1, <2>2
<1> QED BY <1>7 DEF Pick

LEMMA PickIncreasing ==
    ASSUME NEW n \in Nat, NEW K \in SUBSET (1 .. n),
           NEW a \in 1 .. Cardinality(K), NEW b \in 1 .. Cardinality(K), a < b
    PROVE  Pick(K, a) < Pick(K, b)
<1>1. /\ Pick(K, a) \in K /\ Rank(K, Pick(K, a)) = a
      /\ Pick(K, b) \in K /\ Rank(K, Pick(K, b)) = b
  BY PickInIndices
<1>2. Pick(K, a) \in Nat /\ Pick(K, b) \in Nat
  BY <1>1, IndexType
<1>3. Pick(K, b) <= Pick(K, a) => b <= a
  BY <1>1, <1>2, RankMonotone
<1> QED BY <1>2, <1>3, RankType

\* Thinning out a sequence gives a sequence over the same set, in which every
\* element was in the old one, at an index that stayed.
LEMMA SubsequenceType ==
    ASSUME NEW S, NEW s \in Seq(S), NEW K \in SUBSET (1 .. Len(s))
    PROVE  /\ Subsequence(s, K) \in Seq(S)
           /\ Len(Subsequence(s, K)) = Cardinality(K)
           /\ \A k \in 1 .. Cardinality(K) :
                 /\ Pick(K, k) \in K
                 /\ Subsequence(s, K)[k] = s[Pick(K, k)]
<1>1. Len(s) \in Nat
  OBVIOUS
<1>2. Cardinality(K) \in Nat
  BY <1>1, RankType
<1>3. \A k \in 1 .. Cardinality(K) : Pick(K, k) \in K
  BY <1>1, PickInIndices
<1>4. \A k \in 1 .. Cardinality(K) : s[Pick(K, k)] \in S
  <2>1. \A i \in K : s[i] \in S
    OBVIOUS
  <2> QED BY <1>3, <2>1
<1> QED BY <1>2, <1>3, <1>4 DEF Subsequence

\* An index that stays is picked by its rank.
LEMMA PickRank ==
    ASSUME NEW n \in Nat, NEW K \in SUBSET (1 .. n), NEW i \in K
    PROVE  Rank(K, i) \in 1 .. Cardinality(K) /\ Pick(K, Rank(K, i)) = i
<1>1. i \in Nat /\ i - 1 \in Nat /\ (i - 1) + 1 = i /\ i <= n
  BY IndexType
<1>2. Rank(K, i) = Rank(K, i - 1) + 1
  <2>1. Rank(K, (i - 1) + 1) = IF (i - 1) + 1 \in K THEN Rank(K, i - 1) + 1 ELSE Rank(K, i - 1)
    BY <1>1, RankNext
  <2> QED BY <1>1, <2>1
<1>r. /\ Cardinality(K) \in Nat /\ Rank(K, n) = Cardinality(K)
      /\ \A k \in Nat : Rank(K, k) \in Nat
  BY RankType
<1>3. Rank(K, i) \in Nat /\ Rank(K, i - 1) \in Nat
  BY <1>1, <1>r
<1>4. Rank(K, i) <= Cardinality(K)
  BY <1>1, <1>r, RankMonotone
<1>5. Rank(K, i) \in 1 .. Cardinality(K)
  BY <1>2, <1>3, <1>4, <1>r
<1> DEFINE j == Pick(K, Rank(K, i))
<1>6. j \in K /\ Rank(K, j) = Rank(K, i)
  BY <1>5, PickInIndices
<1> HIDE DEF j
<1>7. j \in Nat /\ j <= n /\ j - 1 \in Nat /\ (j - 1) + 1 = j
  BY <1>6, IndexType
<1>8. Rank(K, j) = Rank(K, j - 1) + 1 /\ Rank(K, j - 1) \in Nat
  <2>1. Rank(K, (j - 1) + 1) = IF (j - 1) + 1 \in K THEN Rank(K, j - 1) + 1 ELSE Rank(K, j - 1)
    BY <1>7, RankNext
  <2> QED BY <1>6, <1>7, <1>r, <2>1
<1>9. ~ (j < i)
  <2> SUFFICES ASSUME j < i PROVE FALSE
    OBVIOUS
  <2>1. j <= i - 1
    BY <1>1, <1>7
  <2>2. Rank(K, j) <= Rank(K, i - 1)
    BY <1>1, <1>7, <2>1, RankMonotone
  <2> QED BY <1>2, <1>3, <1>6, <2>2
<1>10. ~ (i < j)
  <2> SUFFICES ASSUME i < j PROVE FALSE
    OBVIOUS
  <2>1. i <= j - 1
    BY <1>1, <1>7
  <2>2. Rank(K, i) <= Rank(K, j - 1)
    BY <1>1, <1>7, <2>1, RankMonotone
  <2> QED BY <1>3, <1>6, <1>8, <2>2
<1>11. j = i
  BY <1>1, <1>7, <1>9, <1>10
<1> QED BY <1>5, <1>11 DEF j

\* What is left are the elements at the indices that stay, each once.
LEMMA SubsequenceElements ==
    ASSUME NEW S, NEW s \in Seq(S), NEW K \in SUBSET (1 .. Len(s))
    PROVE  /\ \A k \in DOMAIN Subsequence(s, K) : \E i \in K : Subsequence(s, K)[k] = s[i]
           /\ \A i \in K : \E k \in DOMAIN Subsequence(s, K) : Subsequence(s, K)[k] = s[i]
           /\ \A e : (\A i, j \in K : s[i] = e /\ s[j] = e => i = j) =>
                 \A a, b \in DOMAIN Subsequence(s, K) :
                    Subsequence(s, K)[a] = e /\ Subsequence(s, K)[b] = e => a = b
<1>0. Len(s) \in Nat
  OBVIOUS
<1>1. DOMAIN Subsequence(s, K) = 1 .. Cardinality(K)
  BY DEF Subsequence
<1>2. \A k \in 1 .. Cardinality(K) : Pick(K, k) \in K /\ Rank(K, Pick(K, k)) = k
  BY <1>0, PickInIndices
<1>3. \A k \in 1 .. Cardinality(K) : Subsequence(s, K)[k] = s[Pick(K, k)]
  BY DEF Subsequence
<1>4. \A i \in K : Rank(K, i) \in 1 .. Cardinality(K) /\ Pick(K, Rank(K, i)) = i
  BY <1>0, PickRank
<1>5. ASSUME NEW e, \A i, j \in K : s[i] = e /\ s[j] = e => i = j,
             NEW a \in 1 .. Cardinality(K), NEW b \in 1 .. Cardinality(K),
             Subsequence(s, K)[a] = e, Subsequence(s, K)[b] = e
      PROVE  a = b
  <2>1. Pick(K, a) = Pick(K, b)
    BY <1>2, <1>3, <1>5
  <2> QED BY <1>2, <2>1
<1> QED BY <1>1, <1>2, <1>3, <1>4, <1>5

-----------------------------------------------------------------------------
(* Queues *)

LEMMA AppendedTo ==
    ASSUME NEW S, NEW s \in Seq(S), NEW e \in S
    PROVE  /\ Append(s, e) \in Seq(S)
           /\ ToSet(Append(s, e)) = ToSet(s) \cup {e}
<1>1. Append(s, e) \in Seq(S) /\ Len(Append(s, e)) = Len(s) + 1 /\ Len(s) \in Nat
  OBVIOUS
<1>2. \A i \in 1 .. Len(s) : Append(s, e)[i] = s[i]
  OBVIOUS
<1>3. Append(s, e)[Len(s) + 1] = e
  OBVIOUS
<1>4. \A i : i \in 1 .. Len(s) + 1 <=> i \in 1 .. Len(s) \/ i = Len(s) + 1
  BY <1>1
<1>5. DOMAIN Append(s, e) = 1 .. Len(s) + 1 /\ DOMAIN s = 1 .. Len(s)
  BY <1>1
<1> QED BY <1>1, <1>2, <1>3, <1>4, <1>5, Zenon DEF ToSet

LEMMA TailOf ==
    ASSUME NEW S, NEW s \in Seq(S), s # <<>>
    PROVE  /\ Tail(s) \in Seq(S) /\ Head(s) \in S
           /\ Head(s) \in ToSet(s) /\ ToSet(Tail(s)) \subseteq ToSet(s)
<1>1. Tail(s) \in Seq(S) /\ Head(s) \in S /\ Len(Tail(s)) = Len(s) - 1 /\ Len(s) \in Nat \ {0}
  OBVIOUS
<1>2. \A i \in DOMAIN Tail(s) : i + 1 \in DOMAIN s /\ Tail(s)[i] = s[i + 1]
  BY <1>1
<1>3. 1 \in DOMAIN s /\ Head(s) = s[1]
  BY <1>1
<1> QED BY <1>1, <1>2, <1>3 DEF ToSet

\* The first f elements of a queue, and what is behind them
LEMMA Prefix ==
    ASSUME NEW S, NEW s \in Seq(S), NEW f \in 0 .. Len(s)
    PROVE  /\ SubSeq(s, 1, f) \in Seq(S) /\ Len(SubSeq(s, 1, f)) = f
           /\ \A k \in 1 .. f : SubSeq(s, 1, f)[k] = s[k]
<1>1. f \in Nat /\ f <= Len(s)
  OBVIOUS
<1>2. SubSeq(s, 1, f) \in Seq(S) /\ Len(SubSeq(s, 1, f)) = f
  BY <1>1
<1>3. \A k \in 1 .. f : SubSeq(s, 1, f)[k] = s[k]
  BY <1>1
<1> QED BY <1>2, <1>3

LEMMA Suffix ==
    ASSUME NEW S, NEW s \in Seq(S), NEW f \in 0 .. Len(s)
    PROVE  /\ SubSeq(s, f + 1, Len(s)) \in Seq(S)
           /\ Len(SubSeq(s, f + 1, Len(s))) = Len(s) - f
           /\ \A k \in 1 .. Len(s) - f : SubSeq(s, f + 1, Len(s))[k] = s[k + f]
<1>1. f \in Nat /\ f <= Len(s)
  OBVIOUS
<1>2. SubSeq(s, f + 1, Len(s)) \in Seq(S)
  BY <1>1
<1>3. Len(SubSeq(s, f + 1, Len(s))) = Len(s) - f
  BY <1>1
<1>4. \A k \in 1 .. Len(s) - f : SubSeq(s, f + 1, Len(s))[k] = s[k + f]
  BY <1>1
<1> QED BY <1>2, <1>3, <1>4

LEMMA RemovedAt ==
    ASSUME NEW S, NEW s \in Seq(S), NEW i \in DOMAIN s
    PROVE  /\ RemoveAt(s, i) \in Seq(S)
           /\ Len(RemoveAt(s, i)) = Len(s) - 1
           /\ ToSet(RemoveAt(s, i)) \subseteq ToSet(s)
           /\ \A k \in DOMAIN s : k # i => s[k] \in ToSet(RemoveAt(s, i))
<1> DEFINE a == SubSeq(s, 1, i - 1)
           b == SubSeq(s, i + 1, Len(s))
<1>1. i \in Nat /\ Len(s) \in Nat /\ 1 <= i /\ i <= Len(s) /\ DOMAIN s = 1 .. Len(s)
  OBVIOUS
<1>2. a \in Seq(S) /\ Len(a) = i - 1 /\ \A k \in 1 .. i - 1 : a[k] = s[k]
  <2>1. i - 1 \in 0 .. Len(s)
    BY <1>1
  <2> QED BY <2>1, Prefix
<1>3. b \in Seq(S) /\ Len(b) = Len(s) - i /\ \A k \in 1 .. Len(s) - i : b[k] = s[k + i]
  <2>1. i \in 0 .. Len(s)
    BY <1>1
  <2> QED BY <2>1, Suffix
<1>c. /\ a \o b \in Seq(S) /\ Len(a \o b) = Len(a) + Len(b)
      /\ \A k \in 1 .. Len(a) + Len(b) :
            (a \o b)[k] = IF k <= Len(a) THEN a[k] ELSE b[k - Len(a)]
  BY <1>2, <1>3, ConcatProperties, Zenon
<1> HIDE DEF a, b
<1>4. a \o b \in Seq(S) /\ Len(a \o b) = Len(s) - 1
  BY <1>1, <1>2, <1>3, <1>c
<1>n. /\ i \in Int /\ Len(s) \in Int /\ 1 <= i /\ i <= Len(s)
      /\ Len(a) = i - 1 /\ Len(b) = Len(s) - i
  BY <1>1, <1>2, <1>3
<1>5. ASSUME NEW k \in Int, 1 <= k, k <= Len(s) - 1
      PROVE  (a \o b)[k] = IF k < i THEN s[k] ELSE s[k + 1]
  <2>1. /\ k \in 1 .. Len(a) + Len(b) /\ (k <= Len(a) <=> k < i)
        /\ k < i => k \in 1 .. i - 1
        /\ ~ (k < i) => k - Len(a) \in 1 .. Len(s) - i /\ (k - Len(a)) + i = k + 1
    <3>0. /\ k \in Int /\ 1 <= k /\ k <= Len(s) - 1 /\ i \in Int /\ Len(s) \in Int
          /\ Len(a) = i - 1 /\ Len(b) = Len(s) - i
      BY ONLY <1>n, <1>5, k \in Int
    <3>1. k \in 1 .. Len(a) + Len(b) /\ (k <= Len(a) <=> k < i)
      BY ONLY <3>0
    <3>2. k < i => k \in 1 .. i - 1
      BY ONLY <3>0
    <3>3. ~ (k < i) => k - Len(a) \in 1 .. Len(s) - i /\ (k - Len(a)) + i = k + 1
      BY ONLY <3>0
    <3> QED BY ONLY <3>1, <3>2, <3>3
  <2>2. (a \o b)[k] = IF k < i THEN a[k] ELSE b[k - Len(a)]
    BY ONLY <1>c, <2>1
  <2>3. k < i => a[k] = s[k]
    BY ONLY <1>2, <2>1
  <2>4. ~ (k < i) => b[k - Len(a)] = s[k + 1]
    BY ONLY <1>3, <2>1
  <2> QED BY ONLY <2>2, <2>3, <2>4
<1>d. DOMAIN (a \o b) = 1 .. Len(s) - 1
  BY <1>4
<1>6. \A k \in DOMAIN (a \o b) : (a \o b)[k] \in ToSet(s)
  <2> SUFFICES ASSUME NEW k \in 1 .. Len(s) - 1 PROVE (a \o b)[k] \in ToSet(s)
    BY <1>d
  <2>1. k \in Int /\ 1 <= k /\ k <= Len(s) - 1 /\ k \in 1 .. Len(s) /\ k + 1 \in 1 .. Len(s)
    BY ONLY <1>n, k \in 1 .. Len(s) - 1
  <2>2. (a \o b)[k] = s[k] \/ (a \o b)[k] = s[k + 1]
    BY <1>5, <2>1
  <2> QED BY <1>1, <2>1, <2>2 DEF ToSet
<1>7. ASSUME NEW k \in DOMAIN s, k # i PROVE \E j \in DOMAIN (a \o b) : (a \o b)[j] = s[k]
  <2>0. k \in Int /\ 1 <= k /\ k <= Len(s) /\ k # i
    BY <1>1, <1>7
  <2>1. CASE k < i
    <3>1. k \in 1 .. Len(s) - 1 /\ 1 <= k /\ k <= Len(s) - 1
      BY ONLY <1>n, <2>0, <2>1
    <3>2. (a \o b)[k] = s[k]
      BY ONLY <1>5, <2>0, <2>1, <3>1
    <3> QED BY ONLY <1>d, <3>1, <3>2
  <2>2. CASE ~ (k < i)
    <3>1. /\ k - 1 \in Int /\ k - 1 \in 1 .. Len(s) - 1 /\ 1 <= k - 1 /\ k - 1 <= Len(s) - 1
          /\ ~ (k - 1 < i) /\ (k - 1) + 1 = k
      BY ONLY <1>n, <2>0, <2>2
    <3>2. (a \o b)[k - 1] = s[k]
      BY ONLY <1>5, <3>1
    <3> QED BY ONLY <1>d, <3>1, <3>2
  <2> QED BY <2>1, <2>2
<1> QED BY <1>4, <1>6, <1>7 DEF RemoveAt, ToSet, a, b

LEMMA NoElements == ASSUME NEW S PROVE <<>> \in Seq(S) /\ ToSet(<<>>) = {}
  BY DEF ToSet

\* The first of some positions
LEMMA First ==
    ASSUME NEW K \in SUBSET Nat, K # {}
    PROVE  (CHOOSE i \in K : \A j \in K : i <= j) \in K
<1>1. \E m \in K : \A i \in K : ~ (<<i, m>> \in OpToRel(<, Nat))
  BY WFMin, NatLessThanWellFounded
<1>2. ASSUME NEW m \in K, NEW i \in K, <<i, m>> \notin OpToRel(<, Nat) PROVE m <= i
  <2>1. i \in Nat /\ m \in Nat
    OBVIOUS
  <2>2. i < m => <<i, m>> \in OpToRel(<, Nat)
    BY <2>1 DEF OpToRel
  <2>3. m <= i \/ i < m
    BY <2>1
  <2> QED BY <1>2, <2>2, <2>3, Zenon
<1>3. \E m \in K : \A i \in K : m <= i
  BY <1>1, <1>2, Zenon
<1> QED BY <1>3, Zenon

\* And the last, if they are bounded
LEMMA Greatest ==
    ASSUME NEW n \in Nat, NEW K \in SUBSET (1 .. n), K # {}
    PROVE  \E m \in K : \A i \in K : i <= m
<1> DEFINE U == {u \in Nat : \A i \in K : i <= u}
<1>0. \A i \in K : i \in Nat /\ 1 <= i /\ i <= n
  OBVIOUS
<1>1. U \in SUBSET Nat /\ U # {}
  BY <1>0
<1>2. PICK m \in U : \A v \in U : ~ (<<v, m>> \in OpToRel(<, Nat))
  BY <1>1, WFMin, NatLessThanWellFounded
<1>3. m \in Nat /\ \A i \in K : i <= m
  BY <1>2
<1>4. m \in K
  <2> SUFFICES ASSUME m \notin K PROVE FALSE
    OBVIOUS
  <2>1. PICK i \in K : TRUE
    OBVIOUS
  <2>2. i # m /\ i <= m /\ 1 <= i /\ i \in Nat
    BY <1>0, <1>3
  <2>3. m - 1 \in Nat
    BY <1>3, <2>2
  <2>4. ASSUME NEW j \in K PROVE j <= m - 1
    <3>1. j \in Nat /\ j <= m /\ j # m
      BY <1>0, <1>3
    <3> QED BY <1>3, <3>1
  <2>5. m - 1 \in U
    BY <2>3, <2>4
  <2>6. <<m - 1, m>> \in OpToRel(<, Nat)
    BY <1>3, <2>3 DEF OpToRel
  <2> QED BY <1>2, <2>5, <2>6
<1> QED BY <1>3, <1>4

LEMMA Concatenated ==
    ASSUME NEW S, NEW s \in Seq(S), NEW t \in Seq(S)
    PROVE  s \o t \in Seq(S) /\ ToSet(s \o t) = ToSet(s) \cup ToSet(t)
<1>1. /\ s \o t \in Seq(S) /\ Len(s \o t) = Len(s) + Len(t)
      /\ \A i \in 1 .. Len(s) + Len(t) :
            (s \o t)[i] = IF i <= Len(s) THEN s[i] ELSE t[i - Len(s)]
  BY ConcatProperties, Zenon
<1>2. Len(s) \in Nat /\ Len(t) \in Nat
  OBVIOUS
<1>3. \A i \in 1 .. Len(s) : i \in 1 .. Len(s) + Len(t) /\ (s \o t)[i] = s[i]
  BY <1>1, <1>2
<1>4. ASSUME NEW i \in 1 .. Len(t)
      PROVE  i + Len(s) \in 1 .. Len(s) + Len(t) /\ (s \o t)[i + Len(s)] = t[i]
  <2>1. /\ i + Len(s) \in 1 .. Len(s) + Len(t) /\ ~ (i + Len(s) <= Len(s))
        /\ i + Len(s) - Len(s) = i
    BY <1>2
  <2> QED BY <1>1, <2>1
<1>5. \A i \in 1 .. Len(s) + Len(t) :
         (i \in 1 .. Len(s) /\ (s \o t)[i] = s[i])
         \/ (i - Len(s) \in 1 .. Len(t) /\ (s \o t)[i] = t[i - Len(s)])
  BY <1>1, <1>2
<1>6. /\ DOMAIN s = 1 .. Len(s) /\ DOMAIN t = 1 .. Len(t)
      /\ DOMAIN (s \o t) = 1 .. Len(s) + Len(t)
  BY <1>1
<1>7. ToSet(s) \subseteq ToSet(s \o t)
  BY <1>3, <1>6, Zenon DEF ToSet
<1>8. ToSet(t) \subseteq ToSet(s \o t)
  BY <1>4, <1>6, Zenon DEF ToSet
<1>9. ToSet(s \o t) \subseteq ToSet(s) \cup ToSet(t)
  BY <1>5, <1>6, Zenon DEF ToSet
<1> QED BY <1>1, <1>7, <1>8, <1>9, Zenon

-----------------------------------------------------------------------------
(* An element that is in a queue at most once *)

Once(q, e) == \A j, k \in DOMAIN q : q[j] = e /\ q[k] = e => j = k

LEMMA TailOnce ==
    ASSUME NEW S, NEW q \in Seq(S), q # <<>>, NEW e, Once(q, e)
    PROVE  /\ Once(Tail(q), e)
           /\ e = Head(q) => e \notin ToSet(Tail(q))
<1>1. \A j \in DOMAIN Tail(q) :
         /\ j \in Nat \ {0} /\ j + 1 \in DOMAIN q
         /\ Tail(q)[j] = q[j + 1]
  OBVIOUS
<1>2. 1 \in DOMAIN q /\ Head(q) = q[1]
  OBVIOUS
<1>3. ASSUME NEW j \in DOMAIN Tail(q), NEW k \in DOMAIN Tail(q), Tail(q)[j] = e, Tail(q)[k] = e
      PROVE  j = k
  <2>1. j + 1 = k + 1
    BY <1>1, <1>3 DEF Once
  <2> QED BY <1>1, <2>1
<1>4. ASSUME NEW j \in DOMAIN Tail(q), e = Head(q)
      PROVE  Tail(q)[j] # e
  <2>1. j + 1 # 1
    BY <1>1
  <2> QED BY <1>1, <1>2, <1>4, <2>1 DEF Once
<1> QED BY <1>3, <1>4 DEF ToSet, Once

LEMMA AppendedOnce ==
    ASSUME NEW S, NEW q \in Seq(S), NEW e, NEW f \in S,
           f = e => e \notin ToSet(q),
           Once(q, e)
    PROVE  Once(Append(q, f), e)
<1>1. \A j \in DOMAIN Append(q, f) :
         \/ j \in DOMAIN q /\ Append(q, f)[j] = q[j]
         \/ j = Len(q) + 1 /\ Append(q, f)[j] = f
  OBVIOUS
<1>2. \A j \in DOMAIN q : f = e => q[j] # e
  BY DEF ToSet
<1> QED BY <1>1, <1>2 DEF Once

LEMMA ConcatenatedOnce ==
    ASSUME NEW S, NEW q \in Seq(S), NEW r \in Seq(S), NEW e,
           e \notin ToSet(q), Once(r, e)
    PROVE  Once(q \o r, e)
<1>1. /\ q \o r \in Seq(S) /\ Len(q \o r) = Len(q) + Len(r)
      /\ \A i \in 1 .. Len(q) + Len(r) :
            (q \o r)[i] = IF i <= Len(q) THEN q[i] ELSE r[i - Len(q)]
  BY ConcatProperties, Zenon
<1>2. /\ DOMAIN (q \o r) = 1 .. Len(q) + Len(r)
      /\ DOMAIN q = 1 .. Len(q) /\ DOMAIN r = 1 .. Len(r) /\ Len(q) \in Nat /\ Len(r) \in Nat
  BY <1>1
<1>3. \A k \in DOMAIN (q \o r) :
         \/ k \in DOMAIN q /\ (q \o r)[k] = q[k]
         \/ k - Len(q) \in DOMAIN r /\ (q \o r)[k] = r[k - Len(q)]
  BY <1>1, <1>2
<1>4. \A k \in DOMAIN q : q[k] # e
  BY DEF ToSet
<1>5. ASSUME NEW j \in DOMAIN (q \o r), NEW k \in DOMAIN (q \o r),
             (q \o r)[j] = e, (q \o r)[k] = e
      PROVE  j = k
  <2>1. j - Len(q) \in DOMAIN r /\ r[j - Len(q)] = e
    BY <1>3, <1>4, <1>5
  <2>2. k - Len(q) \in DOMAIN r /\ r[k - Len(q)] = e
    BY <1>3, <1>4, <1>5
  <2>3. j - Len(q) = k - Len(q)
    BY <2>1, <2>2 DEF Once
  <2>4. j \in Nat /\ k \in Nat
    BY <1>2
  <2> QED BY <1>2, <2>3, <2>4
<1> QED BY <1>5 DEF Once

-----------------------------------------------------------------------------
(* How often an element is in a queue *)

Places(q, e) == {k \in DOMAIN q : q[k] = e}
Copies(q, e) == Cardinality(Places(q, e))

LEMMA CopiesType ==
    ASSUME NEW S, NEW q \in Seq(S), NEW e
    PROVE  IsFiniteSet(Places(q, e)) /\ Copies(q, e) \in Nat
<1>1. Places(q, e) \in SUBSET (1 .. Len(q)) /\ Len(q) \in Nat
  BY DEF Places
<1>2. IsFiniteSet(1 .. Len(q))
  BY <1>1, FS_Interval
<1>3. IsFiniteSet(Places(q, e))
  BY <1>1, <1>2, FS_Subset
<1> QED BY <1>3, FS_CardinalityType DEF Copies

LEMMA TailCopies ==
    ASSUME NEW S, NEW q \in Seq(S), q # <<>>, NEW e
    PROVE  Copies(Tail(q), e) = IF Head(q) = e THEN Copies(q, e) - 1 ELSE Copies(q, e)
<1> DEFINE T == Places(Tail(q), e)
           U == Places(q, e) \ {1}
           f == [k \in T |-> k + 1]
<1>1. \A k \in DOMAIN Tail(q) : k \in Nat \ {0} /\ k + 1 \in DOMAIN q /\ Tail(q)[k] = q[k + 1]
  OBVIOUS
<1>2. \A k \in DOMAIN q : k = 1 \/ (k - 1 \in DOMAIN Tail(q) /\ (k - 1) + 1 = k)
  OBVIOUS
<1>3. f \in [T -> U] /\ \A a, b \in T : f[a] = f[b] => a = b
  <2>1. \A k \in T : k \in Nat \ {0} /\ k + 1 \in U
    BY <1>1 DEF Places
  <2>2. \A a, b \in Nat : a + 1 = b + 1 => a = b
    OBVIOUS
  <2> QED BY <2>1, <2>2
<1>4. \A u \in U : \E t \in T : f[t] = u
  <2> SUFFICES ASSUME NEW u \in U PROVE u - 1 \in T /\ (u - 1) + 1 = u
    OBVIOUS
  <2> QED BY <1>1, <1>2 DEF Places
<1> HIDE DEF f, T, U
<1>5. f \in Bijection(T, U)
  BY <1>3, <1>4, Fun_IsBij
<1>6. ExistsBijection(T, U)
  BY <1>5, Fun_ExistsBij
<1>7. Tail(q) \in Seq(S)
  OBVIOUS
<1>8. Cardinality(U) = Copies(Tail(q), e)
  BY <1>6, <1>7, CopiesType, FS_Bijection DEF Copies, T
<1>9. Cardinality(U) = IF 1 \in Places(q, e) THEN Copies(q, e) - 1 ELSE Copies(q, e)
  BY CopiesType, FS_RemoveElement DEF Copies, U
<1>10. 1 \in Places(q, e) <=> Head(q) = e
  BY DEF Places
<1> QED BY <1>8, <1>9, <1>10

LEMMA AppendedCopies ==
    ASSUME NEW S, NEW q \in Seq(S), NEW f \in S, NEW e
    PROVE  Copies(Append(q, f), e) = IF f = e THEN Copies(q, e) + 1 ELSE Copies(q, e)
<1>1. /\ \A k \in DOMAIN q : k \in DOMAIN Append(q, f) /\ Append(q, f)[k] = q[k]
      /\ \A k \in DOMAIN Append(q, f) : k \in DOMAIN q \/ k = Len(q) + 1
      /\ Len(q) + 1 \in DOMAIN Append(q, f) /\ Append(q, f)[Len(q) + 1] = f
      /\ Len(q) + 1 \notin DOMAIN q
  OBVIOUS
<1>2. CASE f = e
  <2>1. Places(Append(q, f), e) = Places(q, e) \cup {Len(q) + 1}
    BY <1>1, <1>2 DEF Places
  <2>2. Len(q) + 1 \notin Places(q, e)
    BY <1>1 DEF Places
  <2> QED BY <1>2, <2>1, <2>2, CopiesType, FS_AddElement DEF Copies
<1>3. CASE f # e
  <2>1. Places(Append(q, f), e) = Places(q, e)
    BY <1>1, <1>3 DEF Places
  <2> QED BY <1>3, <2>1 DEF Copies
<1> QED BY <1>2, <1>3

LEMMA ConcatenatedPlaces ==
    ASSUME NEW S, NEW q \in Seq(S), NEW r \in Seq(S), NEW e, Places(r, e) = {}
    PROVE  Places(q \o r, e) = Places(q, e)
<1>1. /\ q \o r \in Seq(S) /\ Len(q \o r) = Len(q) + Len(r)
      /\ \A i \in 1 .. Len(q) + Len(r) :
            (q \o r)[i] = IF i <= Len(q) THEN q[i] ELSE r[i - Len(q)]
  BY ConcatProperties, Zenon
<1>2. /\ DOMAIN (q \o r) = 1 .. Len(q) + Len(r)
      /\ DOMAIN q = 1 .. Len(q) /\ DOMAIN r = 1 .. Len(r) /\ Len(q) \in Nat /\ Len(r) \in Nat
  BY <1>1
<1>3. \A k \in DOMAIN (q \o r) :
         \/ k \in DOMAIN q /\ (q \o r)[k] = q[k]
         \/ k \notin DOMAIN q /\ k - Len(q) \in DOMAIN r /\ (q \o r)[k] = r[k - Len(q)]
  BY <1>1, <1>2
<1>4. DOMAIN q \subseteq DOMAIN (q \o r)
  BY <1>2
<1>5. \A k \in DOMAIN r : r[k] # e
  BY DEF Places
<1> QED BY <1>3, <1>4, <1>5 DEF Places

-----------------------------------------------------------------------------
(* Queues with no element, or with one at most, of a kind *)

NoneOf(q, X) == \A k \in DOMAIN q : q[k] \notin X
OneOf(q, X) == \A j, k \in DOMAIN q : q[j] \in X /\ q[k] \in X => j = k

LEMMA FewOfFew ==
    ASSUME NEW X
    PROVE  /\ NoneOf(<<>>, X)
           /\ \A q : NoneOf(q, X) => OneOf(q, X)
           /\ \A e : OneOf(<<e>>, X) /\ (e \notin X => NoneOf(<<e>>, X))
BY DEF NoneOf, OneOf

\* A queue whose elements are those of another, each once, has no more of a kind.
LEMMA Fewer ==
    ASSUME NEW q, NEW r, NEW X, NEW f \in [DOMAIN r -> DOMAIN q],
           \A k \in DOMAIN r : r[k] = q[f[k]],
           \A j, k \in DOMAIN r : f[j] = f[k] => j = k
    PROVE  /\ NoneOf(q, X) => NoneOf(r, X)
           /\ OneOf(q, X) => OneOf(r, X)
           /\ \A i \in DOMAIN q : OneOf(q, X) /\ q[i] \in X /\ (\A k \in DOMAIN r : f[k] # i)
                 => NoneOf(r, X)
BY Zenon DEF NoneOf, OneOf

LEMMA FewerInTail ==
    ASSUME NEW S, NEW q \in Seq(S), q # <<>>, NEW X
    PROVE  /\ NoneOf(q, X) => NoneOf(Tail(q), X) /\ Head(q) \notin X
           /\ OneOf(q, X) => OneOf(Tail(q), X)
           /\ OneOf(q, X) /\ Head(q) \in X => NoneOf(Tail(q), X)
<1> DEFINE f == [k \in DOMAIN Tail(q) |-> k + 1]
<1>1. \A k \in DOMAIN Tail(q) : k \in Nat \ {0} /\ k + 1 \in DOMAIN q /\ Tail(q)[k] = q[k + 1]
  OBVIOUS
<1>2. f \in [DOMAIN Tail(q) -> DOMAIN q]
  BY <1>1
<1>3. \A j, k \in DOMAIN Tail(q) : f[j] = f[k] => j = k
  BY <1>1
<1>4. \A k \in DOMAIN Tail(q) : Tail(q)[k] = q[f[k]]
  BY <1>1
<1>5. \A k \in DOMAIN Tail(q) : f[k] # 1
  BY <1>1
<1>8. 1 \in DOMAIN q /\ Head(q) = q[1]
  OBVIOUS
<1> HIDE DEF f
<1>6. /\ NoneOf(q, X) => NoneOf(Tail(q), X)
      /\ OneOf(q, X) => OneOf(Tail(q), X)
      /\ \A i \in DOMAIN q : OneOf(q, X) /\ q[i] \in X /\ (\A k \in DOMAIN Tail(q) : f[k] # i)
            => NoneOf(Tail(q), X)
  BY <1>2, <1>3, <1>4, Fewer
<1>7. NoneOf(q, X) => Head(q) \notin X
  BY <1>8 DEF NoneOf
<1> QED BY <1>5, <1>6, <1>7, <1>8

LEMMA FewerInPrefix ==
    ASSUME NEW S, NEW q \in Seq(S), NEW n \in 0 .. Len(q), NEW X
    PROVE  /\ NoneOf(q, X) => NoneOf(SubSeq(q, 1, n), X)
           /\ OneOf(q, X) => OneOf(SubSeq(q, 1, n), X)
<1> DEFINE r == SubSeq(q, 1, n)
           f == [k \in DOMAIN r |-> k]
<1>1. r \in Seq(S) /\ Len(r) = n /\ \A k \in 1 .. n : r[k] = q[k]
  BY Prefix
<1>2. DOMAIN r = 1 .. n /\ \A k \in 1 .. n : k \in DOMAIN q
  BY <1>1
<1>3. f \in [DOMAIN r -> DOMAIN q] /\ \A k \in DOMAIN r : r[k] = q[f[k]]
  BY <1>1, <1>2
<1>4. \A j, k \in DOMAIN r : f[j] = f[k] => j = k
  OBVIOUS
<1> HIDE DEF f, r
<1>5. (NoneOf(q, X) => NoneOf(r, X)) /\ (OneOf(q, X) => OneOf(r, X))
  BY <1>3, <1>4, Fewer
<1> QED BY <1>5 DEF r

\* A queue without its i-th element
Dropped(q, i) == SubSeq(q, 1, i - 1) \o SubSeq(q, i + 1, Len(q))

LEMMA DroppedFrom ==
    ASSUME NEW S, NEW q \in Seq(S), NEW i \in DOMAIN q
    PROVE  /\ Dropped(q, i) \in Seq(S) /\ DOMAIN Dropped(q, i) = 1 .. Len(q) - 1
           /\ \A k \in DOMAIN Dropped(q, i) :
                 /\ Dropped(q, i)[k] = q[IF k < i THEN k ELSE k + 1]
                 /\ (IF k < i THEN k ELSE k + 1) \in DOMAIN q
<1> DEFINE a == SubSeq(q, 1, i - 1)
           b == SubSeq(q, i + 1, Len(q))
<1>1. i \in Nat /\ Len(q) \in Nat /\ 1 <= i /\ i <= Len(q) /\ DOMAIN q = 1 .. Len(q)
  OBVIOUS
<1>2. i - 1 \in 0 .. Len(q) /\ i \in 0 .. Len(q)
  BY <1>1
<1>3. a \in Seq(S) /\ Len(a) = i - 1 /\ \A k \in 1 .. i - 1 : a[k] = q[k]
  BY <1>2, Prefix
<1>4. /\ b \in Seq(S) /\ Len(b) = Len(q) - i
      /\ \A k \in 1 .. Len(q) - i : b[k] = q[k + i]
  BY <1>2, Suffix
<1> HIDE DEF a, b
<1>5. /\ a \o b \in Seq(S) /\ Len(a \o b) = Len(a) + Len(b)
      /\ \A k \in 1 .. Len(a) + Len(b) :
            (a \o b)[k] = IF k <= Len(a) THEN a[k] ELSE b[k - Len(a)]
  BY <1>3, <1>4, ConcatProperties, Zenon
<1>6. Len(a) + Len(b) = Len(q) - 1
  BY <1>1, <1>3, <1>4
<1>7. DOMAIN (a \o b) = 1 .. Len(q) - 1
  BY <1>5, <1>6
<1>8. ASSUME NEW k \in 1 .. Len(q) - 1
      PROVE  /\ (a \o b)[k] = q[IF k < i THEN k ELSE k + 1]
             /\ (IF k < i THEN k ELSE k + 1) \in DOMAIN q
  <2>1. k \in Nat /\ 1 <= k /\ k <= Len(q) - 1
    BY <1>1
  <2>2. CASE k < i
    <3>1. k <= Len(a) /\ k \in 1 .. i - 1 /\ k \in 1 .. Len(q)
      BY <1>1, <1>3, <2>1, <2>2
    <3> QED BY <1>1, <1>3, <1>5, <1>6, <2>2, <3>1
  <2>3. CASE ~(k < i)
    <3>1. ~(k <= Len(a)) /\ k - Len(a) \in 1 .. Len(q) - i /\ (k - Len(a)) + i = k + 1
          /\ k + 1 \in 1 .. Len(q)
      BY <1>1, <1>3, <2>1, <2>3
    <3>2. (a \o b)[k] = b[k - Len(a)]
      BY <1>5, <1>6, <3>1
    <3> QED BY <1>1, <1>4, <2>3, <3>1, <3>2
  <2> QED BY <2>2, <2>3
<1>9. Dropped(q, i) = a \o b
  BY DEF Dropped, a, b
<1> QED BY <1>5, <1>7, <1>8, <1>9

LEMMA FewerDropped ==
    ASSUME NEW S, NEW q \in Seq(S), NEW i \in DOMAIN q, NEW X
    PROVE  /\ NoneOf(q, X) => NoneOf(Dropped(q, i), X)
           /\ OneOf(q, X) => OneOf(Dropped(q, i), X)
           /\ OneOf(q, X) /\ q[i] \in X => NoneOf(Dropped(q, i), X)
<1> DEFINE r == Dropped(q, i)
           f == [k \in DOMAIN r |-> IF k < i THEN k ELSE k + 1]
<1>1. /\ DOMAIN r = 1 .. Len(q) - 1 /\ Len(q) \in Nat /\ i \in Nat
      /\ \A k \in DOMAIN r : /\ r[k] = q[IF k < i THEN k ELSE k + 1]
                             /\ (IF k < i THEN k ELSE k + 1) \in DOMAIN q
  BY DroppedFrom
<1>2. f \in [DOMAIN r -> DOMAIN q] /\ \A k \in DOMAIN r : r[k] = q[f[k]]
  BY <1>1
<1>3. \A j, k \in DOMAIN r : f[j] = f[k] => j = k
  BY <1>1
<1>5. \A k \in DOMAIN r : f[k] # i
  BY <1>1
<1> HIDE DEF f, r
<1>4. /\ NoneOf(q, X) => NoneOf(r, X)
      /\ OneOf(q, X) => OneOf(r, X)
      /\ \A j \in DOMAIN q : OneOf(q, X) /\ q[j] \in X /\ (\A k \in DOMAIN r : f[k] # j)
            => NoneOf(r, X)
  BY <1>2, <1>3, Fewer
<1> QED BY <1>4, <1>5 DEF r

LEMMA FewInBoth ==
    ASSUME NEW S, NEW q \in Seq(S), NEW r \in Seq(S), NEW X
    PROVE  /\ NoneOf(q, X) /\ NoneOf(r, X) => NoneOf(q \o r, X)
           /\ OneOf(q, X) /\ NoneOf(r, X) => OneOf(q \o r, X)
           /\ NoneOf(q, X) /\ OneOf(r, X) => OneOf(q \o r, X)
           /\ NoneOf(q \o r, X) => NoneOf(r, X)
<1>1. /\ Len(q \o r) = Len(q) + Len(r)
      /\ \A i \in 1 .. Len(q) + Len(r) :
            (q \o r)[i] = IF i <= Len(q) THEN q[i] ELSE r[i - Len(q)]
  BY ConcatProperties, Zenon
<1>2. /\ DOMAIN (q \o r) = 1 .. Len(q) + Len(r)
      /\ DOMAIN q = 1 .. Len(q) /\ DOMAIN r = 1 .. Len(r) /\ Len(q) \in Nat /\ Len(r) \in Nat
  BY <1>1
<1>3. \A k \in DOMAIN (q \o r) :
         \/ k \in DOMAIN q /\ (q \o r)[k] = q[k]
         \/ k - Len(q) \in DOMAIN r /\ (q \o r)[k] = r[k - Len(q)]
  BY <1>1, <1>2
<1>4. \A j, k \in DOMAIN (q \o r) : j - Len(q) = k - Len(q) => j = k
  BY <1>2
<1>5. \A k \in DOMAIN r : k + Len(q) \in DOMAIN (q \o r) /\ (q \o r)[k + Len(q)] = r[k]
  BY <1>1, <1>2
<1>6. NoneOf(q, X) /\ NoneOf(r, X) => NoneOf(q \o r, X)
  BY <1>3 DEF NoneOf
<1>7. OneOf(q, X) /\ NoneOf(r, X) => OneOf(q \o r, X)
  BY <1>3 DEF NoneOf, OneOf
<1>8. NoneOf(q, X) /\ OneOf(r, X) => OneOf(q \o r, X)
  BY <1>3, <1>4 DEF NoneOf, OneOf
<1>9. NoneOf(q \o r, X) => NoneOf(r, X)
  BY <1>5 DEF NoneOf
<1> QED BY <1>6, <1>7, <1>8, <1>9

LEMMA FewAppended ==
    ASSUME NEW S, NEW q \in Seq(S), NEW e \in S, NEW X
    PROVE  /\ NoneOf(q, X) => OneOf(Append(q, e), X)
           /\ NoneOf(q, X) /\ e \notin X => NoneOf(Append(q, e), X)
           /\ OneOf(q, X) /\ e \notin X => OneOf(Append(q, e), X)
<1>1. \A k \in DOMAIN Append(q, e) :
         \/ k \in DOMAIN q /\ Append(q, e)[k] = q[k]
         \/ k = Len(q) + 1 /\ Append(q, e)[k] = e
  OBVIOUS
<1> QED BY <1>1 DEF NoneOf, OneOf


\* The head and the rest are all the elements.
LEMMA HeadAndTail ==
    ASSUME NEW S, NEW s \in Seq(S), s # <<>>
    PROVE  ToSet(s) = {Head(s)} \cup ToSet(Tail(s))
<1>1. Len(s) \in Nat \ {0} /\ Len(Tail(s)) = Len(s) - 1 /\ DOMAIN s = 1 .. Len(s)
  OBVIOUS
<1>2. /\ Head(s) = s[1] /\ 1 \in DOMAIN s
      /\ \A i \in DOMAIN Tail(s) : i + 1 \in DOMAIN s /\ Tail(s)[i] = s[i + 1]
      /\ \A i \in DOMAIN s : i # 1 => i - 1 \in DOMAIN Tail(s) /\ (i - 1) + 1 = i
  BY <1>1
<1> QED BY <1>2 DEF ToSet
=============================================================================
