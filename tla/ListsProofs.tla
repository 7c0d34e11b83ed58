---------------------------- MODULE ListsProofs ----------------------------
(***************************************************************************)
(* What a list is of which some entries are kept.                          *)
(***************************************************************************)
EXTENDS Lists, Functions, FiniteSetTheorems, TLAPS

\* How many kept positions precede k.
Before(kept, k) == Cardinality({j \in kept : j < k})

LEMMA KeptPositions ==
    ASSUME NEW n \in Nat, NEW kept \in SUBSET (1..n)
    PROVE  IsFiniteSet(kept) /\ Cardinality(kept) \in Nat
<1>1. IsFiniteSet(1..n)
    BY FS_Interval
<1>2. IsFiniteSet(kept)
    BY <1>1, FS_Subset
<1> QED
    BY <1>2, FS_CardinalityType

LEMMA BeforeIsRank ==
    ASSUME NEW n \in Nat, NEW kept \in SUBSET (1..n), NEW k \in kept
    PROVE  Before(kept, k) \in 0..(Cardinality(kept) - 1)
<1> DEFINE B == {j \in kept : j < k}
<1>1. B \in SUBSET kept /\ k \notin B
    OBVIOUS
<1>2. IsFiniteSet(kept) /\ Cardinality(kept) \in Nat
    BY KeptPositions
<1>3. IsFiniteSet(B) /\ Cardinality(B) <= Cardinality(kept)
      /\ (Cardinality(B) = Cardinality(kept) => B = kept)
    BY <1>1, <1>2, FS_Subset
<1>4. Cardinality(B) \in Nat
    BY <1>3, FS_CardinalityType
<1> QED
    BY <1>1, <1>2, <1>3, <1>4 DEF Before

LEMMA BeforeIncreases ==
    ASSUME NEW n \in Nat, NEW kept \in SUBSET (1..n), NEW j \in kept, NEW k \in kept, j < k
    PROVE  Before(kept, j) < Before(kept, k)
<1> DEFINE B(x) == {i \in kept : i < x}
<1>0. \A i \in kept : i \in Nat
    OBVIOUS
<1>1. B(j) \in SUBSET B(k)
    <2>1. ASSUME NEW i \in kept, i < j PROVE i < k
        BY <1>0, <2>1
    <2> QED
        BY <2>1
<1>2. j \in B(k) /\ j \notin B(j)
    BY <1>0
<1>3. B(k) \in SUBSET kept
    OBVIOUS
<1>4. IsFiniteSet(B(k))
    BY <1>3, KeptPositions, FS_Subset
<1>5. IsFiniteSet(B(j)) /\ Cardinality(B(j)) <= Cardinality(B(k))
      /\ (Cardinality(B(j)) = Cardinality(B(k)) => B(j) = B(k))
    BY <1>1, <1>4, FS_Subset
<1>6. Cardinality(B(j)) \in Nat /\ Cardinality(B(k)) \in Nat
    BY <1>4, <1>5, FS_CardinalityType
<1> QED
    BY <1>2, <1>5, <1>6 DEF Before

\* So positions of one rank are one position.
LEMMA BeforeIsInjective ==
    ASSUME NEW n \in Nat, NEW kept \in SUBSET (1..n), NEW j \in kept, NEW k \in kept,
           Before(kept, j) = Before(kept, k)
    PROVE  j = k
<1>1. j \in Nat /\ k \in Nat
    OBVIOUS
<1>2. Cardinality(kept) \in Nat
    BY KeptPositions
<1>3. Before(kept, j) \in 0..(Cardinality(kept) - 1)
    BY BeforeIsRank
<1>4. Before(kept, j) \in Nat
    BY <1>2, <1>3
<1>5. CASE j < k
    <2>1. Before(kept, j) < Before(kept, k)
        BY <1>5, BeforeIncreases
    <2> QED
        BY <1>4, <2>1
<1>6. CASE k < j
    <2>1. Before(kept, k) < Before(kept, j)
        BY <1>6, BeforeIncreases
    <2> QED
        BY <1>4, <2>1
<1> QED
    BY <1>1, <1>5, <1>6

\* Every number below Cardinality(kept) is the rank of a kept position.
LEMMA RanksAreTaken ==
    ASSUME NEW n \in Nat, NEW kept \in SUBSET (1..n), NEW i \in 0..(Cardinality(kept) - 1)
    PROVE  \E k \in kept : Before(kept, k) = i
<1> DEFINE T == 0..(Cardinality(kept) - 1)
           rank == [k \in kept |-> Before(kept, k)]
<1>1. IsFiniteSet(kept) /\ Cardinality(kept) \in Nat
    BY KeptPositions
<1>2. IsFiniteSet(T) /\ Cardinality(T) = Cardinality(kept)
    BY <1>1, FS_Interval
<1>3. rank \in [kept -> T]
    BY BeforeIsRank
<1>4. ASSUME NEW j \in kept, NEW k \in kept, rank[j] = rank[k] PROVE j = k
    BY <1>4, BeforeIsInjective
<1>5. rank \in Injection(kept, T)
    BY <1>3, <1>4 DEF Injection, IsInjective
<1>6. rank \in Surjection(kept, T)
    BY <1>2, <1>5, FS_Injection
<1>7. PICK k \in kept : rank[k] = i
    BY <1>6 DEF Surjection
<1> QED
    BY <1>7

\* The i-th entry that is left is that of a kept position, later ones of later
\* positions, and every kept position is among them.
THEOREM KeptInOrder ==
    ASSUME NEW S, NEW s \in Seq(S), NEW kept \in SUBSET DOMAIN s
    PROVE  \E at \in [1..Cardinality(kept) -> kept] :
            /\ Kept(s, kept) = [i \in 1..Cardinality(kept) |-> s[at[i]]]
            /\ \A i, j \in 1..Cardinality(kept) : i < j => at[i] < at[j]
            /\ \A k \in kept : \E i \in 1..Cardinality(kept) : at[i] = k
<1> DEFINE C == Cardinality(kept)
           at == [i \in 1..C |-> CHOOSE k \in kept : Before(kept, k) = i - 1]
<1>0. Len(s) \in Nat /\ DOMAIN s = 1..Len(s)
    OBVIOUS
<1>1. C \in Nat
    BY <1>0, KeptPositions
<1>2. ASSUME NEW i \in 1..C PROVE at[i] \in kept /\ Before(kept, at[i]) = i - 1
    <2>1. i - 1 \in 0..(C - 1)
        BY <1>1
    <2>2. \E k \in kept : Before(kept, k) = i - 1
        BY <1>0, <2>1, RanksAreTaken
    <2> QED
        BY <2>2
<1>3. ASSUME NEW i \in 1..C, NEW j \in 1..C, i < j PROVE at[i] < at[j]
    <2>1. at[i] \in Nat /\ at[j] \in Nat
        BY <1>0, <1>2
    <2>2. ~(Before(kept, at[j]) <= Before(kept, at[i]))
        BY <1>1, <1>2, <1>3
    <2>3. at[i] # at[j]
        BY <1>1, <1>2, <1>3
    <2>4. ~(at[j] < at[i])
        <3> SUFFICES ASSUME at[j] < at[i] PROVE FALSE
            OBVIOUS
        <3>1. Before(kept, at[j]) < Before(kept, at[i])
            BY <1>0, <1>2, BeforeIncreases
        <3> QED
            BY <1>1, <1>2, <1>3, <3>1
    <2> QED
        BY <2>1, <2>3, <2>4
<1>4. ASSUME NEW k \in kept PROVE \E i \in 1..C : at[i] = k
    <2>1. Before(kept, k) \in 0..(C - 1)
        BY <1>0, BeforeIsRank
    <2>2. PICK i \in 1..C : i - 1 = Before(kept, k)
        <3>1. Before(kept, k) + 1 \in 1..C /\ (Before(kept, k) + 1) - 1 = Before(kept, k)
            BY <1>1, <2>1
        <3> QED
            BY <3>1
    <2>3. at[i] \in kept /\ Before(kept, at[i]) = Before(kept, k)
        BY <1>2, <2>2
    <2> HIDE DEF at
    <2> QED
        BY <1>0, <2>3, BeforeIsInjective
<1>5. at \in [1..C -> kept]
    BY <1>2
<1>6. Kept(s, kept) = [i \in 1..C |-> s[at[i]]]
    BY DEF Kept, Before
<1> HIDE DEF at
<1> QED
    BY <1>3, <1>4, <1>5, <1>6

\* What is left is a list of as many entries as positions were kept, has the
\* entries of those positions and no others, and each of them as often as it
\* was kept.
THEOREM KeptEntries ==
    ASSUME NEW S, NEW s \in Seq(S), NEW kept \in SUBSET DOMAIN s
    PROVE  /\ Kept(s, kept) \in Seq(S)
           /\ Len(Kept(s, kept)) = Cardinality(kept)
           /\ Range(Kept(s, kept)) = {s[k] : k \in kept}
           /\ \A v : Cardinality({i \in DOMAIN Kept(s, kept) : Kept(s, kept)[i] = v})
                        = Cardinality({k \in kept : s[k] = v})
<1> DEFINE C == Cardinality(kept)
<1>0. Len(s) \in Nat /\ DOMAIN s = 1..Len(s) /\ s \in [1..Len(s) -> S]
    OBVIOUS
<1>1. C \in Nat
    BY <1>0, KeptPositions
<1>2. PICK at \in [1..C -> kept] :
            /\ Kept(s, kept) = [i \in 1..C |-> s[at[i]]]
            /\ \A i, j \in 1..C : i < j => at[i] < at[j]
            /\ \A k \in kept : \E i \in 1..C : at[i] = k
    BY KeptInOrder
<1> HIDE DEF C
<1>3. Kept(s, kept) \in [1..C -> S]
    BY <1>0, <1>2
<1>4. Kept(s, kept) \in Seq(S) /\ Len(Kept(s, kept)) = C
    BY <1>1, <1>3
<1>5. ASSUME NEW v
      PROVE  Cardinality({i \in 1..C : s[at[i]] = v}) = Cardinality({k \in kept : s[k] = v})
    <2> DEFINE I == {i \in 1..C : s[at[i]] = v}
               K == {k \in kept : s[k] = v}
               f == [i \in I |-> at[i]]
    <2>1. IsFiniteSet(I)
        BY <1>1, FS_Interval, FS_Subset
    <2>2. f \in [I -> K]
        BY <1>2
    <2>3. ASSUME NEW i \in I, NEW j \in I, f[i] = f[j] PROVE i = j
        <3>1. i \in 1..C /\ j \in 1..C /\ at[i] = at[j]
            BY <2>3
        <3>2. at[i] \in Nat
            BY <1>0, <1>2, <3>1
        <3>3. ~(i < j) /\ ~(j < i)
            BY <1>2, <3>1, <3>2
        <3> QED
            BY <1>1, <3>1, <3>3
    <2>4. ASSUME NEW k \in K PROVE \E i \in I : f[i] = k
        BY <1>2
    <2>5. f \in Bijection(I, K)
        BY <2>2, <2>3, <2>4 DEF Bijection, Injection, Surjection, IsInjective
    <2> HIDE DEF f, I, K
    <2>6. Cardinality(K) = Cardinality(I)
        BY <2>1, <2>5, FS_Bijection DEF ExistsBijection
    <2> QED
        BY <2>6 DEF I, K
<1>6. DOMAIN Kept(s, kept) = 1..C /\ \A i \in 1..C : Kept(s, kept)[i] = s[at[i]]
    BY <1>2
<1>7. ASSUME NEW v
      PROVE  {i \in DOMAIN Kept(s, kept) : Kept(s, kept)[i] = v} = {i \in 1..C : s[at[i]] = v}
    BY <1>6
<1>8. Range(Kept(s, kept)) = {s[k] : k \in kept}
    BY <1>2, <1>6 DEF Range
<1> QED
    BY <1>4, <1>5, <1>7, <1>8 DEF C

\* Nothing changes when everything is kept.
THEOREM KeptAll ==
    ASSUME NEW S, NEW s \in Seq(S)
    PROVE  Kept(s, DOMAIN s) = s
<1>0. Len(s) \in Nat /\ DOMAIN s = 1..Len(s)
    OBVIOUS
<1>1. Cardinality(DOMAIN s) = Len(s)
    BY <1>0, FS_Interval
<1>2. ASSUME NEW k \in DOMAIN s PROVE Cardinality({j \in DOMAIN s : j < k}) = k - 1
    <2>1. {j \in DOMAIN s : j < k} = 1..(k - 1)
        BY <1>0
    <2>2. Cardinality(1..(k - 1)) = k - 1
        BY <1>0, FS_Interval
    <2> QED
        BY <2>1, <2>2
<1>3. ASSUME NEW i \in DOMAIN s
      PROVE (CHOOSE k \in DOMAIN s : Cardinality({j \in DOMAIN s : j < k}) = i - 1) = i
    <2> DEFINE c == CHOOSE k \in DOMAIN s : Cardinality({j \in DOMAIN s : j < k}) = i - 1
    <2>1. \E k \in DOMAIN s : Cardinality({j \in DOMAIN s : j < k}) = i - 1
        BY <1>2
    <2>2. c \in DOMAIN s /\ Cardinality({j \in DOMAIN s : j < c}) = i - 1
        BY <2>1
    <2> HIDE DEF c
    <2>3. c - 1 = i - 1
        BY <1>2, <2>2
    <2>4. c \in Nat /\ i \in Nat
        BY <1>0, <2>2
    <2>5. c = i
        BY <2>3, <2>4
    <2> QED
        BY <2>5 DEF c
<1> DEFINE at(i) == CHOOSE k \in DOMAIN s : Cardinality({j \in DOMAIN s : j < k}) = i - 1
<1>4. Kept(s, DOMAIN s) = [i \in 1..Len(s) |-> s[at(i)]]
    BY <1>1 DEF Kept
<1>5. \A i \in 1..Len(s) : at(i) = i
    BY <1>0, <1>3
<1> HIDE DEF at
<1>6. Kept(s, DOMAIN s) = [i \in 1..Len(s) |-> s[i]]
    BY <1>4, <1>5
<1> QED
    BY <1>0, <1>6

\* Of the positions with some property one is the last.
LEMMA LastPosition ==
    ASSUME NEW n \in Nat, NEW kept \in SUBSET (1..n), kept # {}
    PROVE  \E k \in kept : \A j \in kept : j <= k
<1> DEFINE C == Cardinality(kept)
<1>1. IsFiniteSet(kept) /\ C \in Nat /\ C # 0
    BY KeptPositions, FS_EmptySet
<1>2. PICK k \in kept : Before(kept, k) = C - 1
    BY <1>1, RanksAreTaken
<1>3. ASSUME NEW j \in kept PROVE ~(k < j)
    <2> SUFFICES ASSUME k < j PROVE FALSE
        OBVIOUS
    <2>1. Before(kept, k) < Before(kept, j)
        BY BeforeIncreases
    <2>2. Before(kept, j) \in 0..(C - 1)
        BY BeforeIsRank
    <2> QED
        BY <1>1, <1>2, <2>1, <2>2
<1> QED
    BY <1>3
=============================================================================
