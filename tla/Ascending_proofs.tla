---------------------------- MODULE Ascending_proofs ----------------------------
(***************************************************************************)
(* Ascending lists every member of a finite set of integers once, in       *)
(* order.  A member is numbered by how many members are below it.          *)
(***************************************************************************)
EXTENDS Ascending, Sequences, FiniteSetTheorems, SequenceTheorems, TLAPS

(* Different members have different numbers, all below the cardinality.       *)
LEMMA Ranks ==
  ASSUME NEW S \in SUBSET Int, IsFiniteSet(S)
  PROVE  /\ Cardinality(S) \in Nat
         /\ \A i \in S : Cardinality(Below(S, i)) \in 0 .. Cardinality(S) - 1
         /\ \A i, k \in S : i < k => Cardinality(Below(S, i)) < Cardinality(Below(S, k))
<1> DEFINE Lower(i) == Below(S, i)
<1>1. \A i \in S : Lower(i) \in SUBSET S /\ i \notin Lower(i)
  BY DEF Below
<1>2. ASSUME NEW i \in S, NEW k \in S, i < k
      PROVE  Lower(i) \in SUBSET Lower(k) /\ i \in Lower(k)
  <2>1. \A j \in S : j < i => j < k
    BY <1>2
  <2> QED BY <1>2, <2>1 DEF Below
<1>3. \A i \in S : IsFiniteSet(Lower(i)) /\ Cardinality(Lower(i)) \in Nat
  BY <1>1, FS_Subset, FS_CardinalityType
<1>4. Cardinality(S) \in Nat
  BY FS_CardinalityType
<1> HIDE DEF Lower
<1>5. ASSUME NEW i \in S
      PROVE  Cardinality(Lower(i)) \in 0 .. Cardinality(S) - 1
  <2>1. Cardinality(Lower(i)) <= Cardinality(S) /\ Cardinality(Lower(i)) # Cardinality(S)
    BY <1>1, FS_Subset
  <2> QED BY <1>3, <1>4, <2>1
<1>6. ASSUME NEW i \in S, NEW k \in S, i < k
      PROVE  Cardinality(Lower(i)) < Cardinality(Lower(k))
  <2>1. Lower(i) \in SUBSET Lower(k) /\ i \in Lower(k)
    BY <1>2, <1>6
  <2>2. Lower(i) # Lower(k) /\ IsFiniteSet(Lower(k))
    BY <1>1, <1>3, <2>1
  <2>3. Cardinality(Lower(i)) <= Cardinality(Lower(k))
        /\ Cardinality(Lower(i)) # Cardinality(Lower(k))
    BY <2>1, <2>2, FS_Subset
  <2> QED BY <1>3, <2>3
<1> QED BY <1>4, <1>5, <1>6 DEF Lower

(* The numbers of n members are 0 .. n - 1, each taken.                       *)
LEMMA EveryRankTaken ==
  ASSUME NEW S \in SUBSET Int, IsFiniteSet(S), NEW k \in 1 .. Cardinality(S)
  PROVE  \E i \in S : Cardinality(Below(S, i)) = k - 1
<1> DEFINE Number == [i \in S |-> Cardinality(Below(S, i))]
           All    == 0 .. Cardinality(S) - 1
<1>1. /\ Cardinality(S) \in Nat
      /\ \A i \in S : Cardinality(Below(S, i)) \in All
      /\ \A i, j \in S : i < j => Cardinality(Below(S, i)) < Cardinality(Below(S, j))
  BY Ranks
<1>2. ASSUME NEW i \in S, NEW j \in S, Number[i] = Number[j]
      PROVE  i = j
  <2>1. Number[i] \in Int /\ ~ (i < j) /\ ~ (j < i)
    BY <1>1, <1>2
  <2> QED BY <2>1
<1>3. Number \in Injection(S, All)
  BY <1>1, <1>2 DEF Injection, IsInjective
<1>4. IsFiniteSet(All) /\ Cardinality(All) = Cardinality(S)
  <2>1. 0 \in Int /\ Cardinality(S) - 1 \in Int
    BY <1>1
  <2>2. IsFiniteSet(All) /\ Cardinality(All) = IF 0 > Cardinality(S) - 1 THEN 0
                                               ELSE Cardinality(S) - 1 - 0 + 1
    BY <2>1, FS_Interval
  <2> HIDE DEF All
  <2> QED BY <1>1, <2>2
<1>5. k - 1 \in All
  BY <1>1
<1> HIDE DEF Number, All
<1>6. Number \in Surjection(S, All)
  BY <1>3, <1>4, FS_Injection
<1>7. \E i \in S : Number[i] = k - 1
  BY <1>5, <1>6 DEF Surjection
<1> QED BY <1>7 DEF Number

(* The list has each member once, in increasing order.                        *)
LEMMA AscendingProperties ==
  ASSUME NEW S \in SUBSET Int, IsFiniteSet(S)
  PROVE  /\ Cardinality(S) \in Nat
         /\ Ascending(S) \in Seq(S) /\ Len(Ascending(S)) = Cardinality(S)
         /\ \A i \in S : \E k \in 1 .. Cardinality(S) : Ascending(S)[k] = i
         /\ \A k, l \in 1 .. Cardinality(S) : k < l => Ascending(S)[k] < Ascending(S)[l]
<1> DEFINE Rank(i) == Cardinality(Below(S, i))
           Pick(k) == CHOOSE i \in S : Rank(i) = k - 1
           Pos     == 1 .. Cardinality(S)
<1>1. /\ Cardinality(S) \in Nat
      /\ \A i \in S : Rank(i) \in 0 .. Cardinality(S) - 1
      /\ \A i, j \in S : i < j => Rank(i) < Rank(j)
  BY Ranks
<1>2. \A k \in Pos : \E i \in S : Rank(i) = k - 1
  BY EveryRankTaken
<1>3. \A k \in Pos : Pick(k) \in S /\ Rank(Pick(k)) = k - 1
  BY <1>2
<1>4. Ascending(S) = [k \in Pos |-> Pick(k)]
  BY DEF Ascending
<1> HIDE DEF Rank, Pick
<1>5. Ascending(S) \in Seq(S) /\ Len(Ascending(S)) = Cardinality(S)
  BY <1>1, <1>3, <1>4
<1>6. ASSUME NEW i \in S
      PROVE  \E k \in Pos : Ascending(S)[k] = i
  <2> DEFINE k == Rank(i) + 1
  <2>1. k \in Pos /\ Rank(i) = k - 1 /\ Rank(i) \in Int
    BY <1>1
  <2> HIDE DEF k
  <2>2. Pick(k) \in S /\ Rank(Pick(k)) = Rank(i)
    BY <1>3, <2>1
  <2>3. ~ (Pick(k) < i) /\ ~ (i < Pick(k))
    <3>1. ~ (Rank(i) < Rank(i))
      BY <2>1
    <3> QED BY <1>1, <2>2, <3>1
  <2>4. Pick(k) \in Int /\ i \in Int
    BY <2>2
  <2>5. Pick(k) = i
    BY <2>3, <2>4
  <2> QED BY <1>4, <2>1, <2>5
<1>7. ASSUME NEW k \in Pos, NEW l \in Pos, k < l
      PROVE  Ascending(S)[k] < Ascending(S)[l]
  <2>1. Pick(k) \in S /\ Pick(l) \in S /\ Rank(Pick(k)) = k - 1 /\ Rank(Pick(l)) = l - 1
    BY <1>3
  <2>2. Rank(Pick(k)) < Rank(Pick(l)) /\ Rank(Pick(k)) \in Int /\ Rank(Pick(l)) \in Int
    BY <1>1, <1>7, <2>1
  <2>3. Pick(l) < Pick(k) => Rank(Pick(l)) < Rank(Pick(k))
    BY <1>1, <2>1
  <2>4. Pick(k) # Pick(l)
    BY <2>1, <1>7, <1>1
  <2>5. Pick(k) \in Int /\ Pick(l) \in Int
    BY <2>1
  <2>6. ~ (Pick(l) < Pick(k))
    BY <2>2, <2>3
  <2> HIDE DEF Pos
  <2>7. Pick(k) < Pick(l)
    BY <2>4, <2>5, <2>6
  <2> QED BY <1>4, <2>7
<1> QED BY <1>1, <1>5, <1>6, <1>7
=============================================================================
