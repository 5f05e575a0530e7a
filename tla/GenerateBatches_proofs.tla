------------------------ MODULE GenerateBatches_proofs ------------------------
(***************************************************************************)
(* Proofs about GenerateBatches and the sequential path it falls back to,  *)
(* FirstFit: whichever path produced them, the batches hold every net once *)
(* and survive the replay, and the sequential path is greedy, for every    *)
(* number of nets, every footprint and every result of the GPU path.  Both *)
(* paths mark the same cells, on a grid of any size.                       *)
(***************************************************************************)
EXTENDS MCGenerateBatches, FiniteSetTheorems, SequenceTheorems, NaturalsInduction,
        WellFoundedInduction, TLAPS

(* bs lists each net below placed once, batch by batch in ascending order, and *)
(* no net covers the points of a later one of its batch.  Both paths keep it.  *)
Listed(bs, placed) ==
  \A n \in Net : n < placed => \E i \in 1 .. Len(bs) : \E k \in 1 .. Len(bs[i]) : bs[i][k] = n

Ascending(bs) ==
  \A i \in 1 .. Len(bs) : \A k, l \in 1 .. Len(bs[i]) : k < l => bs[i][k] < bs[i][l]

InOneBatch(bs) ==
  \A i, j \in 1 .. Len(bs) : \A k \in 1 .. Len(bs[i]) : \A l \in 1 .. Len(bs[j]) :
    bs[i][k] = bs[j][l] => i = j

ConflictFree(bs) ==
  \A i \in 1 .. Len(bs) : \A k, l \in 1 .. Len(bs[i]) :
    k < l => footprint[bs[i][k]].marks \cap footprint[bs[i][l]].points = {}

Lists(bs, placed) ==
  /\ bs \in Seq(Seq(Net))
  /\ \A i \in 1 .. Len(bs) : \A k \in 1 .. Len(bs[i]) : bs[i][k] < placed
  /\ Listed(bs, placed) /\ Ascending(bs) /\ InOneBatch(bs) /\ ConflictFree(bs)

NoneEmpty(bs) == \A i \in 1 .. Len(bs) : bs[i] # <<>>
-----------------------------------------------------------------------------
(* One more net at the end of batch i.                                        *)
LEMMA NetAppended ==
  ASSUME NEW bs, NEW n \in Net, Lists(bs, n), NEW i \in 1 .. Len(bs),
         \A k \in 1 .. Len(bs[i]) : footprint[bs[i][k]].marks \cap footprint[n].points = {}
  PROVE  Lists([bs EXCEPT ![i] = Append(@, n)], n + 1)
<1> DEFINE new  == [bs EXCEPT ![i] = Append(@, n)]
           last == Len(bs[i]) + 1
<1>1. bs \in Seq(Seq(Net)) /\ n \in Nat /\ Net \subseteq Nat
  BY FirstFitAssumption DEF Lists, Net
<1>2. bs[i] \in Seq(Net) /\ Len(bs[i]) \in Nat
  BY <1>1, ElementOfSeq, LenProperties
<1>3. /\ Append(bs[i], n) \in Seq(Net) /\ Len(Append(bs[i], n)) = last
      /\ \A k \in 1 .. Len(bs[i]) : Append(bs[i], n)[k] = bs[i][k]
      /\ Append(bs[i], n)[last] = n
  BY <1>2, AppendProperties
<1>4. /\ new \in Seq(Seq(Net)) /\ Len(new) = Len(bs)
      /\ \A j \in 1 .. Len(bs) : new[j] = IF j = i THEN Append(bs[i], n) ELSE bs[j]
  BY <1>1, <1>3, ExceptSeq
<1>5. /\ Len(new[i]) = last /\ new[i][last] = n
      /\ \A k \in 1 .. Len(bs[i]) : new[i][k] = bs[i][k]
      /\ \A j \in 1 .. Len(bs) : j # i => new[j] = bs[j]
  BY <1>3, <1>4
<1>6. /\ \A k \in 1 .. last : k \in 1 .. Len(bs[i]) \/ k = last
      /\ last \in 1 .. last /\ \A k \in 1 .. Len(bs[i]) : k \in 1 .. last /\ k < last
  BY <1>2
<1> HIDE DEF new, last
<1>7. \A j \in 1 .. Len(bs) : \A k \in 1 .. Len(new[j]) :
        (j = i /\ k = last /\ new[j][k] = n)
        \/ (k \in 1 .. Len(bs[j]) /\ new[j][k] = bs[j][k] /\ ~ (j = i /\ k = last))
  BY <1>2, <1>5, <1>6
<1>8. \A j \in 1 .. Len(bs) : \A k \in 1 .. Len(bs[j]) :
        k \in 1 .. Len(new[j]) /\ new[j][k] = bs[j][k]
  BY <1>5, <1>6
<1>9. \A j \in 1 .. Len(bs) : \A k \in 1 .. Len(bs[j]) : bs[j][k] < n /\ bs[j][k] \in Nat
  <2> SUFFICES ASSUME NEW j \in 1 .. Len(bs), NEW k \in 1 .. Len(bs[j])
               PROVE  bs[j][k] < n /\ bs[j][k] \in Nat
    OBVIOUS
  <2>1. bs[j] \in Seq(Net)
    BY <1>1, ElementOfSeq
  <2> QED BY <1>1, <2>1, ElementOfSeq DEF Lists
<1>10. \A j \in 1 .. Len(new) : \A k \in 1 .. Len(new[j]) : new[j][k] < n + 1
  <2> SUFFICES ASSUME NEW j \in 1 .. Len(bs), NEW k \in 1 .. Len(new[j])
               PROVE  new[j][k] < n + 1
    BY <1>4
  <2>1. \A m \in Nat : m < n \/ m = n => m < n + 1
    BY <1>1
  <2>2. CASE new[j][k] = n
    BY <1>1, <2>1, <2>2
  <2>3. CASE k \in 1 .. Len(bs[j]) /\ new[j][k] = bs[j][k]
    BY <1>9, <2>1, <2>3
  <2> QED BY <1>7, <2>2, <2>3
<1>11. Listed(new, n + 1)
  <2> SUFFICES ASSUME NEW m \in Net, m < n + 1
               PROVE  \E j \in 1 .. Len(new) : \E k \in 1 .. Len(new[j]) : new[j][k] = m
    BY DEF Listed
  <2>1. CASE m = n
    BY <1>4, <1>5, <1>6, <2>1
  <2>2. CASE m # n
    <3>1. m < n
      BY <1>1, <2>2
    <3>2. PICK j \in 1 .. Len(bs) : \E k \in 1 .. Len(bs[j]) : bs[j][k] = m
      BY <3>1 DEF Lists, Listed
    <3> QED BY <1>4, <1>8, <3>2
  <2> QED BY <2>1, <2>2
<1>12. Ascending(new)
  <2> SUFFICES ASSUME NEW j \in 1 .. Len(new), NEW k \in 1 .. Len(new[j]),
                      NEW l \in 1 .. Len(new[j]), k < l
               PROVE  new[j][k] < new[j][l]
    BY DEF Ascending
  <2>1. ~ (j = i /\ k = last)
    BY <1>2, <1>5, <1>6
  <2>2. j \in 1 .. Len(bs) /\ k \in 1 .. Len(bs[j]) /\ new[j][k] = bs[j][k]
    BY <1>4, <1>7, <2>1
  <2> QED BY <1>7, <1>9, <2>2 DEF Lists, Ascending
<1>13. InOneBatch(new)
  <2> SUFFICES ASSUME NEW j \in 1 .. Len(bs), NEW m \in 1 .. Len(bs),
                      NEW k \in 1 .. Len(new[j]), NEW l \in 1 .. Len(new[m]),
                      new[j][k] = new[m][l]
               PROVE  j = m
    BY <1>4 DEF InOneBatch
  <2>01. ~ (j = i /\ k = last) => bs[j][k] = new[j][k] /\ new[j][k] < n
    BY <1>7, <1>9
  <2>02. ~ (m = i /\ l = last) => bs[m][l] = new[m][l] /\ new[m][l] < n
    BY <1>7, <1>9
  <2>0. /\ ~ (j = i /\ k = last) => bs[j][k] = new[j][k] /\ new[j][k] < n
        /\ ~ (m = i /\ l = last) => bs[m][l] = new[m][l] /\ new[m][l] < n
        /\ ~ (n < n)
    BY <1>1, <2>01, <2>02
  <2>1. CASE j = i /\ k = last
    <3>1. new[j][k] = n
      BY <1>5, <2>1
    <3> QED BY <2>0, <2>1, <3>1
  <2>2. CASE m = i /\ l = last
    <3>1. new[m][l] = n
      BY <1>5, <2>2
    <3> QED BY <2>0, <2>2, <3>1
  <2>3. CASE ~ (j = i /\ k = last) /\ ~ (m = i /\ l = last)
    BY <1>7, <2>3 DEF Lists, InOneBatch
  <2> QED BY <2>1, <2>2, <2>3
<1>14. ConflictFree(new)
  <2> SUFFICES ASSUME NEW j \in 1 .. Len(new), NEW k \in 1 .. Len(new[j]),
                      NEW l \in 1 .. Len(new[j]), k < l
               PROVE  footprint[new[j][k]].marks \cap footprint[new[j][l]].points = {}
    BY DEF ConflictFree
  <2>1. ~ (j = i /\ k = last)
    BY <1>2, <1>5, <1>6
  <2>2. j \in 1 .. Len(bs) /\ k \in 1 .. Len(bs[j]) /\ new[j][k] = bs[j][k]
    BY <1>4, <1>7, <2>1
  <2> QED BY <1>7, <2>2 DEF Lists, ConflictFree
<1> QED BY <1>4, <1>10, <1>11, <1>12, <1>13, <1>14 DEF Lists, new

(* A net that opens a batch of its own.                                       *)
LEMMA BatchAppended ==
  ASSUME NEW bs, NEW n \in Net, Lists(bs, n)
  PROVE  Lists(Append(bs, <<n>>), n + 1)
<1> DEFINE new  == Append(bs, <<n>>)
           last == Len(bs) + 1
<1>1. bs \in Seq(Seq(Net)) /\ n \in Nat /\ Net \subseteq Nat /\ Len(bs) \in Nat
  BY FirstFitAssumption, LenProperties DEF Lists, Net
<1>2. <<n>> \in Seq(Net) /\ Len(<<n>>) = 1 /\ <<n>>[1] = n
  OBVIOUS
<1>3. /\ new \in Seq(Seq(Net)) /\ Len(new) = last /\ new[last] = <<n>>
      /\ \A j \in 1 .. Len(bs) : new[j] = bs[j]
  BY <1>1, <1>2, AppendProperties
<1>4. /\ \A j \in 1 .. last : j \in 1 .. Len(bs) \/ j = last
      /\ last \in 1 .. last /\ \A j \in 1 .. Len(bs) : j \in 1 .. last /\ j # last
  BY <1>1
<1> HIDE DEF new, last
<1>5. Len(new[last]) = 1 /\ new[last][1] = n /\ \A k \in 1 .. Len(new[last]) : k = 1
  BY <1>2, <1>3
<1>6. \A j \in 1 .. Len(bs) : \A k \in 1 .. Len(bs[j]) : bs[j][k] < n /\ bs[j][k] \in Nat
  <2> SUFFICES ASSUME NEW j \in 1 .. Len(bs), NEW k \in 1 .. Len(bs[j])
               PROVE  bs[j][k] < n /\ bs[j][k] \in Nat
    OBVIOUS
  <2>1. bs[j] \in Seq(Net)
    BY <1>1, ElementOfSeq
  <2> QED BY <1>1, <2>1, ElementOfSeq DEF Lists
<1>7. \A j \in 1 .. last : \A k \in 1 .. Len(new[j]) :
        \/ j = last /\ k = 1 /\ new[j][k] = n
        \/ j # last /\ j \in 1 .. Len(bs) /\ new[j] = bs[j] /\ new[j][k] < n /\ new[j][k] \in Nat
  BY <1>3, <1>4, <1>5, <1>6
<1>70. \A j \in 1 .. Len(new) : \A k \in 1 .. Len(new[j]) : new[j][k] < n + 1
  BY <1>1, <1>3, <1>7
<1>8. Listed(new, n + 1)
  <2> SUFFICES ASSUME NEW m \in Net, m < n + 1
               PROVE  \E j \in 1 .. Len(new) : \E k \in 1 .. Len(new[j]) : new[j][k] = m
    BY DEF Listed
  <2>1. CASE m = n
    <3>1. 1 \in 1 .. Len(new[last]) /\ new[last][1] = m
      BY <1>5, <2>1
    <3> QED BY <1>3, <1>4, <3>1
  <2>2. CASE m # n
    <3>1. m < n
      BY <1>1, <2>2
    <3>2. PICK j \in 1 .. Len(bs) : \E k \in 1 .. Len(bs[j]) : bs[j][k] = m
      BY <3>1 DEF Lists, Listed
    <3> QED BY <1>3, <1>4, <3>2
  <2> QED BY <2>1, <2>2
<1>9. Ascending(new) /\ ConflictFree(new)
  <2> SUFFICES ASSUME NEW j \in 1 .. Len(new), NEW k \in 1 .. Len(new[j]),
                      NEW l \in 1 .. Len(new[j]), k < l
               PROVE  /\ new[j][k] < new[j][l]
                      /\ footprint[new[j][k]].marks \cap footprint[new[j][l]].points = {}
    BY DEF Ascending, ConflictFree
  <2>1. j # last
    <3>1. j = last => k = 1 /\ l = 1
      BY <1>5
    <3> QED BY <3>1
  <2>2. j \in 1 .. Len(bs) /\ new[j] = bs[j]
    BY <1>3, <1>4, <2>1
  <2> QED BY <2>2 DEF Lists, Ascending, ConflictFree
<1>10. InOneBatch(new)
  <2> SUFFICES ASSUME NEW j \in 1 .. last, NEW m \in 1 .. last,
                      NEW k \in 1 .. Len(new[j]), NEW l \in 1 .. Len(new[m]),
                      new[j][k] = new[m][l]
               PROVE  j = m
    BY <1>3 DEF InOneBatch
  <2>1. /\ j = last => new[j][k] = n
        /\ m = last => new[m][l] = n
        /\ j # last => j \in 1 .. Len(bs) /\ new[j] = bs[j] /\ new[j][k] < n
        /\ m # last => m \in 1 .. Len(bs) /\ new[m] = bs[m] /\ new[m][l] < n
        /\ ~ (n < n)
    BY <1>1, <1>7
  <2>2. CASE j = last \/ m = last
    BY <2>1, <2>2
  <2>3. CASE j # last /\ m # last
    BY <2>1, <2>3 DEF Lists, InOneBatch
  <2> QED BY <2>2, <2>3
<1> QED BY <1>3, <1>70, <1>8, <1>9, <1>10 DEF Lists, new

LEMMA UpTo ==
  ASSUME NEW n \in Nat
  PROVE  /\ IsFiniteSet(1 .. n) /\ Cardinality(1 .. n) = n
         /\ IsFiniteSet(0 .. n - 1) /\ Cardinality(0 .. n - 1) = n
  BY FS_Interval

(* A batch has as many nets as it is long.                                    *)
LEMMA BatchSize ==
  ASSUME NEW bs, NEW n, Lists(bs, n), NEW i \in 1 .. Len(bs)
  PROVE  /\ Elems(bs[i]) \subseteq Net /\ IsFiniteSet(Elems(bs[i]))
         /\ Cardinality(Elems(bs[i])) = Len(bs[i])
         /\ Len(bs[i]) \in Nat /\ DOMAIN bs[i] = 1 .. Len(bs[i])
<1> DEFINE s == bs[i]
<1>1. s \in Seq(Net) /\ Len(s) \in Nat /\ DOMAIN s = 1 .. Len(s)
      /\ s \in [1 .. Len(s) -> Net] /\ Net \subseteq Nat
  BY ElementOfSeq, LenProperties, FirstFitAssumption DEF Lists, Net
<1>2. \A k, l \in 1 .. Len(s) : k # l => s[k] # s[l]
  <2> SUFFICES ASSUME NEW k \in 1 .. Len(s), NEW l \in 1 .. Len(s), k < l
               PROVE  s[k] # s[l]
    BY <1>1
  <2>1. s[k] < s[l] /\ s[k] \in Nat
    BY <1>1 DEF Lists, Ascending
  <2> QED BY <2>1
<1> HIDE DEF s
<1>3. s \in Bijection(1 .. Len(s), Elems(s))
  <2>1. s \in [1 .. Len(s) -> Elems(s)]
    BY <1>1 DEF Elems
  <2>2. \A x \in Elems(s) : \E k \in 1 .. Len(s) : s[k] = x
    BY <1>1 DEF Elems
  <2> QED BY <1>2, <2>1, <2>2 DEF Bijection, Injection, Surjection, IsInjective
<1>4. IsFiniteSet(1 .. Len(s)) /\ Cardinality(1 .. Len(s)) = Len(s)
  BY <1>1, UpTo
<1>5. IsFiniteSet(Elems(s)) /\ Cardinality(Elems(s)) = Len(s)
  BY <1>3, <1>4, FS_Bijection DEF ExistsBijection
<1> QED BY <1>1, <1>5 DEF s, Elems
-----------------------------------------------------------------------------
(* The sequential path: the lists, their maps and the greedy choice.          *)
AllMarks == UNION {f.marks : f \in Footprints}

MapsMatch ==
  /\ batch_vis \in Seq(SUBSET AllMarks) /\ Len(batch_vis) = Len(batches)
  /\ \A i \in 1 .. Len(batches) :
       batch_vis[i] = UNION {footprint[batches[i][k]].marks : k \in 1 .. Len(batches[i])}

\* batch i has no room for n, or one of its nets covers a point of n
TurnedAway(i, n) ==
  \/ Cardinality({m \in Elems(batches[i]) : m < n}) >= MAX_BATCH_SIZE
  \/ \E m \in Elems(batches[i]) :
       m < n /\ footprint[m].marks \cap footprint[n].points # {}

Greedy ==
  \A i, j \in 1 .. Len(batches) : \A k \in 1 .. Len(batches[j]) :
    i < j => TurnedAway(i, batches[j][k])

FirstFitInv ==
  /\ footprint \in [Net -> Footprints] /\ next \in 0 .. NetCnt
  /\ Lists(batches, next) /\ NoneEmpty(batches) /\ MapsMatch /\ Greedy

LEMMA LeastExists ==
  ASSUME NEW S \in SUBSET Nat, S # {}
  PROVE  \E x \in S : \A y \in S : x <= y
<1>1. IsWellFoundedOn(OpToRel(<, Nat), Nat)
  BY NatLessThanWellFounded
<1>2. PICK x \in S : \A y \in S : ~ (<<y, x>> \in OpToRel(<, Nat))
  BY <1>1, WFMin
<1>3. \A y \in S : ~ (y < x)
  BY <1>2 DEF OpToRel
<1> QED BY <1>3

(* The batch chosen is the first that takes the net, or a new one.            *)
LEMMA BatchForIsFirst ==
  ASSUME FirstFitInv, NEW n
  PROVE  /\ BatchFor(n) \in Candidates(n) \/ BatchFor(n) = Len(batches) + 1
         /\ BatchFor(n) \in 1 .. Len(batches) + 1
         /\ \A i \in 1 .. Len(batches) : i < BatchFor(n) => i \notin Candidates(n)
<1>1. /\ Len(batches) \in Nat /\ DOMAIN batches = 1 .. Len(batches)
      /\ Candidates(n) \subseteq 1 .. Len(batches) /\ Candidates(n) \in SUBSET Nat
  BY LenProperties DEF FirstFitInv, Lists, Candidates
<1>2. CASE Candidates(n) = {}
  BY <1>1, <1>2 DEF BatchFor
<1>3. CASE Candidates(n) # {}
  <2>1. \E i \in Candidates(n) : \A j \in Candidates(n) : i <= j
    BY <1>1, <1>3, LeastExists
  <2>2. BatchFor(n) \in Candidates(n) /\ \A j \in Candidates(n) : BatchFor(n) <= j
    BY <1>3, <2>1 DEF BatchFor
  <2> QED BY <1>1, <2>2
<1> QED BY <1>2, <1>3

(* A batch passed over is full, or covers a point of the net.                 *)
LEMMA PassedOver ==
  ASSUME FirstFitInv, NEW n \in Net, n = next, NEW i \in 1 .. Len(batches),
         i \notin Candidates(n)
  PROVE  TurnedAway(i, n)
<1>1. /\ DOMAIN batches = 1 .. Len(batches) /\ n \in Nat /\ Net \subseteq Nat
      /\ Lists(batches, n) /\ MAX_BATCH_SIZE \in Nat
  BY LenProperties, FirstFitAssumption DEF FirstFitInv, Lists, Net
<1>2. /\ Cardinality(Elems(batches[i])) = Len(batches[i]) /\ Len(batches[i]) \in Nat
      /\ DOMAIN batches[i] = 1 .. Len(batches[i])
  BY <1>1, BatchSize
<1>3. \A m \in Elems(batches[i]) : m < n
  BY <1>1, <1>2 DEF Lists, Elems
<1>4. CASE Len(batches[i]) >= MAX_BATCH_SIZE
  <2>1. {m \in Elems(batches[i]) : m < n} = Elems(batches[i])
    BY <1>3
  <2> QED BY <1>2, <1>4, <2>1 DEF TurnedAway
<1>5. CASE footprint[n].points \cap batch_vis[i] # {}
  <2>1. PICK c \in footprint[n].points : c \in batch_vis[i]
    BY <1>5
  <2>2. PICK k \in 1 .. Len(batches[i]) : c \in footprint[batches[i][k]].marks
    BY <2>1 DEF FirstFitInv, MapsMatch
  <2>3. batches[i][k] \in Elems(batches[i])
    BY <1>2 DEF Elems
  <2> QED BY <1>3, <2>1, <2>2, <2>3 DEF TurnedAway
<1> QED BY <1>1, <1>2, <1>4, <1>5 DEF Candidates

(* What a step of the sequential path does to the batches.                    *)
LEMMA StepAppends ==
  ASSUME FirstFitInv, FirstFitStep, NEW i, i = BatchFor(next)
  PROVE  /\ next \in Net /\ i \in 1 .. Len(batches) + 1
         /\ batches' \in Seq(Seq(Net)) /\ i \in 1 .. Len(batches')
         /\ Len(batches') = IF i = Len(batches) + 1 THEN i ELSE Len(batches)
         /\ batches'[i] \in Seq(Net)
         /\ batches'[i] = IF i = Len(batches) + 1 THEN <<next>> ELSE Append(batches[i], next)
         /\ \A j \in 1 .. Len(batches) : j # i => batches'[j] = batches[j]
         /\ \A j \in 1 .. Len(batches') : j # i => j \in 1 .. Len(batches)
<1>1. /\ batches \in Seq(Seq(Net)) /\ Len(batches) \in Nat /\ NetCnt \in Nat
      /\ next \in Net /\ i \in 1 .. Len(batches) + 1
      /\ DOMAIN batches = 1 .. Len(batches)
  BY FirstFitAssumption, LenProperties, BatchForIsFirst DEF FirstFitInv, FirstFitStep, Lists, Net
<1>2. CASE i = Len(batches) + 1
  <2>1. batches' = Append(batches, <<next>>)
    BY <1>2 DEF FirstFitStep
  <2>2. <<next>> \in Seq(Net)
    BY <1>1
  <2>3. /\ batches' \in Seq(Seq(Net)) /\ Len(batches') = Len(batches) + 1
        /\ batches'[Len(batches) + 1] = <<next>>
        /\ \A j \in 1 .. Len(batches) : batches'[j] = batches[j]
    BY <1>1, <2>1, <2>2, AppendProperties
  <2> QED BY <1>1, <1>2, <2>2, <2>3
<1>3. CASE i # Len(batches) + 1
  <2>0. batches' = [batches EXCEPT ![i] = Append(@, next)]
    BY <1>3 DEF FirstFitStep
  <2>1. i \in 1 .. Len(batches) /\ batches' = [batches EXCEPT ![i] = Append(batches[i], next)]
    BY <1>1, <1>3, <2>0
  <2>2. Append(batches[i], next) \in Seq(Net)
    BY <1>1, <2>1, ElementOfSeq, AppendProperties
  <2>3. /\ batches' \in Seq(Seq(Net)) /\ Len(batches') = Len(batches)
        /\ \A j \in 1 .. Len(batches) :
             batches'[j] = IF j = i THEN Append(batches[i], next) ELSE batches[j]
    BY <1>1, <2>1, <2>2, ExceptSeq
  <2> QED BY <1>1, <1>3, <2>1, <2>2, <2>3
<1> QED BY <1>2, <1>3

LEMMA MapsStayMatched ==
  ASSUME FirstFitInv, FirstFitStep, UNCHANGED footprint
  PROVE  MapsMatch'
<1> DEFINE i == BatchFor(next)
<1>1. /\ next \in Net /\ i \in 1 .. Len(batches) + 1 /\ i \in 1 .. Len(batches')
      /\ batches \in Seq(Seq(Net)) /\ Len(batches) \in Nat
      /\ Len(batches') = IF i = Len(batches) + 1 THEN i ELSE Len(batches)
      /\ batches'[i] = IF i = Len(batches) + 1 THEN <<next>> ELSE Append(batches[i], next)
      /\ \A j \in 1 .. Len(batches) : j # i => batches'[j] = batches[j]
      /\ \A j \in 1 .. Len(batches') : j # i => j \in 1 .. Len(batches)
  BY StepAppends, LenProperties DEF FirstFitInv, Lists
<1> DEFINE marks == footprint[next].marks
<1>2. marks \in SUBSET AllMarks
  BY <1>1 DEF FirstFitInv, AllMarks
<1>3. /\ batch_vis' = IF i = Len(batches) + 1 THEN Append(batch_vis, marks)
                      ELSE [batch_vis EXCEPT ![i] = @ \cup marks]
      /\ batch_vis \in Seq(SUBSET AllMarks) /\ Len(batch_vis) = Len(batches)
      /\ \A j \in 1 .. Len(batches) :
           batch_vis[j] = UNION {footprint[batches[j][k]].marks : k \in 1 .. Len(batches[j])}
  BY DEF FirstFitStep, FirstFitInv, MapsMatch
<1> HIDE DEF i, marks
<1>4. CASE i = Len(batches) + 1
  <2>1. /\ batch_vis' \in Seq(SUBSET AllMarks) /\ Len(batch_vis') = Len(batches')
        /\ batch_vis'[i] = marks
        /\ \A j \in 1 .. Len(batches) : batch_vis'[j] = batch_vis[j]
    <3>1. batch_vis' = Append(batch_vis, marks)
      BY <1>3, <1>4
    <3> QED BY <1>1, <1>2, <1>3, <1>4, <3>1, AppendProperties
  <2>2. batch_vis'[i] = UNION {footprint[batches'[i][k]].marks : k \in 1 .. Len(batches'[i])}
    <3>1. batches'[i] = <<next>> /\ Len(<<next>>) = 1 /\ <<next>>[1] = next
      BY <1>1, <1>4
    <3>2. {footprint[batches'[i][k]].marks : k \in 1 .. Len(batches'[i])} = {marks}
      BY <3>1 DEF marks
    <3> QED BY <2>1, <3>2
  <2>3. ASSUME NEW j \in 1 .. Len(batches')
        PROVE  batch_vis'[j] =
                 UNION {footprint[batches'[j][k]].marks : k \in 1 .. Len(batches'[j])}
    <3>1. CASE j = i
      BY <2>2, <3>1
    <3>2. CASE j # i
      <4>1. j \in 1 .. Len(batches) /\ batches'[j] = batches[j] /\ batch_vis'[j] = batch_vis[j]
        BY <1>1, <2>1, <3>2
      <4>2. batch_vis[j] = UNION {footprint[batches[j][k]].marks : k \in 1 .. Len(batches[j])}
        BY <1>3, <4>1
      <4> QED BY <4>1, <4>2, Zenon
    <3> QED BY <3>1, <3>2
  <2> QED BY <2>1, <2>3 DEF MapsMatch
<1>5. CASE i # Len(batches) + 1
  <2>0. i \in 1 .. Len(batches)
    BY <1>1, <1>5
  <2>1. /\ batch_vis' \in Seq(SUBSET AllMarks) /\ Len(batch_vis') = Len(batches')
        /\ batch_vis'[i] = batch_vis[i] \cup marks
        /\ \A j \in 1 .. Len(batches) : j # i => batch_vis'[j] = batch_vis[j]
    <3>1. batch_vis' = [batch_vis EXCEPT ![i] = batch_vis[i] \cup marks]
      BY <1>3, <1>5
    <3>2. batch_vis[i] \cup marks \in SUBSET AllMarks
      BY <1>2, <1>3, <2>0, ElementOfSeq
    <3> QED BY <1>1, <1>3, <1>5, <2>0, <3>1, <3>2, ExceptSeq
  <2>2. batch_vis'[i] = UNION {footprint[batches'[i][k]].marks : k \in 1 .. Len(batches'[i])}
    <3>1. batches[i] \in Seq(Net) /\ Len(batches[i]) \in Nat
      BY <1>1, <2>0, ElementOfSeq, LenProperties
    <3>2. /\ Len(batches'[i]) = Len(batches[i]) + 1
          /\ batches'[i][Len(batches[i]) + 1] = next
          /\ \A k \in 1 .. Len(batches[i]) : batches'[i][k] = batches[i][k]
      BY <1>1, <1>5, <3>1, AppendProperties
    <3>3. /\ Len(batches[i]) + 1 \in 1 .. Len(batches'[i])
          /\ \A k \in 1 .. Len(batches[i]) : k \in 1 .. Len(batches'[i])
          /\ \A k \in 1 .. Len(batches'[i]) :
               k \in 1 .. Len(batches[i]) \/ k = Len(batches[i]) + 1
      BY <3>1, <3>2
    <3>4. ASSUME NEW c
          PROVE  c \in batch_vis'[i] <=>
                   \E k \in 1 .. Len(batches'[i]) : c \in footprint[batches'[i][k]].marks
      <4>1. c \in batch_vis[i] <=>
              \E k \in 1 .. Len(batches[i]) : c \in footprint[batches[i][k]].marks
        BY <1>3, <2>0
      <4> QED BY <2>1, <3>2, <3>3, <4>1 DEF marks
    <3> QED BY <3>4
  <2>3. ASSUME NEW j \in 1 .. Len(batches')
        PROVE  batch_vis'[j] =
                 UNION {footprint[batches'[j][k]].marks : k \in 1 .. Len(batches'[j])}
    <3>1. CASE j = i
      BY <2>2, <3>1
    <3>2. CASE j # i
      <4>1. j \in 1 .. Len(batches) /\ batches'[j] = batches[j] /\ batch_vis'[j] = batch_vis[j]
        BY <1>1, <2>1, <3>2
      <4>2. batch_vis[j] = UNION {footprint[batches[j][k]].marks : k \in 1 .. Len(batches[j])}
        BY <1>3, <4>1
      <4> QED BY <4>1, <4>2, Zenon
    <3> QED BY <3>1, <3>2
  <2> QED BY <2>1, <2>3 DEF MapsMatch
<1> QED BY <1>4, <1>5

LEMMA StaysGreedy ==
  ASSUME FirstFitInv, FirstFitStep, UNCHANGED footprint, Lists(batches', next + 1)
  PROVE  Greedy'
<1> DEFINE i == BatchFor(next)
           L == Len(batches)
<1>1. /\ next \in Net /\ next \in Nat /\ Net \subseteq Nat /\ i \in 1 .. L + 1
      /\ L \in Nat /\ Lists(batches, next)
      /\ Len(batches') = IF i = L + 1 THEN i ELSE L
      /\ batches'[i] = IF i = L + 1 THEN <<next>> ELSE Append(batches[i], next)
      /\ \A j \in 1 .. L : j # i => batches'[j] = batches[j]
      /\ \A j \in 1 .. Len(batches') : j # i => j \in 1 .. L
  BY StepAppends, LenProperties, FirstFitAssumption DEF FirstFitInv, Lists, Net
<1>2. \A j \in 1 .. L : j < i => j \notin Candidates(next)
  BY BatchForIsFirst
<1> HIDE DEF i, L
<1>3. \A j \in 1 .. Len(batches') : \A k \in 1 .. Len(batches'[j]) :
        \/ j = i /\ batches'[j][k] = next
        \/ j \in 1 .. L /\ k \in 1 .. Len(batches[j]) /\ batches'[j][k] = batches[j][k]
  <2> SUFFICES ASSUME NEW j \in 1 .. Len(batches'), NEW k \in 1 .. Len(batches'[j]),
                      j = i
               PROVE  \/ batches'[j][k] = next
                      \/ j \in 1 .. L /\ k \in 1 .. Len(batches[j])
                         /\ batches'[j][k] = batches[j][k]
    BY <1>1
  <2>1. CASE i = L + 1
    <3>1. batches'[i] = <<next>> /\ Len(<<next>>) = 1 /\ <<next>>[1] = next
      BY <1>1, <2>1
    <3> QED BY <3>1
  <2>2. CASE i # L + 1
    <3>1. i \in 1 .. L /\ batches'[i] = Append(batches[i], next)
      BY <1>1, <2>2
    <3>2. batches[i] \in Seq(Net) /\ Len(batches[i]) \in Nat
      BY <1>1, <3>1, ElementOfSeq, LenProperties DEF Lists, L
    <3>3. /\ Len(batches'[i]) = Len(batches[i]) + 1
          /\ batches'[i][Len(batches[i]) + 1] = next
          /\ \A l \in 1 .. Len(batches[i]) : batches'[i][l] = batches[i][l]
      BY <1>1, <3>1, <3>2, AppendProperties
    <3> QED BY <3>1, <3>2, <3>3
  <2> QED BY <2>1, <2>2
<1>4. ASSUME NEW j \in 1 .. L
      PROVE  /\ Elems(batches[j]) \subseteq Elems(batches'[j])
             /\ Elems(batches'[j]) \subseteq Elems(batches[j]) \cup {next}
             /\ \A m \in Elems(batches[j]) : m < next /\ m \in Nat
  <2>1. /\ DOMAIN batches[j] = 1 .. Len(batches[j]) /\ Elems(batches[j]) \subseteq Net
        /\ Len(batches[j]) \in Nat /\ j \in 1 .. Len(batches')
    BY <1>1, BatchSize DEF L
  <2>2. DOMAIN batches'[j] = 1 .. Len(batches'[j])
    BY <2>1, BatchSize
  <2>3. \A m \in Elems(batches[j]) : m < next /\ m \in Nat
    BY <1>1, <2>1 DEF Lists, Elems, L
  <2>4. Elems(batches'[j]) \subseteq Elems(batches[j]) \cup {next}
    BY <1>3, <2>1, <2>2 DEF Elems
  <2>5. Elems(batches[j]) \subseteq Elems(batches'[j])
    <3>1. CASE j # i
      BY <1>1, <3>1
    <3>2. CASE j = i
      <4>0. i # L + 1
        BY <1>1, <3>2
      <4>1. batches'[j] = Append(batches[j], next) /\ batches[j] \in Seq(Net)
        BY <1>1, <3>2, <4>0, ElementOfSeq DEF Lists, L
      <4>2. /\ Len(batches'[j]) = Len(batches[j]) + 1
            /\ \A k \in 1 .. Len(batches[j]) : batches'[j][k] = batches[j][k]
        BY <1>1, <4>1, AppendProperties
      <4> QED BY <2>1, <2>2, <4>2 DEF Elems
    <3> QED BY <3>1, <3>2
  <2> QED BY <2>3, <2>4, <2>5
<1>5. ASSUME NEW j \in 1 .. L, NEW m \in Nat, m <= next, TurnedAway(j, m)
      PROVE  TurnedAway(j, m)'
  <2>0. ~ (next < m)
    BY <1>1, <1>5
  <2>1. {x \in Elems(batches'[j]) : x < m} = {x \in Elems(batches[j]) : x < m}
    <3> DEFINE new == Elems(batches'[j])
               old == Elems(batches[j])
    <3>1. old \subseteq new /\ new \subseteq old \cup {next}
      BY <1>4
    <3>2. next < m => FALSE
      BY <2>0
    <3> HIDE DEF new, old
    <3>3. {x \in new : x < m} = {x \in old : x < m}
      BY <3>1, <3>2
    <3> QED BY <3>3 DEF new, old
  <2>2. \A x \in Elems(batches[j]) : x \in Elems(batches'[j])
    BY <1>4
  <2> QED BY <2>1, <2>2, <1>5 DEF TurnedAway
<1>6. ASSUME NEW a \in 1 .. Len(batches'), NEW j \in 1 .. Len(batches'),
             NEW k \in 1 .. Len(batches'[j]), a < j, NEW m, m = batches'[j][k]
      PROVE  TurnedAway(a, m)'
  <2>1. CASE j = i /\ m = next
    <3>1. a \in 1 .. L /\ a \notin Candidates(next)
      BY <1>1, <1>2, <1>6, <2>1
    <3>2. TurnedAway(a, next)
      BY <1>1, <3>1, PassedOver DEF L
    <3> QED BY <1>1, <1>5, <2>1, <3>1, <3>2
  <2>2. CASE j \in 1 .. L /\ k \in 1 .. Len(batches[j]) /\ m = batches[j][k]
    <3>1. a \in 1 .. L
      BY <1>1, <1>6, <2>2
    <3>2. TurnedAway(a, m)
      BY <1>6, <2>2, <3>1 DEF FirstFitInv, Greedy, L
    <3>3. m \in Elems(batches[j])
      BY <1>1, <2>2, BatchSize DEF Elems, L
    <3>30. m \in Nat /\ m < next
      BY <1>4, <2>2, <3>3
    <3>4. m \in Nat /\ m <= next
      BY <1>1, <3>30
    <3> QED BY <1>5, <3>1, <3>2, <3>4
  <2> QED BY <1>3, <1>6, <2>1, <2>2
<1>7. ASSUME NEW a \in 1 .. Len(batches'), NEW j \in 1 .. Len(batches'),
             NEW k \in 1 .. Len(batches'[j]), a < j
      PROVE  TurnedAway(a, batches[j][k])'
  BY <1>6, <1>7 DEF TurnedAway
<1> QED BY <1>7, Zenon DEF Greedy

LEMMA FirstFitKeeps ==
  ASSUME FirstFitInv, FirstFitStep, UNCHANGED footprint
  PROVE  FirstFitInv'
<1> DEFINE i == BatchFor(next)
<1>1. /\ next \in Net /\ i \in 1 .. Len(batches) + 1 /\ Lists(batches, next)
      /\ i \in 1 .. Len(batches')
      /\ batches'[i] = IF i = Len(batches) + 1 THEN <<next>> ELSE Append(batches[i], next)
      /\ \A j \in 1 .. Len(batches) : j # i => batches'[j] = batches[j]
      /\ \A j \in 1 .. Len(batches') : j # i => j \in 1 .. Len(batches)
      /\ next' = next + 1 /\ next' \in 0 .. NetCnt
  BY StepAppends, FirstFitAssumption DEF FirstFitInv, FirstFitStep, Net
<1>2. Lists(batches', next + 1)
  <2>1. CASE i = Len(batches) + 1
    <3>1. batches' = Append(batches, <<next>>)
      BY <2>1 DEF FirstFitStep
    <3> QED BY <1>1, <3>1, BatchAppended
  <2>2. CASE i # Len(batches) + 1
    <3>1. i \in Candidates(next) /\ batches' = [batches EXCEPT ![i] = Append(@, next)]
      BY <2>2, BatchForIsFirst DEF FirstFitStep
    <3>2. i \in 1 .. Len(batches)
      BY <1>1, <2>2, LenProperties DEF Lists
    <3>3. \A k \in 1 .. Len(batches[i]) :
            footprint[batches[i][k]].marks \cap footprint[next].points = {}
      <4>1. footprint[next].points \cap batch_vis[i] = {}
        BY <3>1 DEF Candidates
      <4>2. batch_vis[i] = UNION {footprint[batches[i][k]].marks : k \in 1 .. Len(batches[i])}
        BY <3>2 DEF FirstFitInv, MapsMatch
      <4> QED BY <4>1, <4>2
    <3> QED BY <1>1, <3>1, <3>2, <3>3, NetAppended
  <2> QED BY <2>1, <2>2
<1>3. Lists(batches, next)'
  BY <1>1, <1>2 DEF Lists, ConflictFree
<1>4. NoneEmpty(batches)'
  <2>1. batches'[i] # <<>>
    <3>1. CASE i = Len(batches) + 1
      BY <1>1, <3>1
    <3>2. CASE i # Len(batches) + 1
      <4>1. batches[i] \in Seq(Net)
        BY <1>1, <3>2, LenProperties, ElementOfSeq DEF Lists
      <4> QED BY <1>1, <3>2, <4>1, AppendProperties
    <3> QED BY <3>1, <3>2
  <2> QED BY <1>1, <2>1 DEF NoneEmpty, FirstFitInv
<1> QED BY <1>1, <1>2, <1>3, <1>4, MapsStayMatched, StaysGreedy DEF FirstFitInv
-----------------------------------------------------------------------------
(* The sequential path implements BatchPartition.  A net listed is in one     *)
(* batch only, and there are no more batches than nets.                       *)
LEMMA BatchFound ==
  ASSUME NEW bs, NEW placed \in Nat, Lists(bs, placed), NEW n \in Net
  PROVE  /\ DOMAIN bs = 1 .. Len(bs)
         /\ \A j \in DOMAIN bs : n \in Elems(bs[j]) =>
              n < placed /\ (CHOOSE i \in DOMAIN bs : n \in Elems(bs[i])) = j
         /\ n < placed => \E j \in DOMAIN bs : n \in Elems(bs[j])
<1>1. DOMAIN bs = 1 .. Len(bs)
  BY LenProperties DEF Lists
<1>2. \A j \in DOMAIN bs : Elems(bs[j]) = {bs[j][k] : k \in 1 .. Len(bs[j])}
  BY <1>1, BatchSize DEF Elems
<1>3. ASSUME NEW j \in DOMAIN bs, n \in Elems(bs[j])
      PROVE  n < placed /\ (CHOOSE i \in DOMAIN bs : n \in Elems(bs[i])) = j
  <2> DEFINE i == CHOOSE i \in DOMAIN bs : n \in Elems(bs[i])
  <2>1. i \in DOMAIN bs /\ n \in Elems(bs[i])
    BY <1>3
  <2> HIDE DEF i
  <2>2. PICK k \in 1 .. Len(bs[j]) : n = bs[j][k]
    BY <1>2, <1>3
  <2>3. PICK l \in 1 .. Len(bs[i]) : n = bs[i][l]
    BY <1>2, <2>1
  <2>4. i = j
    BY <1>1, <2>1, <2>2, <2>3 DEF Lists, InOneBatch
  <2>5. n < placed
    BY <1>1, <2>2 DEF Lists
  <2> QED BY <2>4, <2>5 DEF i
<1>4. n < placed => \E j \in DOMAIN bs : n \in Elems(bs[j])
  <2> SUFFICES ASSUME n < placed PROVE \E j \in DOMAIN bs : n \in Elems(bs[j])
    OBVIOUS
  <2>1. PICK j \in 1 .. Len(bs) : \E k \in 1 .. Len(bs[j]) : bs[j][k] = n
    BY DEF Lists, Listed
  <2> QED BY <1>1, <1>2, <2>1
<1> QED BY <1>1, <1>3, <1>4

LEMMA FewBatches ==
  ASSUME FirstFitInv
  PROVE  Len(batches) <= next
<1> DEFINE f == [j \in 1 .. Len(batches) |-> batches[j][1]]
<1>1. /\ Len(batches) \in Nat /\ next \in Nat /\ Net \subseteq Nat
      /\ Lists(batches, next)
  BY LenProperties, FirstFitAssumption DEF FirstFitInv, Lists, Net
<1>2. ASSUME NEW j \in 1 .. Len(batches)
      PROVE  1 \in 1 .. Len(batches[j]) /\ f[j] \in 0 .. next - 1
  <2>1. /\ batches[j] \in Seq(Net) /\ batches[j] # <<>> /\ Len(batches[j]) \in Nat
    BY <1>1, ElementOfSeq, LenProperties DEF FirstFitInv, Lists, NoneEmpty
  <2>2. 1 \in 1 .. Len(batches[j])
    BY <2>1, EmptySeq
  <2>3. batches[j][1] \in Net /\ batches[j][1] < next
    BY <1>1, <2>1, <2>2, ElementOfSeq DEF Lists
  <2>4. batches[j][1] \in 0 .. next - 1
    BY <1>1, <2>3, FirstFitAssumption DEF Net
  <2> QED BY <2>2, <2>4
<1>3. f \in Injection(1 .. Len(batches), 0 .. next - 1)
  <2>1. \A i, j \in 1 .. Len(batches) : f[i] = f[j] => i = j
    BY <1>1, <1>2 DEF Lists, InOneBatch
  <2> QED BY <1>2, <2>1 DEF Injection, IsInjective
<1>4. /\ IsFiniteSet(0 .. next - 1) /\ Cardinality(0 .. next - 1) = next
      /\ Cardinality(1 .. Len(batches)) = Len(batches)
  BY <1>1, UpTo
<1> HIDE DEF f
<1> QED BY <1>3, <1>4, FS_Injection

LEMMA StepPlacesOne ==
  ASSUME FirstFitInv, FirstFitStep, UNCHANGED footprint
  PROVE  Partition!Next
<1> DEFINE i == BatchFor(next)
           L == Len(batches)
           Before == [n \in Net |-> BatchOf(n)]
           After  == [n \in Net |-> BatchOf(n)']
<1>1. /\ next \in Net /\ i \in 1 .. L + 1 /\ i \in 1 .. Len(batches') /\ L \in Nat
      /\ Lists(batches, next) /\ next \in Nat /\ next' = next + 1 /\ Net \subseteq Nat
      /\ batches'[i] = IF i = L + 1 THEN <<next>> ELSE Append(batches[i], next)
      /\ \A j \in 1 .. L : j # i => batches'[j] = batches[j]
      /\ NetCnt \in Nat /\ L <= Len(batches') /\ MAX_BATCH_SIZE \in Nat \ {0}
  BY StepAppends, LenProperties, FirstFitAssumption DEF FirstFitInv, FirstFitStep, Lists, Net
<1>2. Lists(batches', next + 1)
  <2>1. Lists(batches, next)'
    BY FirstFitKeeps DEF FirstFitInv
  <2> QED BY <1>1, <2>1 DEF Lists, ConflictFree
<1>3. /\ DOMAIN batches = 1 .. L /\ DOMAIN batches' = 1 .. Len(batches')
      /\ next + 1 \in Nat
  BY <1>1, <1>2, BatchFound
<1>4. ASSUME NEW j \in 1 .. L
      PROVE  Elems(batches[j]) \subseteq Elems(batches'[j])
  <2>1. CASE j # i
    BY <1>1, <2>1
  <2>2. CASE j = i
    <3>0. i # L + 1
      BY <1>1, <2>2
    <3>1. /\ batches[j] \in Seq(Net) /\ next \in Net
          /\ batches'[j] = Append(batches[j], next)
      BY <1>1, <2>2, <3>0, ElementOfSeq DEF Lists
    <3>2. /\ Len(batches'[j]) = Len(batches[j]) + 1 /\ Len(batches[j]) \in Nat
          /\ \A k \in 1 .. Len(batches[j]) : batches'[j][k] = batches[j][k]
      BY <3>1, AppendProperties, LenProperties
    <3>3. DOMAIN batches'[j] = 1 .. Len(batches'[j]) /\ DOMAIN batches[j] = 1 .. Len(batches[j])
      BY <1>1, <1>2, <2>2, BatchSize
    <3> QED BY <3>2, <3>3 DEF Elems
  <2> QED BY <2>1, <2>2
<1>5. next \in Elems(batches'[i])
  <2>1. CASE i = L + 1
    <3>1. batches'[i] = <<next>> /\ DOMAIN <<next>> = {1} /\ <<next>>[1] = next
      BY <1>1, <2>1
    <3> QED BY <3>1 DEF Elems
  <2>2. CASE i # L + 1
    <3>1. /\ batches[i] \in Seq(Net) /\ next \in Net
          /\ batches'[i] = Append(batches[i], next)
      BY <1>1, <2>2, ElementOfSeq DEF Lists
    <3>2. /\ Len(batches'[i]) = Len(batches[i]) + 1 /\ Len(batches[i]) \in Nat
          /\ batches'[i][Len(batches[i]) + 1] = next
      BY <3>1, AppendProperties, LenProperties
    <3>3. DOMAIN batches'[i] = 1 .. Len(batches'[i])
      BY <1>1, <1>2, BatchSize
    <3> QED BY <3>2, <3>3 DEF Elems
  <2> QED BY <2>1, <2>2
<1> HIDE DEF i, L
<1>6. /\ Before[next] = -1
      /\ \A n \in Net, j \in 1 .. L : n \in Elems(batches[j]) => n < next /\ Before[n] = j - 1
      /\ \A n \in Net : Before[n] >= 0 => \E j \in 1 .. L : n \in Elems(batches[j])
  <2>1. BatchOf(next) = -1
    BY <1>1 DEF BatchOf
  <2>2. ASSUME NEW n \in Net, NEW j \in 1 .. L, n \in Elems(batches[j])
        PROVE  n < next /\ BatchOf(n) = j - 1
    <3>1. n < next /\ (CHOOSE k \in DOMAIN batches : n \in Elems(batches[k])) = j
      BY <1>1, <1>3, <2>2, BatchFound
    <3>2. ~ (n >= next)
      BY <1>1, <3>1
    <3> QED BY <3>1, <3>2 DEF BatchOf
  <2>3. ASSUME NEW n \in Net, BatchOf(n) >= 0
        PROVE  \E j \in 1 .. L : n \in Elems(batches[j])
    <3>1. n < next
      BY <1>1, <2>3 DEF BatchOf
    <3> QED BY <1>1, <1>3, <3>1, BatchFound
  <2> QED BY <1>1, <2>1, <2>2, <2>3
<1>7. \A n \in Net : After[n] = IF n = next THEN i - 1 ELSE Before[n]
  <2> SUFFICES ASSUME NEW n \in Net
               PROVE  BatchOf(n)' = IF n = next THEN i - 1 ELSE BatchOf(n)
    OBVIOUS
  <2>1. CASE n >= next /\ n # next
    BY <1>1, <2>1 DEF BatchOf
  <2>2. CASE n = next
    <3>0. n \in Elems(batches'[i]) /\ i \in DOMAIN batches'
      BY <1>1, <1>3, <1>5, <2>2
    <3>1. (CHOOSE k \in DOMAIN batches' : n \in Elems(batches'[k])) = i
      BY <1>2, <1>3, <3>0, BatchFound
    <3>2. ~ (n >= next + 1)
      BY <1>1, <2>2
    <3>3. BatchOf(n)' = i - 1
      BY <1>1, <3>1, <3>2 DEF BatchOf, Elems
    <3> QED BY <2>2, <3>3
  <2>3. CASE n < next
    <3>1. PICK j \in 1 .. L : n \in Elems(batches[j])
      BY <1>1, <1>3, <2>3, BatchFound
    <3>2. n \in Elems(batches'[j]) /\ j \in DOMAIN batches'
      BY <1>1, <1>3, <1>4, <3>1
    <3>3. (CHOOSE k \in DOMAIN batches' : n \in Elems(batches'[k])) = j
      BY <1>2, <1>3, <3>2, BatchFound
    <3>4. ~ (n >= next + 1) /\ n # next
      BY <1>1, <2>3
    <3>5. BatchOf(n)' = j - 1
      BY <1>1, <3>3, <3>4 DEF BatchOf, Elems
    <3>6. BatchOf(n) = j - 1
      BY <1>6, <3>1
    <3> QED BY <3>4, <3>5, <3>6
  <2> QED BY <1>1, <2>1, <2>2, <2>3
<1>8. i - 1 \in 0 .. NetCnt - 1
  <2>1. L <= next
    BY FewBatches DEF L
  <2> QED BY <1>1, <2>1 DEF Net
<1>9. \A lower \in 0 .. i - 2 : \E n \in Net : Before[n] = lower
  <2> SUFFICES ASSUME NEW lower \in 0 .. i - 2 PROVE \E n \in Net : Before[n] = lower
    OBVIOUS
  <2>1. lower + 1 \in 1 .. L
    BY <1>1
  <2>2. batches[lower + 1] \in Seq(Net) /\ batches[lower + 1] # <<>>
    BY <1>1, <2>1, ElementOfSeq DEF FirstFitInv, Lists, NoneEmpty, L
  <2>3. 1 \in DOMAIN batches[lower + 1]
    BY <2>2, EmptySeq, LenProperties
  <2>4. PICK n \in Net : n \in Elems(batches[lower + 1])
    BY <2>2, <2>3, LenProperties, ElementOfSeq DEF Elems
  <2>5. Before[n] = lower + 1 - 1
    BY <1>6, <2>1, <2>4
  <2> QED BY <2>5
<1>10. /\ Cardinality({n \in Net : Before[n] = i - 1}) < MAX_BATCH_SIZE
       /\ \A m \in Net : Before[m] = i - 1 =>
            m < next /\ footprint[m].marks \cap footprint[next].points = {}
  <2>1. \A m \in Net : Before[m] = i - 1 => i \in 1 .. L /\ m \in Elems(batches[i])
    <3> SUFFICES ASSUME NEW m \in Net, Before[m] = i - 1
                 PROVE  i \in 1 .. L /\ m \in Elems(batches[i])
      OBVIOUS
    <3>1. Before[m] >= 0
      BY <1>1
    <3>2. PICK j \in 1 .. L : m \in Elems(batches[j])
      BY <1>6, <3>1
    <3>3. Before[m] = j - 1
      BY <1>6, <3>2
    <3> QED BY <1>1, <3>2, <3>3
  <2>2. CASE i = L + 1
    <3>1. i \notin 1 .. L
      BY <1>1, <2>2
    <3>2. {n \in Net : Before[n] = i - 1} = {}
      BY <2>1, <3>1
    <3>3. Cardinality({}) = 0
      BY FS_EmptySet
    <3> DEFINE members == {n \in Net : Before[n] = i - 1}
    <3>30. members = {}
      BY <3>2
    <3> HIDE DEF members
    <3>31. Cardinality(members) < MAX_BATCH_SIZE
      BY <1>1, <3>3, <3>30
    <3>4. Cardinality({n \in Net : Before[n] = i - 1}) < MAX_BATCH_SIZE
      BY <3>31 DEF members
    <3> QED BY <2>1, <3>1, <3>4
  <2>3. CASE i # L + 1
    <3>1. i \in 1 .. L /\ i \in Candidates(next)
      BY <1>1, <2>3, BatchForIsFirst DEF i, L
    <3>2. /\ Elems(batches[i]) \subseteq Net /\ Cardinality(Elems(batches[i])) = Len(batches[i])
          /\ DOMAIN batches[i] = 1 .. Len(batches[i])
      BY <1>1, <3>1, BatchSize DEF L
    <3>3. {n \in Net : Before[n] = i - 1} = Elems(batches[i])
      BY <1>6, <2>1, <3>1, <3>2
    <3>4. \A m \in Elems(batches[i]) : footprint[m].marks \cap footprint[next].points = {}
      <4>1. footprint[next].points \cap batch_vis[i] = {}
        BY <3>1 DEF Candidates
      <4>2. batch_vis[i] = UNION {footprint[batches[i][k]].marks : k \in 1 .. Len(batches[i])}
        BY <3>1 DEF FirstFitInv, MapsMatch, L
      <4> QED BY <3>2, <4>1, <4>2 DEF Elems
    <3>5. Len(batches[i]) < MAX_BATCH_SIZE
      BY <3>1 DEF Candidates
    <3> HIDE DEF Before
    <3> QED BY <1>6, <2>1, <3>1, <3>2, <3>3, <3>4, <3>5
  <2> QED BY <2>2, <2>3
<1>11. Partition!Place(next, i - 1)
  <2>1. After = [Before EXCEPT ![next] = i - 1]
    BY <1>7
  <2>2. \A lower \in 0 .. (i - 1) - 1 : {n \in Net : Before[n] = lower} # {}
    <3>1. (i - 1) - 1 = i - 2
      BY <1>1
    <3> QED BY <1>9, <3>1
  <2>3. \A b : Partition!Members(b) = {n \in Net : Before[n] = b}
    BY DEF Partition!Members, Partition!Net, Net
  <2>4. \A lower \in 0 .. (i - 1) - 1 : Partition!Members(lower) # {}
    BY <2>2, <2>3
  <2>40. Partition!Cardinality(Partition!Members(i - 1)) < MAX_BATCH_SIZE
    <3>1. \A S : Partition!Cardinality(S) = Cardinality(S)
      BY DEF Partition!Cardinality, Cardinality
    <3> QED BY <1>10, <2>3, <3>1
  <2>5. \A m \in Partition!Members(i - 1) :
          IF m < next THEN Partition!Clear(m, next) ELSE Partition!Clear(next, m)
    BY <1>10, <2>3 DEF Partition!Clear
  <2>6. Before[next] = -1
    BY <1>6
  <2>7. [n \in Net |-> BatchOf(n)]' = [[n \in Net |-> BatchOf(n)] EXCEPT ![next] = i - 1]
    BY <2>1
  <2> QED BY <2>4, <2>40, <2>5, <2>6, <2>7, Zenon DEF Partition!Place
<1> QED BY <1>1, <1>8, <1>11 DEF Partition!Next, Partition!Net, Net
-----------------------------------------------------------------------------
(* The wrapper.                                                               *)
(* What the properties ask of a complete list.                                *)
LEMMA ListedOnce ==
  ASSUME Lists(out, NetCnt), NoneEmpty(out), stage = "done"
  PROVE  EveryNetOnce /\ ReplayAccepts
<1>1. out \in Seq(Seq(Net)) /\ DOMAIN out = 1 .. Len(out) /\ NetCnt \in Nat
  BY LenProperties, FirstFitAssumption DEF Lists
<1>2. ASSUME NEW n \in Net
      PROVE  Cardinality({ik \in (DOMAIN out) \X (1 .. NetCnt) :
               ik[2] \in DOMAIN out[ik[1]] /\ out[ik[1]][ik[2]] = n}) = 1
  <2> DEFINE S == {ik \in (DOMAIN out) \X (1 .. NetCnt) :
                     ik[2] \in DOMAIN out[ik[1]] /\ out[ik[1]][ik[2]] = n}
  <2>1. n < NetCnt
    BY <1>1 DEF Net
  <2>2. PICK i \in 1 .. Len(out) : \E k \in 1 .. Len(out[i]) : out[i][k] = n
    BY <2>1 DEF Lists, Listed
  <2>20. PICK k \in 1 .. Len(out[i]) : out[i][k] = n
    BY <2>2
  <2>3. k \in 1 .. NetCnt /\ k \in DOMAIN out[i]
    <3>1. /\ Elems(out[i]) \subseteq Net /\ Cardinality(Elems(out[i])) = Len(out[i])
          /\ DOMAIN out[i] = 1 .. Len(out[i]) /\ Len(out[i]) \in Nat
      BY BatchSize
    <3>2. IsFiniteSet(Net) /\ Cardinality(Net) = NetCnt
      BY <1>1, FS_Interval DEF Net
    <3>3. Len(out[i]) <= NetCnt
      BY <3>1, <3>2, FS_Subset
    <3> QED BY <1>1, <3>1, <3>3
  <2>4. <<i, k>> \in S
    BY <1>1, <2>20, <2>3
  <2>5. ASSUME NEW x \in S PROVE x = <<i, k>>
    <3>1. PICK j \in 1 .. Len(out), l \in 1 .. NetCnt : x = <<j, l>>
      BY <1>1
    <3>2. l \in DOMAIN out[j] /\ out[j][l] = n
      BY <3>1
    <3>3. l \in 1 .. Len(out[j])
      BY <3>2, BatchSize
    <3>4. j = i
      BY <2>20, <3>2, <3>3 DEF Lists, InOneBatch
    <3>5. l = k
      <4>1. k < l \/ l < k => out[i][k] # out[j][l]
        <5>1. n \in Nat /\ ~ (n < n)
          BY <1>1 DEF Net
        <5> QED BY <2>20, <3>2, <3>3, <3>4, <5>1 DEF Lists, Ascending
      <4> QED BY <1>1, <2>20, <2>3, <3>2, <4>1
    <3> QED BY <3>1, <3>4, <3>5
  <2>6. S = {<<i, k>>}
    BY <2>4, <2>5
  <2> QED BY <2>6, FS_Singleton
<1>3. EveryNetOnce
  BY <1>1, <1>2 DEF EveryNetOnce, NoneEmpty
<1>4. ReplayAccepts
  <2>1. ASSUME NEW i \in 1 .. Len(out), NEW k \in 1 .. Len(out[i])
        PROVE  footprint[out[i][k]].points \cap
                 UNION {footprint[out[i][before]].marks : before \in 1 .. k - 1} = {}
    <3>1. SUFFICES ASSUME NEW c \in footprint[out[i][k]].points,
                          NEW before \in 1 .. k - 1, c \in footprint[out[i][before]].marks
                   PROVE  FALSE
      OBVIOUS
    <3>2. Len(out[i]) \in Nat
      BY BatchSize
    <3>3. before \in 1 .. Len(out[i]) /\ before < k
      BY <3>2
    <3> QED BY <3>1, <3>3 DEF Lists, ConflictFree
  <2>2. \A i \in 1 .. Len(out) : DOMAIN out[i] = 1 .. Len(out[i])
    BY BatchSize
  <2> QED BY <1>1, <2>1, <2>2 DEF ReplayAccepts
<1> QED BY <1>3, <1>4
-----------------------------------------------------------------------------
(* The hand-over of the GPU's result.  The batches that are not empty get the *)
(* numbers from 0 on, each its own.                                           *)
Filled == {b \in 0 .. gpu_result.batch_count - 1 : InBatch(b) # {}}

LEMMA GpuResultTypes ==
  ASSUME gpu_result \in GpuResults
  PROVE  /\ gpu_result.batch_of_net \in [Net -> -1 .. NetCnt - 1]
         /\ gpu_result.batch_count \in Nat /\ NetCnt \in Nat /\ Net \subseteq Nat
         /\ IsFiniteSet(Net) /\ Cardinality(Net) = NetCnt
<1>1. NetCnt \in Nat
  BY FirstFitAssumption
<1>2. IsFiniteSet(0 .. NetCnt - 1) /\ Cardinality(0 .. NetCnt - 1) = NetCnt
  BY <1>1, FS_Interval
<1> QED BY <1>1, <1>2 DEF GpuResults, Net

LEMMA AllPlacedMeans ==
  ASSUME gpu_result \in GpuResults, AllPlaced, NEW n \in Net
  PROVE  gpu_result.batch_of_net[n] \in Filled
<1> DEFINE P == {m \in Net : gpu_result.batch_of_net[m] \in 0 .. gpu_result.batch_count - 1}
<1>1. IsFiniteSet(Net) /\ Cardinality(Net) = NetCnt /\ P \in SUBSET Net
  BY GpuResultTypes
<1>2. Cardinality(P) = NetCnt
  BY DEF AllPlaced, PlacedCount
<1> HIDE DEF P
<1>3. P = Net
  BY <1>1, <1>2, FS_Subset
<1>4. gpu_result.batch_of_net[n] \in 0 .. gpu_result.batch_count - 1
  BY <1>3 DEF P
<1> QED BY <1>4 DEF Filled, InBatch

LEMMA CompactedNumbers ==
  ASSUME gpu_result \in GpuResults
  PROVE  /\ IsFiniteSet(Filled) /\ Cardinality(Filled) \in Nat
         /\ DOMAIN Compacted = 0 .. gpu_result.batch_count - 1
         /\ {b \in DOMAIN Compacted : Compacted[b] >= 0} = Filled
         /\ \A b \in Filled : Compacted[b] \in 0 .. Cardinality(Filled) - 1
         /\ \A b, c \in Filled : Compacted[b] = Compacted[c] => b = c
         /\ \A r \in 0 .. Cardinality(Filled) - 1 : \E b \in Filled : Compacted[b] = r
<1> DEFINE B == 0 .. gpu_result.batch_count - 1
           C == Cardinality(Filled)
           Lower(b) == {lower \in 0 .. b - 1 : InBatch(lower) # {}}
<1>1. gpu_result.batch_count \in Nat /\ Filled \in SUBSET B /\ B \subseteq Nat
  BY GpuResultTypes DEF Filled
<1>2. IsFiniteSet(B)
  <2>1. 0 \in Int /\ gpu_result.batch_count - 1 \in Int
    BY <1>1
  <2> QED BY <2>1, FS_Interval
<1>3. IsFiniteSet(Filled) /\ C \in Nat
  BY <1>1, <1>2, FS_Subset, FS_CardinalityType
<1>4. \A b \in B : Lower(b) = {c \in Filled : c < b}
  BY <1>1 DEF Filled
<1> HIDE DEF Lower, C
<1>5. ASSUME NEW b \in B
      PROVE  IsFiniteSet(Lower(b)) /\ Cardinality(Lower(b)) \in Nat
  BY <1>3, <1>4, FS_Subset, FS_CardinalityType
<1>6. ASSUME NEW b \in Filled
      PROVE  Cardinality(Lower(b)) < C
  <2>1. b \in B /\ Lower(b) \in SUBSET Filled /\ b \notin Lower(b)
    BY <1>1, <1>4
  <2> QED BY <1>3, <1>5, <2>1, FS_Subset DEF C
<1>7. ASSUME NEW b \in Filled, NEW c \in Filled, b < c
      PROVE  Cardinality(Lower(b)) < Cardinality(Lower(c))
  <2>1. b \in B /\ c \in B
    BY <1>1
  <2>2. Lower(b) \in SUBSET Lower(c) /\ b \in Lower(c) /\ b \notin Lower(b)
    <3>1. /\ Lower(b) = {d \in Filled : d < b} /\ Lower(c) = {d \in Filled : d < c}
          /\ Filled \subseteq Nat /\ b \in Nat /\ c \in Nat
      BY <1>1, <1>4, <2>1
    <3>2. (\A d \in Filled : d < b => d < c) /\ ~ (b < b) /\ b < c
      BY <1>7, <3>1
    <3> HIDE DEF Lower
    <3>3. b \in Lower(c) /\ b \notin Lower(b)
      BY <3>1, <3>2
    <3>4. \A d : d \in Lower(b) => d \in Lower(c)
      BY <3>1, <3>2
    <3> QED BY <3>3, <3>4
  <2> QED BY <1>5, <2>1, <2>2, FS_Subset
<1>8. /\ DOMAIN Compacted = B
      /\ \A b \in Filled : Compacted[b] = Cardinality(Lower(b))
      /\ \A b \in B : b \notin Filled => Compacted[b] = -1
  <2>1. \A b \in B : Compacted[b] = IF InBatch(b) = {} THEN -1 ELSE Cardinality(Lower(b))
    BY DEF Compacted, Lower
  <2>2. \A b \in B : b \in Filled <=> InBatch(b) # {}
    BY DEF Filled
  <2> QED BY <1>1, <2>1, <2>2 DEF Compacted
<1> HIDE DEF B
<1>9. \A b \in Filled : Compacted[b] \in 0 .. C - 1
  <2> SUFFICES ASSUME NEW b \in Filled PROVE Compacted[b] \in 0 .. C - 1
    OBVIOUS
  <2>1. Compacted[b] \in Nat /\ Compacted[b] < C
    BY <1>1, <1>5, <1>6, <1>8
  <2> QED BY <1>3, <2>1
<1>10. \A b, c \in Filled : Compacted[b] = Compacted[c] => b = c
  <2> SUFFICES ASSUME NEW b \in Filled, NEW c \in Filled, b # c
               PROVE  Compacted[b] # Compacted[c]
    OBVIOUS
  <2>1. b \in Nat /\ c \in Nat /\ Compacted[b] \in Nat /\ Compacted[c] \in Nat
    BY <1>1, <1>3, <1>9
  <2>2. CASE b < c
    <3>1. Compacted[b] < Compacted[c]
      BY <1>7, <1>8, <2>2
    <3> QED BY <2>1, <3>1
  <2>3. CASE c < b
    <3>1. Compacted[c] < Compacted[b]
      BY <1>7, <1>8, <2>3
    <3> QED BY <2>1, <3>1
  <2> QED BY <2>1, <2>2, <2>3
<1>11. \A r \in 0 .. C - 1 : \E b \in Filled : Compacted[b] = r
  <2> DEFINE f == [b \in Filled |-> Compacted[b]]
  <2>1. f \in Injection(Filled, 0 .. C - 1)
    BY <1>9, <1>10 DEF Injection, IsInjective
  <2>2. IsFiniteSet(0 .. C - 1) /\ Cardinality(0 .. C - 1) = C
    BY <1>3, FS_Interval
  <2>3. f \in Surjection(Filled, 0 .. C - 1)
    BY <2>1, <2>2, FS_Injection DEF C
  <2> QED BY <2>3 DEF Surjection
<1>12. {b \in DOMAIN Compacted : Compacted[b] >= 0} = Filled
  <2>1. \A b \in Filled : b \in DOMAIN Compacted /\ Compacted[b] >= 0
    BY <1>1, <1>3, <1>8, <1>9
  <2>2. \A b \in DOMAIN Compacted : b \notin Filled => ~ (Compacted[b] >= 0)
    BY <1>8
  <2> QED BY <2>1, <2>2
<1> QED BY <1>3, <1>8, <1>9, <1>10, <1>11, <1>12 DEF C, B
-----------------------------------------------------------------------------
HandingOver ==
  /\ AllPlaced /\ batch_index = Compacted
  /\ Lists(out, at) /\ Len(out) = Cardinality(Filled)
  /\ \A i \in 1 .. Len(out) : \A k \in 1 .. Len(out[i]) :
       Compacted[gpu_result.batch_of_net[out[i][k]]] + 1 = i

WrapInv ==
  /\ FirstFitInv /\ at \in 0 .. NetCnt
  /\ stage \in {"collect", "generate", "place", "fill", "cpu", "done"}
  /\ stage \in {"collect", "generate", "place"} => at = 0
  /\ stage \in {"place", "fill"} => gpu_result \in GpuResults
  /\ stage = "fill" => HandingOver
  /\ stage = "done" => Lists(out, NetCnt) /\ NoneEmpty(out)

LEMMA NothingListed ==
  ASSUME NEW c \in Nat
  PROVE  Lists([k \in 1 .. c |-> <<>>], 0) /\ Len([k \in 1 .. c |-> <<>>]) = c
<1> DEFINE new == [k \in 1 .. c |-> <<>>]
<1>1. <<>> \in Seq(Net) /\ Len(<<>>) = 0
  OBVIOUS
<1>2. /\ new \in Seq(Seq(Net)) /\ Len(new) = c
      /\ \A i \in 1 .. Len(new) : \A k \in 1 .. Len(new[i]) : FALSE
  BY <1>1
<1>3. \A n \in Net : ~ (n < 0)
  BY FirstFitAssumption DEF Net
<1> HIDE DEF new
<1>4. Lists(new, 0)
  BY <1>2, <1>3 DEF Lists, Listed, Ascending, InOneBatch, ConflictFree
<1> QED BY <1>2, <1>4 DEF new

LEMMA WrapStart == WrapInit => WrapInv
<1> SUFFICES ASSUME WrapInit PROVE WrapInv
  OBVIOUS
<1>1. /\ footprint \in [Net -> Footprints] /\ batches = <<>> /\ batch_vis = <<>> /\ next = 0
      /\ at = 0 /\ stage = "collect" /\ NetCnt \in Nat
  BY FirstFitAssumption DEF WrapInit, FirstFitInit
<1>2. /\ <<>> \in Seq(Seq(Net)) /\ <<>> \in Seq(SUBSET AllMarks) /\ Len(<<>>) = 0
      /\ \A i \in 1 .. Len(<<>>) : FALSE
  OBVIOUS
<1>3. \A n \in Net : ~ (n < 0)
  BY <1>1 DEF Net
<1>4. Lists(batches, next)
  BY <1>1, <1>2, <1>3 DEF Lists, Listed, Ascending, InOneBatch, ConflictFree
<1>5. NoneEmpty(batches) /\ MapsMatch /\ Greedy
  BY <1>1, <1>2 DEF NoneEmpty, MapsMatch, Greedy
<1> QED BY <1>1, <1>4, <1>5 DEF WrapInv, FirstFitInv

LEMMA CpuUntouched ==
  ASSUME FirstFitInv, UNCHANGED <<footprint, cpu>>
  PROVE  FirstFitInv'
<1>1. footprint' = footprint /\ batches' = batches /\ batch_vis' = batch_vis /\ next' = next
  BY DEF cpu
<1>2. Lists(batches, next)' /\ NoneEmpty(batches)'
  BY <1>1 DEF FirstFitInv, Lists, ConflictFree, NoneEmpty
<1>3. MapsMatch'
  BY <1>1 DEF FirstFitInv, MapsMatch
<1>4. \A i, n : TurnedAway(i, n)' <=> TurnedAway(i, n)
  BY <1>1 DEF TurnedAway
<1>5. Greedy'
  <2> SUFFICES ASSUME NEW i \in 1 .. Len(batches), NEW j \in 1 .. Len(batches),
                      NEW k \in 1 .. Len(batches[j]), i < j
               PROVE  TurnedAway(i, batches[j][k])'
    BY <1>1 DEF Greedy
  <2>1. TurnedAway(i, batches[j][k])
    BY DEF FirstFitInv, Greedy
  <2> QED BY <1>1, <2>1 DEF TurnedAway
<1> QED BY <1>1, <1>2, <1>3, <1>5 DEF FirstFitInv

LEMMA SameResult ==
  ASSUME UNCHANGED gpu_result
  PROVE  /\ AllPlaced' <=> AllPlaced
         /\ Compacted' = Compacted /\ Filled' = Filled
<1>1. \A b : InBatch(b)' = InBatch(b)
  BY DEF InBatch
<1>2. Filled' = Filled
  BY DEF Filled, InBatch
<1>3. PlacedCount' = PlacedCount
  BY DEF PlacedCount
<1>4. Compacted' = Compacted
  BY DEF Compacted, InBatch
<1> QED BY <1>2, <1>3, <1>4 DEF AllPlaced

LEMMA PlaceKeeps ==
  ASSUME WrapInv, PlaceBatches
  PROVE  WrapInv'
<1>1. /\ gpu_result \in GpuResults /\ at = 0 /\ stage = "place"
      /\ at' = at /\ at \in 0 .. NetCnt /\ gpu_result' = gpu_result /\ footprint' = footprint
      /\ UNCHANGED <<footprint, cpu>>
  BY DEF PlaceBatches, WrapInv
<1>2. FirstFitInv'
  BY <1>1, CpuUntouched DEF WrapInv
<1>3. CASE AllPlaced
  <2>1. /\ stage' = "fill" /\ batch_index' = Compacted
        /\ out' = [k \in 1 .. Cardinality({b \in DOMAIN batch_index' :
                                             batch_index'[b] >= 0}) |-> <<>>]
    BY <1>3 DEF PlaceBatches
  <2>2. out' = [k \in 1 .. Cardinality(Filled) |-> <<>>] /\ Cardinality(Filled) \in Nat
    BY <1>1, <2>1, CompactedNumbers
  <2>3. Lists(out', 0) /\ Len(out') = Cardinality(Filled)
    BY <2>2, NothingListed
  <2>4. \A i \in 1 .. Len(out') : \A k \in 1 .. Len(out'[i]) : FALSE
    BY <2>2, <2>3
  <2>5. HandingOver'
    <3>1. Lists(out, at)'
      BY <1>1, <2>3 DEF Lists, ConflictFree
    <3>2. AllPlaced' /\ Compacted' = Compacted /\ Filled' = Filled
      BY <1>1, <1>3, SameResult
    <3> QED BY <2>1, <2>3, <2>4, <3>1, <3>2 DEF HandingOver
  <2> QED BY <1>1, <1>2, <2>1, <2>5 DEF WrapInv, GpuResults
<1>4. CASE ~ AllPlaced
  <2>1. stage' = "cpu"
    BY <1>4 DEF PlaceBatches
  <2> QED BY <1>1, <1>2, <2>1 DEF WrapInv
<1> QED BY <1>3, <1>4

LEMMA FillKeeps ==
  ASSUME WrapInv, FillNet
  PROVE  WrapInv'
<1> DEFINE batch == gpu_result.batch_of_net
           i == Compacted[batch[at]] + 1
<1>1. /\ gpu_result \in GpuResults /\ HandingOver /\ stage = "fill" /\ at < NetCnt
      /\ UNCHANGED <<footprint, cpu, stage, gpu_result, batch_index>>
      /\ at' = at + 1 /\ at \in Net /\ at + 1 \in 0 .. NetCnt /\ NetCnt \in Nat
  BY FirstFitAssumption DEF FillNet, WrapInv, Net
<1>2. /\ AllPlaced /\ batch_index = Compacted /\ Lists(out, at) /\ Len(out) = Cardinality(Filled)
      /\ \A j \in 1 .. Len(out) : \A k \in 1 .. Len(out[j]) :
           Compacted[batch[out[j][k]]] + 1 = j
  BY <1>1 DEF HandingOver
<1>3. out' = [out EXCEPT ![i] = Append(@, at)]
  BY <1>2 DEF FillNet
<1>4. batch[at] \in Filled /\ batch \in [Net -> -1 .. NetCnt - 1]
  BY <1>1, <1>2, AllPlacedMeans, GpuResultTypes
<1>5. /\ \A b \in Filled : Compacted[b] \in 0 .. Cardinality(Filled) - 1
      /\ \A b, c \in Filled : Compacted[b] = Compacted[c] => b = c
      /\ Cardinality(Filled) \in Nat /\ \A b \in Filled : b >= 0
  <2>1. \A b \in Filled : b >= 0
    BY <1>1, GpuResultTypes DEF Filled
  <2> QED BY <1>1, <2>1, CompactedNumbers
<1>6. i \in 1 .. Len(out)
  BY <1>2, <1>4, <1>5
<1>7. \A k \in 1 .. Len(out[i]) : out[i][k] \in Net /\ out[i][k] < at
  <2>1. /\ Elems(out[i]) \subseteq Net /\ DOMAIN out[i] = 1 .. Len(out[i])
    BY <1>2, <1>6, BatchSize
  <2> QED BY <1>2, <1>6, <2>1 DEF Lists, Elems
<1>8. ASSUME NEW k \in 1 .. Len(out[i])
      PROVE  footprint[out[i][k]].marks \cap footprint[at].points = {}
  <2>1. batch[out[i][k]] \in Filled
    BY <1>1, <1>2, <1>7, AllPlacedMeans
  <2>2. Compacted[batch[out[i][k]]] = Compacted[batch[at]]
    <3>1. Compacted[batch[out[i][k]]] + 1 = Compacted[batch[at]] + 1
      BY <1>2, <1>6
    <3>2. Compacted[batch[out[i][k]]] \in Int /\ Compacted[batch[at]] \in Int
      BY <1>4, <1>5, <2>1
    <3> HIDE DEF i, batch
    <3> QED BY <3>1, <3>2
  <2>3. batch[out[i][k]] = batch[at] /\ batch[out[i][k]] >= 0
    BY <1>4, <1>5, <2>1, <2>2
  <2> QED BY <1>1, <1>7, <2>3 DEF GpuResults
<1>9. Lists(out', at + 1)
  BY <1>1, <1>2, <1>3, <1>6, <1>8, NetAppended
<1>10. /\ Len(out') = Len(out)
       /\ \A j \in 1 .. Len(out) : j # i => out'[j] = out[j]
       /\ out'[i] = Append(out[i], at)
  <2>1. out \in Seq(Seq(Net)) /\ out[i] \in Seq(Net)
    BY <1>2, <1>6, ElementOfSeq DEF Lists
  <2>2. Append(out[i], at) \in Seq(Net)
    BY <1>1, <2>1, AppendProperties
  <2>3. out' = [out EXCEPT ![i] = Append(out[i], at)]
    BY <1>3
  <2> HIDE DEF i
  <2> QED BY <1>6, <2>1, <2>2, <2>3, ExceptSeq
<1>11. \A j \in 1 .. Len(out') : \A k \in 1 .. Len(out'[j]) :
         Compacted[batch[out'[j][k]]] + 1 = j
  <2> SUFFICES ASSUME NEW j \in 1 .. Len(out), NEW k \in 1 .. Len(out'[j])
               PROVE  Compacted[batch[out'[j][k]]] + 1 = j
    BY <1>10
  <2>1. CASE j # i
    BY <1>2, <1>10, <2>1
  <2>2. CASE j = i
    <3>1. out[i] \in Seq(Net) /\ Len(out[i]) \in Nat
      BY <1>2, <1>6, ElementOfSeq, LenProperties DEF Lists
    <3>2. /\ Len(out'[i]) = Len(out[i]) + 1 /\ out'[i][Len(out[i]) + 1] = at
          /\ \A l \in 1 .. Len(out[i]) : out'[i][l] = out[i][l]
      BY <1>1, <1>10, <3>1, AppendProperties
    <3>3. CASE k = Len(out[i]) + 1
      BY <2>2, <3>2, <3>3
    <3>4. CASE k # Len(out[i]) + 1
      <4>1. k \in 1 .. Len(out[i])
        BY <2>2, <3>1, <3>2, <3>4
      <4> QED BY <1>2, <1>6, <2>2, <3>2, <4>1
    <3> QED BY <3>3, <3>4
  <2> QED BY <2>1, <2>2
<1>12. HandingOver'
  <2>1. /\ AllPlaced' /\ (batch_index = Compacted)' /\ Len(out') = Cardinality(Filled')
        /\ Compacted' = Compacted
    BY <1>1, <1>2, <1>10, SameResult
  <2>2. Lists(out, at)'
    BY <1>1, <1>9 DEF Lists, ConflictFree
  <2> QED BY <1>1, <1>11, <2>1, <2>2 DEF HandingOver
<1>13. FirstFitInv'
  BY <1>1, CpuUntouched DEF WrapInv
<1> QED BY <1>1, <1>12, <1>13 DEF WrapInv, GpuResults

LEMMA FilledIsComplete ==
  ASSUME WrapInv, stage = "fill", at = NetCnt
  PROVE  Lists(out, NetCnt) /\ NoneEmpty(out)
<1>1. gpu_result \in GpuResults /\ HandingOver
  BY DEF WrapInv
<1>2. Lists(out, NetCnt) /\ Len(out) = Cardinality(Filled) /\ Len(out) \in Nat
  BY <1>1, LenProperties DEF HandingOver, Lists
<1>3. ASSUME NEW i \in 1 .. Len(out)
      PROVE  out[i] # <<>>
  <2>1. PICK b \in Filled : Compacted[b] = i - 1
    <3>1. i - 1 \in 0 .. Cardinality(Filled) - 1
      BY <1>2
    <3> QED BY <1>1, <3>1, CompactedNumbers
  <2>2. PICK n \in Net : gpu_result.batch_of_net[n] = b
    BY DEF Filled, InBatch
  <2>3. n < NetCnt
    BY FirstFitAssumption DEF Net
  <2>4. PICK j \in 1 .. Len(out) : \E k \in 1 .. Len(out[j]) : out[j][k] = n
    BY <1>2, <2>3 DEF Lists, Listed
  <2>5. j = Compacted[b] + 1
    BY <1>1, <2>2, <2>4 DEF HandingOver
  <2>6. j = i
    BY <1>2, <2>1, <2>5
  <2>7. 1 .. Len(out[i]) # {}
    BY <2>4, <2>6
  <2> QED BY <2>7
<1> QED BY <1>2, <1>3 DEF NoneEmpty

LEMMA WrapKeeps ==
  ASSUME WrapInv, [WrapNext]_allvars
  PROVE  WrapInv'
<1>1. CASE CollectMarks \/ Generate \/ Throw
  <2>1. /\ UNCHANGED <<footprint, cpu, at>> /\ stage' \in {"generate", "place", "cpu"}
        /\ stage' \in {"generate", "place"} => at = 0
        /\ stage' = "place" => gpu_result' \in GpuResults
    BY <1>1 DEF CollectMarks, Generate, Throw, WrapInv
  <2>2. FirstFitInv'
    BY <2>1, CpuUntouched DEF WrapInv
  <2> QED BY <2>1, <2>2 DEF WrapInv, GpuResults
<1>2. CASE PlaceBatches
  BY <1>2, PlaceKeeps
<1>3. CASE FillNet
  BY <1>3, FillKeeps
<1>4. CASE FillEnds
  <2>1. Lists(out, NetCnt) /\ NoneEmpty(out) /\ FirstFitInv'
    BY <1>4, FilledIsComplete, CpuUntouched DEF FillEnds, WrapInv
  <2> QED BY <1>4, <2>1 DEF FillEnds, WrapInv, Lists, ConflictFree, NoneEmpty
<1>5. CASE CpuStep
  <2>1. FirstFitInv' /\ UNCHANGED <<footprint, stage, at, gpu_result, out>> /\ stage = "cpu"
    BY <1>5, FirstFitKeeps DEF CpuStep, WrapInv, wrapper
  <2> QED BY <2>1 DEF WrapInv
<1>6. CASE CpuEnds
  <2>1. Lists(batches, NetCnt) /\ NoneEmpty(batches) /\ FirstFitInv'
    BY <1>6, CpuUntouched DEF CpuEnds, WrapInv, FirstFitInv
  <2> QED BY <1>6, <2>1 DEF CpuEnds, WrapInv, Lists, ConflictFree, NoneEmpty
<1>7. CASE UNCHANGED allvars
  <2>1. UNCHANGED <<footprint, cpu, stage, gpu_result, batch_index, at, out>>
    BY <1>7 DEF allvars, wrapper
  <2>2. FirstFitInv'
    BY <2>1, CpuUntouched DEF WrapInv
  <2>3. stage = "fill" => HandingOver'
    <3> SUFFICES ASSUME HandingOver PROVE HandingOver'
      BY DEF WrapInv
    <3>1. Lists(out, at)'
      BY <2>1 DEF HandingOver, Lists, ConflictFree
    <3>2. /\ AllPlaced' /\ Compacted' = Compacted /\ Filled' = Filled
      BY <2>1, SameResult DEF HandingOver
    <3> QED BY <2>1, <3>1, <3>2 DEF HandingOver
  <2> QED BY <2>1, <2>2, <2>3 DEF WrapInv, GpuResults, Lists, ConflictFree, NoneEmpty
<1> QED BY <1>1, <1>2, <1>3, <1>4, <1>5, <1>6, <1>7 DEF WrapNext

(* The invariant of the wrapper and its two paths: the batches being built,   *)
(* by either path, list the nets handled so far once each, in ascending order *)
(* and free of conflicts, and every net before next is greedily placed.       *)
THEOREM WrapInvariance == WrapSpec => []WrapInv
<1>1. WrapInit => WrapInv
  BY WrapStart
<1>2. WrapInv /\ [WrapNext]_allvars => WrapInv'
  BY WrapKeeps
<1> QED BY <1>1, <1>2, PTL DEF WrapSpec

(* generate_batches_rsmt returns every net exactly once and no empty batch,   *)
(* whatever the GPU wrote and wherever an exception came.                     *)
THEOREM EveryNetReturnedOnce == WrapSpec => []EveryNetOnce
<1>1. WrapInv => EveryNetOnce
  BY ListedOnce DEF WrapInv, EveryNetOnce
<1> QED BY <1>1, WrapInvariance, PTL

(* batches_are_conflict_free, the replay of INSTANTGR_GPU_BATCH_VERIFY,       *)
(* accepts what generate_batches_rsmt returns.                                *)
THEOREM ReplayIsAccepted == WrapSpec => []ReplayAccepts
<1>1. WrapInv => ReplayAccepts
  BY ListedOnce DEF WrapInv, ReplayAccepts
<1> QED BY <1>1, WrapInvariance, PTL

(* The sequential path is greedy: no net would have fitted an earlier batch.  *)
THEOREM CpuPathIsGreedy == WrapSpec => []PlacedInFirstFit
<1>1. WrapInv => PlacedInFirstFit
  <2> SUFFICES ASSUME WrapInv, NEW i \in DOMAIN batches, NEW j \in DOMAIN batches,
                      NEW n \in Elems(batches[j]), i < j
               PROVE  TurnedAway(i, n)
    BY DEF PlacedInFirstFit, TurnedAway
  <2>1. Lists(batches, next) /\ DOMAIN batches = 1 .. Len(batches) /\ Greedy
    BY LenProperties DEF WrapInv, FirstFitInv, Lists
  <2>2. DOMAIN batches[j] = 1 .. Len(batches[j])
    BY <2>1, BatchSize
  <2>3. PICK k \in 1 .. Len(batches[j]) : n = batches[j][k]
    BY <2>2 DEF Elems
  <2> QED BY <2>1, <2>3 DEF Greedy
<1> QED BY <1>1, WrapInvariance, PTL

(* The sequential path places one net at a time, for ever, in a batch with    *)
(* room that no net of it forbids, and opens the batches in order.            *)
THEOREM CpuPathImplementsPartition == WrapSpec => KeepsPartition
<1>1. WrapInit => Partition!Init
  <2> SUFFICES ASSUME WrapInit PROVE Partition!Init
    OBVIOUS
  <2>1. next = 0 /\ \A n \in Net : n >= 0
    BY FirstFitAssumption DEF WrapInit, FirstFitInit, Net
  <2>2. \A n \in Net : BatchOf(n) = -1
    BY <2>1 DEF BatchOf
  <2> QED BY <2>2 DEF Partition!Init, Partition!Net, Net
<1>2. WrapInv /\ [WrapNext]_allvars => [Partition!Next]_<<footprint, cpu>>
  <2> SUFFICES ASSUME WrapInv, [WrapNext]_allvars
               PROVE  Partition!Next \/ UNCHANGED <<footprint, cpu>>
    OBVIOUS
  <2>1. CASE CpuStep
    BY <2>1, StepPlacesOne DEF CpuStep, WrapInv
  <2> QED BY <2>1 DEF WrapNext, CollectMarks, Generate, PlaceBatches, FillNet, FillEnds, Throw,
                      CpuEnds, allvars
<1> QED BY <1>1, <1>2, WrapInvariance, PTL DEF WrapSpec, KeepsPartition
-----------------------------------------------------------------------------
(* Cells and their coordinates.                                               *)
LEMMA CellParts ==
  ASSUME NEW pos \in GridCell
  PROVE  /\ Col(pos) \in 0 .. X - 1 /\ Row(pos) \in 0 .. Y - 1
         /\ pos \in Nat /\ pos = Col(pos) * Y + Row(pos)
<1>1. pos \in Nat /\ pos < X * Y /\ X \in Nat /\ Y \in Nat \ {0}
  BY GridAssumption DEF GridCell
<1>2. /\ pos \div Y \in Nat /\ pos % Y \in 0 .. Y - 1
      /\ pos = (pos \div Y) * Y + (pos % Y)
  BY <1>1
<1>3. pos \div Y < X
  BY <1>1, <1>2
<1> QED BY <1>1, <1>2, <1>3 DEF Col, Row

LEMMA CellAt ==
  ASSUME NEW x \in 0 .. X - 1, NEW y \in 0 .. Y - 1
  PROVE  x * Y + y \in GridCell /\ Col(x * Y + y) = x /\ Row(x * Y + y) = y
<1>1. x \in Nat /\ y \in Nat /\ y < Y /\ x <= X - 1 /\ X \in Nat \ {0} /\ Y \in Nat \ {0}
  BY GridAssumption
<1>2. x * Y \in Nat /\ x * Y <= (X - 1) * Y /\ (X - 1) * Y = X * Y - Y
  BY <1>1
<1>3. x * Y + y \in GridCell
  BY <1>1, <1>2 DEF GridCell
<1>4. (x * Y + y) \div Y = x
  BY <1>1, <1>2
<1>5. (x * Y + y) % Y = y
  BY <1>1, <1>2
<1> QED BY <1>3, <1>4, <1>5 DEF Col, Row

(* The horizontal walk takes steps of a column.                               *)
LEMMA HWalkCells ==
  ASSUME NEW a \in Nat, NEW b \in Nat, a <= b, NEW y \in 0 .. Y - 1
  PROVE  HWalk(<<a * Y + y, b * Y + y>>) = {x * Y + y : x \in a .. b}
<1>1. Y \in Nat \ {0} /\ y \in Nat /\ a * Y \in Nat /\ b * Y \in Nat
  BY GridAssumption
<1>2. ASSUME NEW pos \in (a * Y + y) .. (b * Y + y), (pos - (a * Y + y)) % Y = 0
      PROVE  \E x \in a .. b : pos = x * Y + y
  <2> DEFINE d == pos - (a * Y + y)
             q == d \div Y
  <2>1. d \in Nat /\ d <= (b * Y) - (a * Y) /\ pos = d + (a * Y + y)
    BY <1>1
  <2>2. d = q * Y /\ q \in Nat
    <3>1. d % Y = 0
      BY <1>2
    <3> HIDE DEF d
    <3> QED BY <1>1, <2>1, <3>1
  <2> HIDE DEF q, d
  <2>3. (b * Y) - (a * Y) = (b - a) * Y /\ (a + q) * Y = (a * Y) + (q * Y)
    BY <1>1, <2>2
  <2>4. q <= b - a
    BY <1>1, <2>1, <2>2, <2>3
  <2> QED BY <1>1, <2>1, <2>2, <2>3, <2>4
<1>3. ASSUME NEW x \in a .. b
      PROVE  /\ x * Y + y \in (a * Y + y) .. (b * Y + y)
             /\ ((x * Y + y) - (a * Y + y)) % Y = 0
  <2>1. x \in Nat /\ x - a \in Nat /\ b - x \in Nat /\ x * Y \in Nat
    BY <1>1
  <2>2. x * Y = (a * Y) + ((x - a) * Y) /\ b * Y = (x * Y) + ((b - x) * Y)
    BY <1>1, <2>1
  <2>3. (x - a) * Y \in Nat /\ (b - x) * Y \in Nat /\ ((x - a) * Y) % Y = 0
    BY <1>1, <2>1
  <2>4. (x * Y + y) - (a * Y + y) = (x - a) * Y
    BY <1>1, <2>1, <2>2, <2>3
  <2> QED BY <1>1, <2>1, <2>2, <2>3, <2>4
<1> QED BY <1>2, <1>3 DEF HWalk

LEMMA VWalkCells ==
  ASSUME NEW x \in Nat, NEW a \in Nat, NEW b \in Nat
  PROVE  VWalk(<<x * Y + a, x * Y + b>>) = {x * Y + y : y \in a .. b}
<1>1. x * Y \in Nat
  BY GridAssumption
<1>2. ASSUME NEW pos \in (x * Y + a) .. (x * Y + b)
      PROVE  \E y \in a .. b : pos = x * Y + y
  <2>1. pos - x * Y \in a .. b /\ pos = x * Y + (pos - x * Y)
    BY <1>1
  <2> QED BY <2>1
<1>3. \A y \in a .. b : x * Y + y \in (x * Y + a) .. (x * Y + b)
  BY <1>1
<1> QED BY <1>2, <1>3 DEF VWalk
-----------------------------------------------------------------------------
(* The cross of the GPU has the bounds of mark_3x3.                           *)
LEMMA CrossIsMark3x3 == ASSUME NEW pos \in GridCell PROVE Cross(pos) = Mark3x3(pos)
<1> DEFINE c   == Col(pos)
           r   == Row(pos)
           XY  == {xy \in (c - 1 .. c + 1) \X (r - 1 .. r) :
                     /\ xy[1] \in 0 .. X - 1 /\ xy[2] \in 0 .. Y - 1
                     /\ xy[1] = c \/ xy[2] = r}
<1>1. c \in 0 .. X - 1 /\ r \in 0 .. Y - 1 /\ pos \in Nat /\ pos = c * Y + r
      /\ X \in Nat /\ Y \in Nat /\ c * Y \in Nat
  <2>1. c \in 0 .. X - 1 /\ r \in 0 .. Y - 1 /\ pos \in Nat /\ pos = c * Y + r
    BY CellParts
  <2>2. X \in Nat /\ Y \in Nat
    BY GridAssumption
  <2> HIDE DEF c, r
  <2> QED BY <2>1, <2>2
<1>2. Mark3x3(pos) = {xy[1] * Y + xy[2] : xy \in XY}
  BY DEF Mark3x3
<1>3. Cross(pos) = {pos} \cup (IF r > 0     THEN {pos - 1} ELSE {})
                         \cup (IF c > 0     THEN {pos - Y} ELSE {})
                         \cup (IF c + 1 < X THEN {pos + Y} ELSE {})
  BY DEF Cross
<1> HIDE DEF c, r
<1>4. /\ c * Y + (r - 1) = pos - 1
      /\ (c - 1) * Y + r = pos - Y
      /\ (c + 1) * Y + r = pos + Y
  BY <1>1
<1>5. \A xy : xy \in XY <=> \/ xy = <<c, r>>
                            \/ r > 0 /\ xy = <<c, r - 1>>
                            \/ c > 0 /\ xy = <<c - 1, r>>
                            \/ c + 1 < X /\ xy = <<c + 1, r>>
  BY <1>1
<1> HIDE DEF XY
<1>6. \A q : q \in Mark3x3(pos) <=> \/ q = pos
                                    \/ r > 0 /\ q = pos - 1
                                    \/ c > 0 /\ q = pos - Y
                                    \/ c + 1 < X /\ q = pos + Y
  <2> DEFINE number(xy) == xy[1] * Y + xy[2]
  <2>1. /\ number(<<c, r>>) = pos         /\ number(<<c, r - 1>>) = pos - 1
        /\ number(<<c - 1, r>>) = pos - Y /\ number(<<c + 1, r>>) = pos + Y
    BY <1>1, <1>4
  <2>2. Mark3x3(pos) = {number(xy) : xy \in XY}
    BY <1>2
  <2> HIDE DEF number
  <2> QED BY <1>5, <2>1, <2>2
<1>7. \A q : q \in Cross(pos) <=> \/ q = pos
                                  \/ r > 0 /\ q = pos - 1
                                  \/ c > 0 /\ q = pos - Y
                                  \/ c + 1 < X /\ q = pos + Y
  BY <1>3
<1> QED BY <1>6, <1>7

(* The walks along the segments of a tree edge cover the border of its box.   *)
LEMMA WalksCoverBorder ==
  ASSUME NEW i \in GridCell, NEW j \in GridCell, i # j
  PROVE  (UNION {HWalk(seg) : seg \in HSegments(i, j)})
           \cup (UNION {VWalk(seg) : seg \in VSegments(i, j)}) = Border(i, j)
<1> DEFINE x1 == MinOf(Col(i), Col(j))    x2 == MaxOf(Col(i), Col(j))
           y1 == MinOf(Row(i), Row(j))    y2 == MaxOf(Row(i), Row(j))
           H  == UNION {HWalk(seg) : seg \in HSegments(i, j)}
           V  == UNION {VWalk(seg) : seg \in VSegments(i, j)}
<1>1. /\ Col(i) \in 0 .. X - 1 /\ Row(i) \in 0 .. Y - 1 /\ i = Col(i) * Y + Row(i)
      /\ Col(j) \in 0 .. X - 1 /\ Row(j) \in 0 .. Y - 1 /\ j = Col(j) * Y + Row(j)
  BY CellParts
<1>2. /\ x1 \in 0 .. X - 1 /\ x2 \in 0 .. X - 1 /\ x1 <= x2
      /\ y1 \in 0 .. Y - 1 /\ y2 \in 0 .. Y - 1 /\ y1 <= y2
      /\ {Col(i), Col(j)} = {x1, x2} /\ {Row(i), Row(j)} = {y1, y2}
      /\ (Col(i) = Col(j) <=> x1 = x2) /\ (Row(i) = Row(j) <=> y1 = y2)
  BY <1>1 DEF MinOf, MaxOf
<1>3. x1 # x2 \/ y1 # y2
  BY <1>1, <1>2
<1>4. /\ HSegments(i, j) = IF x1 = x2 THEN {} ELSE {<<x1 * Y + y, x2 * Y + y>> : y \in {y1, y2}}
      /\ VSegments(i, j) = IF y1 = y2 THEN {} ELSE {<<x * Y + y1, x * Y + y2>> : x \in {x1, x2}}
  BY <1>2 DEF HSegments, VSegments
<1>5. Border(i, j) = {pos \in GridCell : /\ Col(pos) \in x1 .. x2 /\ Row(pos) \in y1 .. y2
                                         /\ Col(pos) \in {x1, x2} \/ Row(pos) \in {y1, y2}}
  BY <1>2 DEF Border
<1> HIDE DEF x1, x2, y1, y2
<1>6. \A pos : pos \in H <=> x1 # x2 /\ \E x \in x1 .. x2 : \E y \in {y1, y2} : pos = x * Y + y
  <2>1. \A y \in {y1, y2} : HWalk(<<x1 * Y + y, x2 * Y + y>>) = {x * Y + y : x \in x1 .. x2}
    BY <1>2, HWalkCells
  <2>2. CASE x1 = x2
    BY <1>4, <2>2
  <2>3. CASE x1 # x2
    <3>1. H = UNION {HWalk(<<x1 * Y + y, x2 * Y + y>>) : y \in {y1, y2}}
      BY <1>4, <2>3
    <3> QED BY <2>1, <2>3, <3>1
  <2> QED BY <2>2, <2>3
<1>7. \A pos : pos \in V <=> y1 # y2 /\ \E x \in {x1, x2} : \E y \in y1 .. y2 : pos = x * Y + y
  <2>1. \A x \in {x1, x2} : VWalk(<<x * Y + y1, x * Y + y2>>) = {x * Y + y : y \in y1 .. y2}
    BY <1>2, VWalkCells
  <2>2. CASE y1 = y2
    BY <1>4, <2>2
  <2>3. CASE y1 # y2
    <3>1. V = UNION {VWalk(<<x * Y + y1, x * Y + y2>>) : x \in {x1, x2}}
      BY <1>4, <2>3
    <3> QED BY <2>1, <2>3, <3>1
  <2> QED BY <2>2, <2>3
<1> HIDE DEF H, V
<1>8. \A x \in x1 .. x2 : \A y \in y1 .. y2 :
        x * Y + y \in GridCell /\ Col(x * Y + y) = x /\ Row(x * Y + y) = y
  <2>1. \A x \in x1 .. x2 : x \in 0 .. X - 1
    BY <1>2, GridAssumption
  <2>2. \A y \in y1 .. y2 : y \in 0 .. Y - 1
    BY <1>2, GridAssumption
  <2> QED BY <2>1, <2>2, CellAt
<1>9. {x1, x2} \subseteq x1 .. x2 /\ {y1, y2} \subseteq y1 .. y2
  BY <1>2
<1>10. ASSUME NEW pos \in H \cup V PROVE pos \in Border(i, j)
  <2>1. PICK x \in x1 .. x2, y \in y1 .. y2 : pos = x * Y + y /\ (x \in {x1, x2} \/ y \in {y1, y2})
    BY <1>6, <1>7, <1>9, <1>10
  <2> QED BY <1>5, <1>8, <2>1
<1>11. ASSUME NEW pos \in Border(i, j) PROVE pos \in H \cup V
  <2>1. /\ pos \in GridCell /\ Col(pos) \in x1 .. x2 /\ Row(pos) \in y1 .. y2
        /\ Col(pos) \in {x1, x2} \/ Row(pos) \in {y1, y2}
    BY <1>5, <1>11
  <2>2. pos = Col(pos) * Y + Row(pos)
    BY <2>1, CellParts
  <2>3. CASE x1 # x2 /\ y1 # y2
    BY <1>6, <1>7, <2>1, <2>2, <2>3
  <2>4. CASE x1 = x2
    <3>1. Col(pos) \in {x1, x2}
      BY <1>2, <2>1, <2>4
    <3> QED BY <1>3, <1>7, <2>1, <2>2, <2>4, <3>1
  <2>5. CASE y1 = y2
    <3>1. Row(pos) \in {y1, y2}
      BY <1>2, <2>1, <2>5
    <3> QED BY <1>3, <1>6, <2>1, <2>2, <2>5, <3>1
  <2> QED BY <2>3, <2>4, <2>5
<1> QED BY <1>10, <1>11 DEF H, V

LEMMA PointsOnGrid ==
  ASSUME NEW i \in GridCell, NEW j \in GridCell
  PROVE  EdgePoints(i, j) \subseteq GridCell
<1>1. /\ Col(i) \in 0 .. X - 1 /\ Row(i) \in 0 .. Y - 1
      /\ Col(j) \in 0 .. X - 1 /\ Row(j) \in 0 .. Y - 1
  BY CellParts
<1>2. Col(i) * Y + Row(j) \in GridCell /\ Col(j) * Y + Row(i) \in GridCell
  BY <1>1, CellAt
<1> QED BY <1>2 DEF EdgePoints
-----------------------------------------------------------------------------
(* For a tree edge anywhere on a grid of any size the two paths and the replay *)
(* of batches_are_conflict_free test the same cells.                           *)
THEOREM MarksAgree == WrapSpec => []PathsAgreeOnMarks
<1>1. ASSUME NEW i \in GridCell, NEW j \in GridCell, i # j
      PROVE  Footprint({<<i, j>>}).marks =
               Border(i, j) \cup (UNION {Mark3x3(p) : p \in EdgePoints(i, j)})
  <2> DEFINE h == HSegments(i, j)
             v == VSegments(i, j)
             p == EdgePoints(i, j)
  <2>1. Footprint({<<i, j>>}).marks = VisitMarks(h, v, p)
    <3>1. /\ UNION {HSegments(e[1], e[2]) : e \in {<<i, j>>}} = h
          /\ UNION {VSegments(e[1], e[2]) : e \in {<<i, j>>}} = v
          /\ UNION {EdgePoints(e[1], e[2]) : e \in {<<i, j>>}} = p
      BY SMT
    <3> HIDE DEF h, v, p
    <3> QED BY <3>1 DEF Footprint
  <2>2. UNION {Cross(pos) : pos \in p} = UNION {Mark3x3(pos) : pos \in p}
    <3>1. p \subseteq GridCell
      BY PointsOnGrid
    <3> HIDE DEF p
    <3>2. \A pos \in p : Cross(pos) = Mark3x3(pos)
      BY <3>1, CrossIsMark3x3
    <3> QED BY <3>2
  <2>3. (UNION {HWalk(seg) : seg \in h}) \cup (UNION {VWalk(seg) : seg \in v}) = Border(i, j)
    BY <1>1, WalksCoverBorder
  <2> QED BY <2>1, <2>2, <2>3 DEF VisitMarks
<1>2. PathsAgreeOnMarks
  BY <1>1 DEF PathsAgreeOnMarks
<1> QED BY <1>2, PTL
=============================================================================
