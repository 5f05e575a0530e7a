----------------------------- MODULE RouteNet_proofs -----------------------------
(***************************************************************************)
(* Proofs about RouteNet and the modules it composes.                      *)
(*                                                                         *)
(* The scan is right for every length of a track, in whatever order the    *)
(* threads of a round run.                                                 *)
(*                                                                         *)
(* The dynamic program of Stage 1 finds the best of all assignments of     *)
(* layers to the edges of the tree, for every tree, every grid and every   *)
(* cost map.  Its loop takes the last node of the tree off and adds what   *)
(* the node costs to its parent's table; what the tables then say of the   *)
(* rest of the tree is what they said of the whole.                        *)
(***************************************************************************)
EXTENDS RouteNet, WellFoundedInduction, TLAPS

(* The first element of the block of w that i is in                           *)
BlockStart(i, w) == (i \div w) * w

(* The cells that element i holds once the blocks of w are summed: those      *)
(* from the one before its block up to the one before it                      *)
Span(i, w) == [c \in Index |-> IF BlockStart(i, w) - 1 <= c /\ c < i THEN 1 ELSE 0]

ScanTypeOK ==
  /\ cells \in Nat /\ cells >= 2 /\ scan_pc \in {"load", "round", "done"}
  /\ width \in Nat \ {0} /\ untouched \subseteq Index
  /\ DOMAIN loaded = Index /\ DOMAIN sum = Index

(* Within a round, an element has the sum of the round or of the one before;  *)
(* what a thread has loaded is the sum of the one before.                     *)
SpansOK ==
  /\ scan_pc = "load" =>
       /\ width = 1
       /\ \A i \in Index : loaded[i] = NoOperand /\ (i \notin untouched => sum[i] = Span(i, 1))
  /\ scan_pc = "round" => \A i \in Index :
       /\ IF i \in untouched THEN sum[i] = Span(i, width) ELSE sum[i] = Span(i, 2 * width)
       /\ ~ Adds(i) => i \in untouched
       /\ loaded[i] = NoOperand \/ (i \in untouched /\ Adds(i) /\ loaded[i] = Span(Source(i), width))
  /\ scan_pc = "done" => width >= cells /\ \A i \in Index : sum[i] = Span(i, width)

ScanInv == ScanTypeOK /\ SpansOK
-----------------------------------------------------------------------------
(* Blocks.                                                                    *)
LEMMA DivParts ==
  ASSUME NEW i \in Nat, NEW w \in Nat \ {0}
  PROVE  /\ i \div w \in Nat /\ (i \div w) * w \in Nat
         /\ (i \div w) * w <= i /\ i < (i \div w) * w + w
OBVIOUS

LEMMA DivUnique ==
  ASSUME NEW i \in Nat, NEW w \in Nat \ {0}, NEW q \in Nat, q * w <= i, i < q * w + w
  PROVE  i \div w = q
OBVIOUS

LEMMA Halves ==
  ASSUME NEW q \in Nat
  PROVE  /\ q % 2 \in {0, 1} /\ \E p \in Nat : q = 2 * p + (q % 2)
OBVIOUS

(* A block of 2 * w is two blocks of w.                                       *)
LEMMA Doubling ==
  ASSUME NEW i \in Nat, NEW w \in Nat \ {0}
  PROVE  IF (i \div w) % 2 = 1
         THEN /\ BlockStart(i, w) - 1 \in Nat /\ BlockStart(i, w) - 1 < i
              /\ BlockStart(i, 2 * w) = BlockStart(BlockStart(i, w) - 1, w)
              /\ BlockStart(i, 2 * w) <= BlockStart(i, w) - 1
              /\ ((BlockStart(i, w) - 1) \div w) % 2 = 0
         ELSE BlockStart(i, 2 * w) = BlockStart(i, w)
<1> DEFINE q == i \div w
<1>1. q \in Nat /\ q * w \in Nat /\ q * w <= i /\ i < q * w + w /\ BlockStart(i, w) = q * w
  BY DivParts DEF BlockStart
<1> HIDE DEF q
<1>2. PICK p \in Nat : q = 2 * p + (q % 2) /\ q % 2 \in {0, 1}
  BY <1>1, Halves
<1>3. CASE q % 2 = 0
  <2>1. q * w = p * (2 * w)
    BY <1>2, <1>3
  <2>2. i \div (2 * w) = p
    BY <1>1, <2>1, DivUnique
  <2> QED BY <1>1, <1>3, <2>1, <2>2 DEF BlockStart, q
<1>4. CASE q % 2 = 1
  <2>1. q * w = p * (2 * w) + w /\ q * w = (2 * p) * w + w /\ (2 * p) * w = p * (2 * w)
    BY <1>2, <1>4
  <2>2. i \div (2 * w) = p
    BY <1>1, <2>1, DivUnique
  <2>3. (2 * p) * w \in Nat /\ q * w - 1 \in Nat
    BY <2>1
  <2>4. (q * w - 1) \div w = 2 * p
    BY <2>1, <2>3, DivUnique
  <2>5. (2 * p) % 2 = 0
    OBVIOUS
  <2> QED BY <1>1, <1>4, <2>1, <2>2, <2>3, <2>4, <2>5 DEF BlockStart, q
<1> QED BY <1>2, <1>3, <1>4

LEMMA FirstBlock ==
  ASSUME NEW i \in Nat, NEW w \in Nat \ {0}
  PROVE  /\ i < w => BlockStart(i, w) = 0
         /\ BlockStart(i, 1) = i /\ BlockStart(i, w) \in Nat
<1>1. i < w => i \div w = 0
  BY DivUnique
<1>2. i \div 1 = i
  BY DivUnique
<1> QED BY <1>1, <1>2, DivParts DEF BlockStart

(* What a round does to an element.                                           *)
LEMMA RoundOf ==
  ASSUME ScanTypeOK, NEW i \in Index
  PROVE  IF Adds(i)
         THEN /\ Source(i) \in Index /\ ~ Adds(Source(i))
              /\ Plus(Span(i, width), Span(Source(i), width)) = Span(i, 2 * width)
         ELSE Span(i, 2 * width) = Span(i, width)
<1>1. i \in Nat /\ width \in Nat \ {0} /\ cells \in Nat /\ i < cells
  BY DEF ScanTypeOK, Index
<1>2. CASE Adds(i)
  <2> DEFINE s == Source(i)
             b == BlockStart(i, 2 * width)
  <2>1. s = BlockStart(i, width) - 1 /\ s \in Nat /\ s < i /\ b = BlockStart(s, width) /\ b <= s
        /\ (s \div width) % 2 = 0
    BY <1>1, <1>2, Doubling DEF Adds, Source, BlockStart
  <2>2. b \in Nat /\ BlockStart(i, width) \in Nat
    BY <1>1, <2>1, FirstBlock
  <2> HIDE DEF s, b
  <2>3. s \in Index /\ ~ Adds(s)
    BY <1>1, <2>1 DEF Index, Adds
  <2>4. ASSUME NEW c \in Index
        PROVE  Plus(Span(i, width), Span(s, width))[c] = Span(i, 2 * width)[c]
    <3>1. c \in Nat
      BY <1>1 DEF Index
    <3>2. /\ Span(i, width)[c] = IF s <= c /\ c < i THEN 1 ELSE 0
          /\ Span(s, width)[c] = IF b - 1 <= c /\ c < s THEN 1 ELSE 0
          /\ Span(i, 2 * width)[c] = IF b - 1 <= c /\ c < i THEN 1 ELSE 0
      BY <2>1 DEF Span, b
    <3>3. Plus(Span(i, width), Span(s, width))[c] = Span(i, width)[c] + Span(s, width)[c]
      BY DEF Plus
    <3> QED BY <1>1, <2>1, <2>2, <3>1, <3>2, <3>3
  <2>5. Plus(Span(i, width), Span(s, width)) = [c \in Index |-> Plus(Span(i, width), Span(s, width))[c]]
    BY DEF Plus
  <2>6. Span(i, 2 * width) = [c \in Index |-> Span(i, 2 * width)[c]]
    BY DEF Span
  <2>7. Plus(Span(i, width), Span(s, width)) = Span(i, 2 * width)
    BY <2>4, <2>5, <2>6
  <2> QED BY <1>2, <2>3, <2>7 DEF s
<1>3. CASE ~ Adds(i)
  <2>1. BlockStart(i, 2 * width) = BlockStart(i, width)
    BY <1>1, <1>3, Doubling DEF Adds
  <2> QED BY <1>3, <2>1 DEF Span
<1> QED BY <1>2, <1>3
-----------------------------------------------------------------------------
LEMMA ScanInitial ==
  ASSUME ScanInit
  PROVE  ScanInv
<1>1. ScanTypeOK
  BY ScanAssumption DEF ScanInit, ScanTypeOK
<1>2. \A i \in Index : i \in untouched /\ loaded[i] = NoOperand
  BY DEF ScanInit
<1> QED BY <1>1, <1>2 DEF ScanInit, ScanInv, SpansOK

LEMMA LoadStep ==
  ASSUME ScanInv, NEW i \in Index, Load(i)
  PROVE  ScanInv'
<1> USE DEF ScanInv
<1>1. /\ UNCHANGED <<cells, scan_pc, width, loaded>> /\ scan_pc = "load"
      /\ i \in untouched /\ untouched' = untouched \ {i}
      /\ sum' = [sum EXCEPT ![i] = IF i = 0 THEN Zero ELSE [Zero EXCEPT ![i - 1] = 1]]
  BY DEF Load
<1>2. cells \in Nat /\ i \in Nat /\ i < cells /\ Index' = Index
  BY <1>1 DEF ScanTypeOK, Index
<1>3. sum'[i] = Span(i, 1)
  <2>1. BlockStart(i, 1) = i
    BY <1>2, FirstBlock
  <2>2. Span(i, 1) = [c \in Index |-> IF i - 1 <= c /\ c < i THEN 1 ELSE 0]
    BY <2>1 DEF Span
  <2>3. \A c \in Index : c \in Nat
    BY <1>2 DEF Index
  <2>4. CASE i = 0
    <3>1. Span(i, 1) = Zero
      BY <2>2, <2>3, <2>4 DEF Zero
    <3> QED BY <1>1, <2>4, <3>1 DEF ScanTypeOK
  <2>5. CASE i # 0
    <3>1. \A c \in Index : (IF i - 1 <= c /\ c < i THEN 1 ELSE 0) = (IF c = i - 1 THEN 1 ELSE 0)
      BY <1>2, <2>3
    <3>2. [Zero EXCEPT ![i - 1] = 1] = [c \in Index |-> IF c = i - 1 THEN 1 ELSE 0]
      BY DEF Zero
    <3>3. Span(i, 1) = [Zero EXCEPT ![i - 1] = 1]
      BY <2>2, <3>1, <3>2
    <3> QED BY <1>1, <2>5, <3>3 DEF ScanTypeOK
  <2> QED BY <2>4, <2>5
<1>4. \A j \in Index : j # i => sum'[j] = sum[j]
  BY <1>1 DEF ScanTypeOK
<1>5. ScanTypeOK'
  BY <1>1, <1>2 DEF ScanTypeOK
<1>6. \A j : Span(j, 1)' = Span(j, 1)
  BY <1>2 DEF Span
<1> QED BY <1>1, <1>2, <1>3, <1>4, <1>5, <1>6 DEF SpansOK

LEMMA AddSteps ==
  ASSUME ScanInv, NEW i \in Index, LoadOperand(i) \/ StoreSum(i)
  PROVE  ScanInv'
<1> USE DEF ScanInv
<1>1. UNCHANGED <<cells, scan_pc, width>> /\ scan_pc = "round" /\ i \in untouched
  BY DEF LoadOperand, StoreSum
<1>2. Index' = Index
  BY <1>1 DEF Index
<1>3. /\ \A j : Adds(j)' <=> Adds(j)
      /\ \A j : Source(j)' = Source(j)
      /\ \A j : Span(j, width)' = Span(j, width) /\ Span(j, 2 * width)' = Span(j, 2 * width)
  BY <1>1, <1>2 DEF Adds, Source, Span
<1>4. \A j \in Index : Adds(j) => Source(j) \in Index /\ ~ Adds(Source(j))
  BY RoundOf
<1>5. sum[i] = Span(i, width)
  BY <1>1 DEF SpansOK
<1>6. CASE LoadOperand(i)
  <2>1. /\ UNCHANGED <<untouched, sum>> /\ Adds(i) /\ loaded' = [loaded EXCEPT ![i] = sum[Source(i)]]
    BY <1>6 DEF LoadOperand
  <2>2. sum[Source(i)] = Span(Source(i), width)
    BY <1>1, <1>4, <2>1 DEF SpansOK
  <2>3. loaded'[i] = Span(Source(i), width) /\ \A j \in Index : j # i => loaded'[j] = loaded[j]
    BY <2>1, <2>2 DEF ScanTypeOK
  <2>4. ScanTypeOK'
    BY <1>1, <1>2, <2>1 DEF ScanTypeOK
  <2> QED BY <1>1, <1>2, <1>3, <2>1, <2>3, <2>4 DEF SpansOK
<1>7. CASE StoreSum(i)
  <2>1. /\ loaded[i] # NoOperand /\ sum' = [sum EXCEPT ![i] = Plus(sum[i], loaded[i])]
        /\ loaded' = [loaded EXCEPT ![i] = NoOperand] /\ untouched' = untouched \ {i}
    BY <1>7 DEF StoreSum
  <2>2. Adds(i) /\ loaded[i] = Span(Source(i), width)
    BY <1>1, <2>1 DEF SpansOK
  <2>3. sum'[i] = Span(i, 2 * width) /\ \A j \in Index : j # i => sum'[j] = sum[j]
    <3>1. Plus(Span(i, width), Span(Source(i), width)) = Span(i, 2 * width)
      BY <2>2, RoundOf
    <3> QED BY <1>5, <2>1, <2>2, <3>1 DEF ScanTypeOK
  <2>4. loaded'[i] = NoOperand /\ \A j \in Index : j # i => loaded'[j] = loaded[j]
    BY <2>1 DEF ScanTypeOK
  <2>5. ScanTypeOK'
    BY <1>1, <1>2, <2>1 DEF ScanTypeOK
  <2> QED BY <1>1, <1>2, <1>3, <2>1, <2>2, <2>3, <2>4, <2>5 DEF SpansOK
<1> QED BY <1>6, <1>7

LEMMA BarrierStep ==
  ASSUME ScanInv, Barrier
  PROVE  ScanInv'
<1> USE DEF ScanInv
<1>1. /\ UNCHANGED <<cells, loaded, sum>> /\ scan_pc \in {"load", "round"}
      /\ AllArrived /\ untouched' = Index
      /\ width' = IF scan_pc = "load" THEN 1 ELSE 2 * width
      /\ scan_pc' = IF width' >= cells THEN "done" ELSE "round"
  BY DEF Barrier, LastRound
<1>2. Index' = Index /\ \A j, w : Span(j, w)' = Span(j, w)
  BY <1>1 DEF Index, Span
<1>3. width \in Nat \ {0} /\ width' \in Nat \ {0} /\ cells \in Nat
  BY <1>1 DEF ScanTypeOK
<1>4. \A j \in Index : sum[j] = Span(j, width')
  <2>1. CASE scan_pc = "load"
    BY <1>1, <2>1 DEF SpansOK, AllArrived
  <2>2. CASE scan_pc = "round"
    <3> SUFFICES ASSUME NEW j \in Index PROVE sum[j] = Span(j, 2 * width)
      BY <1>1, <2>2
    <3>1. j \in untouched => ~ Adds(j)
      BY <1>1, <2>2 DEF AllArrived
    <3> QED BY <2>2, <3>1, RoundOf DEF SpansOK
  <2> QED BY <1>1, <2>1, <2>2
<1>5. \A j \in Index : loaded[j] = NoOperand
  <2>1. CASE scan_pc = "load"
    BY <2>1 DEF SpansOK
  <2>2. CASE scan_pc = "round"
    <3> SUFFICES ASSUME NEW j \in Index, loaded[j] # NoOperand PROVE FALSE
      OBVIOUS
    <3>1. Adds(j)
      BY <2>2 DEF SpansOK
    <3>2. j \in untouched
      BY <2>2 DEF SpansOK
    <3> QED BY <1>1, <2>2, <3>1, <3>2 DEF AllArrived
  <2> QED BY <1>1, <2>1, <2>2
<1>6. ScanTypeOK'
  BY <1>1, <1>2, <1>3 DEF ScanTypeOK
<1> QED BY <1>1, <1>2, <1>3, <1>4, <1>5, <1>6 DEF SpansOK

LEMMA ScanNextStep ==
  ASSUME ScanInv, [ScanNext]_scanVars
  PROVE  ScanInv'
<1>1. CASE UNCHANGED scanVars
  <2>1. UNCHANGED <<cells, scan_pc, width, untouched, loaded, sum>> /\ Index' = Index
    BY <1>1 DEF scanVars, Index
  <2>2. ScanTypeOK'
    BY <2>1 DEF ScanInv, ScanTypeOK
  <2>3. SpansOK'
    BY <2>1 DEF ScanInv, SpansOK, Span, Adds, Source
  <2> QED BY <2>2, <2>3 DEF ScanInv
<1> QED BY <1>1, LoadStep, AddSteps, BarrierStep DEF ScanNext

LEMMA ScanInvIsEnough ==
  ASSUME ScanInv
  PROVE  PrefixSums
<1> SUFFICES ASSUME scan_pc = "done", NEW i \in Index
             PROVE  sum[i] = [c \in Index |-> IF c < i THEN 1 ELSE 0]
  BY DEF PrefixSums
<1>1. i \in Nat /\ i < width /\ width \in Nat \ {0} /\ sum[i] = Span(i, width)
  BY DEF ScanInv, ScanTypeOK, SpansOK, Index
<1>2. BlockStart(i, width) = 0
  BY <1>1, FirstBlock
<1>3. \A c \in Index : c \in Nat
  BY DEF Index, ScanInv, ScanTypeOK
<1>4. \A c \in Index : (IF 0 - 1 <= c /\ c < i THEN 1 ELSE 0) = (IF c < i THEN 1 ELSE 0)
  BY <1>3
<1> QED BY <1>1, <1>2, <1>4 DEF Span

(* What every element holds in the middle of a round, whichever threads of    *)
(* the block have run.                                                        *)
THEOREM ScanInvariance == ScanSpec => []ScanInv
<1>1. ScanInit => ScanInv
  BY ScanInitial
<1>2. ScanInv /\ [ScanNext]_scanVars => ScanInv'
  BY ScanNextStep
<1> QED BY <1>1, <1>2, PTL DEF ScanSpec

(* When the scan has ended, element i holds every cell below i once and no    *)
(* other, for every length of the track, a power of two or not, and every     *)
(* order in which the threads load and store between two barriers             *)
(* (PrefixSums).                                                              *)
THEOREM ScanIsPrefixSum == ScanSpec => []PrefixSums
BY ScanInvariance, ScanInvIsEnough, PTL

(* The same of the scan as the router runs it: nothing that is done to a net  *)
(* before or after it disturbs the sums (PrefixSums).                         *)
THEOREM RouteKeepsPrefixSums == RouteSpec => []PrefixSums
<1>1. RouteInit => ScanInv
  BY ScanInitial DEF RouteInit
<1>2. ScanInv /\ [RouteNext]_allVars => ScanInv'
  <2> SUFFICES ASSUME ScanInv, [RouteNext]_allVars PROVE ScanInv'
    OBVIOUS
  <2>1. [ScanNext]_scanVars
    BY DEF RouteNext, allVars, InitNet, Scan, Stage1, StartStage2, Stage2, OutputNets, Evaluate
  <2> QED BY <2>1, ScanNextStep
<1> QED BY <1>1, <1>2, ScanInvIsEnough, PTL DEF RouteSpec
-----------------------------------------------------------------------------
(* Induction on the numbers, for the steps that a set can express.            *)
LEMMA LeastOf ==
  ASSUME NEW S \in SUBSET Nat, S # {}
  PROVE  \E m \in S : \A k \in S : m <= k
<1>1. IsWellFoundedOn(OpToRel(<, Nat), Nat)
  BY NatLessThanWellFounded
<1>2. PICK m \in S : \A k \in S : ~ (<<k, m>> \in OpToRel(<, Nat))
  BY <1>1, WFMin
<1>3. \A k \in S : ~ (k < m)
  BY <1>2 DEF OpToRel
<1>4. m \in Nat /\ \A k \in S : k \in Nat
  OBVIOUS
<1> QED BY <1>3, <1>4

LEMMA ByStep ==
  ASSUME NEW S, 0 \in S, \A m \in Nat : m \in S => m + 1 \in S
  PROVE  \A m \in Nat : m \in S
<1> DEFINE Bad == {m \in Nat : m \notin S}
<1> SUFFICES ASSUME Bad # {} PROVE FALSE
  OBVIOUS
<1>1. Bad \in SUBSET Nat
  OBVIOUS
<1>2. PICK m \in Bad : \A k \in Bad : m <= k
  BY <1>1, LeastOf
<1>3. m \in Nat /\ m \notin S /\ m # 0
  BY <1>2
<1>4. m - 1 \in Nat /\ m - 1 < m /\ (m - 1) + 1 = m
  BY <1>3
<1>5. m - 1 \in S
  BY <1>2, <1>4
<1> QED BY <1>3, <1>4, <1>5

-----------------------------------------------------------------------------
(* What a loop adds up.                                                       *)
Loop(f, first, n, g) ==
  g = [i \in 0 .. n |-> IF i = 0 THEN 0 ELSE g[i - 1] + f[first + i - 1]]

LEMMA LoopRuns ==
  ASSUME NEW f, NEW first \in Int, NEW n \in Nat
  PROVE  \E g : Loop(f, first, n, g)
<1> DEFINE S == {k \in Nat : \E g : Loop(f, first, k, g)}
<1>1. 0 \in S
  <2> DEFINE g == [i \in 0 .. 0 |-> 0]
  <2>1. \A i \in 0 .. 0 : i = 0
    OBVIOUS
  <2>2. g = [i \in 0 .. 0 |-> IF i = 0 THEN 0 ELSE g[i - 1] + f[first + i - 1]]
    BY <2>1
  <2> HIDE DEF g
  <2>3. Loop(f, first, 0, g)
    BY <2>2 DEF Loop
  <2> QED BY <2>3
<1>2. ASSUME NEW m \in Nat, m \in S PROVE m + 1 \in S
  <2>1. PICK g : Loop(f, first, m, g)
    BY <1>2
  <2> DEFINE h == [i \in 0 .. m + 1 |-> IF i = m + 1 THEN g[m] + f[first + m] ELSE g[i]]
  <2>2. \A i \in 0 .. m : g[i] = IF i = 0 THEN 0 ELSE g[i - 1] + f[first + i - 1]
    BY <2>1 DEF Loop
  <2>3. ASSUME NEW i \in 0 .. m + 1
        PROVE  h[i] = IF i = 0 THEN 0 ELSE h[i - 1] + f[first + i - 1]
    <3>1. CASE i = m + 1
      <4>1. i - 1 = m /\ i # 0 /\ m \in 0 .. m + 1 /\ m # m + 1
        BY <3>1
      <4>2. h[i - 1] = g[m] /\ h[i] = g[m] + f[first + m]
        BY <3>1, <4>1
      <4>3. first + i - 1 = first + m
        BY <3>1
      <4> QED BY <4>1, <4>2, <4>3
    <3>2. CASE i # m + 1 /\ i # 0
      <4>1. i \in 0 .. m /\ i - 1 \in 0 .. m + 1 /\ i - 1 # m + 1
        BY <3>2
      <4>2. h[i] = g[i] /\ h[i - 1] = g[i - 1]
        BY <3>2, <4>1
      <4> QED BY <2>2, <3>2, <4>1, <4>2
    <3>3. CASE i # m + 1 /\ i = 0
      <4>1. i \in 0 .. m
        BY <3>3
      <4> QED BY <2>2, <3>3, <4>1
    <3> QED BY <3>1, <3>2, <3>3
  <2>4. h = [i \in 0 .. m + 1 |-> h[i]]
    OBVIOUS
  <2> HIDE DEF h
  <2>5. Loop(f, first, m + 1, h)
    BY <2>3, <2>4 DEF Loop
  <2> QED BY <2>5
<1> HIDE DEF S
<1>3. n \in S
  BY <1>1, <1>2, ByStep
<1> QED BY <1>3 DEF S

LEMMA LoopsAgree ==
  ASSUME NEW f, NEW first \in Int, NEW n \in Nat, NEW m \in Nat, m <= n,
         NEW g, Loop(f, first, n, g), NEW h, Loop(f, first, m, h)
  PROVE  \A i \in 0 .. m : g[i] = h[i]
<1> DEFINE S == {k \in Nat : k <= m => g[k] = h[k]}
<1>1. \A i \in 0 .. n : g[i] = IF i = 0 THEN 0 ELSE g[i - 1] + f[first + i - 1]
  BY DEF Loop
<1>2. \A i \in 0 .. m : h[i] = IF i = 0 THEN 0 ELSE h[i - 1] + f[first + i - 1]
  BY DEF Loop
<1>3. 0 \in S
  <2>1. 0 \in 0 .. n /\ 0 \in 0 .. m
    OBVIOUS
  <2> QED BY <1>1, <1>2, <2>1
<1>4. ASSUME NEW k \in Nat, k \in S PROVE k + 1 \in S
  <2> SUFFICES ASSUME k + 1 <= m PROVE g[k + 1] = h[k + 1]
    OBVIOUS
  <2>1. k + 1 \in 0 .. n /\ k + 1 \in 0 .. m /\ k + 1 # 0 /\ (k + 1) - 1 = k /\ k <= m
    OBVIOUS
  <2>2. g[k] = h[k]
    BY <1>4, <2>1
  <2>3. g[k + 1] = g[k] + f[first + (k + 1) - 1]
    BY <1>1, <2>1
  <2>4. h[k + 1] = h[k] + f[first + (k + 1) - 1]
    BY <1>2, <2>1
  <2> QED BY <2>2, <2>3, <2>4
<1> HIDE DEF S
<1>5. \A k \in Nat : k \in S
  BY <1>3, <1>4, ByStep
<1> QED BY <1>5 DEF S

LEMMA SummedStep ==
  ASSUME NEW f, NEW first \in Int
  PROVE  /\ Summed(f, first, 0) = 0
         /\ \A n \in Nat : Summed(f, first, n + 1) = Summed(f, first, n) + f[first + n]
<1>1. ASSUME NEW n \in Nat
      PROVE  \E g : Loop(f, first, n, g) /\ Summed(f, first, n) = g[n]
  <2> DEFINE total == CHOOSE g : Loop(f, first, n, g)
  <2>1. Loop(f, first, n, total)
    BY LoopRuns
  <2>2. Summed(f, first, n) = total[n]
    BY DEF Summed, Loop
  <2> QED BY <2>1, <2>2
<1>2. Summed(f, first, 0) = 0
  <2>1. PICK g : Loop(f, first, 0, g) /\ Summed(f, first, 0) = g[0]
    BY <1>1
  <2> QED BY <2>1 DEF Loop
<1>3. ASSUME NEW n \in Nat
      PROVE  Summed(f, first, n + 1) = Summed(f, first, n) + f[first + n]
  <2>1. n + 1 \in Nat /\ n <= n + 1 /\ n \in 0 .. n /\ n + 1 \in 0 .. n + 1 /\ n + 1 # 0
        /\ (n + 1) - 1 = n /\ first + (n + 1) - 1 = first + n
    OBVIOUS
  <2>2. PICK g : Loop(f, first, n + 1, g) /\ Summed(f, first, n + 1) = g[n + 1]
    BY <1>1, <2>1
  <2>3. PICK h : Loop(f, first, n, h) /\ Summed(f, first, n) = h[n]
    BY <1>1
  <2>4. g[n] = h[n]
    BY <2>1, <2>2, <2>3, LoopsAgree
  <2>5. \A i \in 0 .. n + 1 : g[i] = IF i = 0 THEN 0 ELSE g[i - 1] + f[first + i - 1]
    BY <2>2 DEF Loop
  <2>6. g[n + 1] = g[n] + f[first + n]
    BY <2>1, <2>5
  <2> QED BY <2>2, <2>3, <2>4, <2>6
<1> QED BY <1>2, <1>3

LEMMA SummedNat ==
  ASSUME NEW f, NEW first \in Int, NEW n \in Nat,
         \A i \in first .. first + n - 1 : f[i] \in Nat
  PROVE  Summed(f, first, n) \in Nat
<1> DEFINE S == {k \in Nat : k <= n => Summed(f, first, k) \in Nat}
<1>1. 0 \in S
  BY SummedStep
<1>2. ASSUME NEW k \in Nat, k \in S PROVE k + 1 \in S
  <2> SUFFICES ASSUME k + 1 <= n PROVE Summed(f, first, k + 1) \in Nat
    OBVIOUS
  <2>1. first + k \in first .. first + n - 1 /\ k <= n
    OBVIOUS
  <2>2. f[first + k] \in Nat /\ Summed(f, first, k) \in Nat
    BY <1>2, <2>1
  <2>3. Summed(f, first, k + 1) = Summed(f, first, k) + f[first + k]
    BY SummedStep
  <2> QED BY <2>2, <2>3
<1> HIDE DEF S
<1>3. n \in S
  BY <1>1, <1>2, ByStep
<1> QED BY <1>3 DEF S

(* Sums of other terms: no less, or the same.                                 *)
LEMMA SummedLeq ==
  ASSUME NEW f, NEW g, NEW first \in Int, NEW n \in Nat,
         \A i \in first .. first + n - 1 : f[i] \in Nat /\ g[i] \in Nat /\ f[i] <= g[i]
  PROVE  Summed(f, first, n) <= Summed(g, first, n)
<1> DEFINE S == {k \in Nat : k <= n => Summed(f, first, k) <= Summed(g, first, k)}
<1>1. 0 \in S
  BY SummedStep
<1>2. ASSUME NEW k \in Nat, k \in S PROVE k + 1 \in S
  <2> SUFFICES ASSUME k + 1 <= n PROVE Summed(f, first, k + 1) <= Summed(g, first, k + 1)
    OBVIOUS
  <2>1. first + k \in first .. first + n - 1 /\ k <= n
        /\ \A i \in first .. first + k - 1 : i \in first .. first + n - 1
    OBVIOUS
  <2>2. f[first + k] \in Nat /\ g[first + k] \in Nat /\ f[first + k] <= g[first + k]
        /\ Summed(f, first, k) <= Summed(g, first, k)
    BY <1>2, <2>1
  <2>3. Summed(f, first, k) \in Nat /\ Summed(g, first, k) \in Nat
    BY <2>1, SummedNat
  <2>4. Summed(f, first, k + 1) = Summed(f, first, k) + f[first + k]
    BY SummedStep
  <2>5. Summed(g, first, k + 1) = Summed(g, first, k) + g[first + k]
    BY SummedStep
  <2> QED BY <2>2, <2>3, <2>4, <2>5
<1> HIDE DEF S
<1>3. n \in S
  BY <1>1, <1>2, ByStep
<1> QED BY <1>3 DEF S

LEMMA SummedSame ==
  ASSUME NEW f, NEW g, NEW first \in Int, NEW n \in Nat,
         \A i \in first .. first + n - 1 : f[i] = g[i]
  PROVE  Summed(f, first, n) = Summed(g, first, n)
<1> DEFINE S == {k \in Nat : k <= n => Summed(f, first, k) = Summed(g, first, k)}
<1>1. 0 \in S
  BY SummedStep
<1>2. ASSUME NEW k \in Nat, k \in S PROVE k + 1 \in S
  <2> SUFFICES ASSUME k + 1 <= n PROVE Summed(f, first, k + 1) = Summed(g, first, k + 1)
    OBVIOUS
  <2>1. first + k \in first .. first + n - 1 /\ k <= n
    OBVIOUS
  <2>2. f[first + k] = g[first + k] /\ Summed(f, first, k) = Summed(g, first, k)
    BY <1>2, <2>1
  <2>4. Summed(f, first, k + 1) = Summed(f, first, k) + f[first + k]
    BY SummedStep
  <2>5. Summed(g, first, k + 1) = Summed(g, first, k) + g[first + k]
    BY SummedStep
  <2> QED BY <2>2, <2>4, <2>5
<1> HIDE DEF S
<1>3. n \in S
  BY <1>1, <1>2, ByStep
<1> QED BY <1>3 DEF S

(* One term more at u.                                                        *)
LEMMA SummedChange ==
  ASSUME NEW f, NEW g, NEW first \in Int, NEW n \in Nat, NEW u \in first .. first + n - 1,
         NEW d \in Nat, g[u] = f[u] + d,
         \A i \in first .. first + n - 1 : f[i] \in Nat /\ (i # u => g[i] = f[i])
  PROVE  Summed(g, first, n) = Summed(f, first, n) + d
<1> DEFINE More(k) == IF u < first + k THEN d ELSE 0
           S == {k \in Nat : k <= n => Summed(g, first, k) = Summed(f, first, k) + More(k)}
<1>1. 0 \in S
  <2>1. More(0) = 0
    OBVIOUS
  <2> QED BY <2>1, SummedStep
<1>2. ASSUME NEW k \in Nat, k \in S PROVE k + 1 \in S
  <2> SUFFICES ASSUME k + 1 <= n
               PROVE  Summed(g, first, k + 1) = Summed(f, first, k + 1) + More(k + 1)
    OBVIOUS
  <2>1. first + k \in first .. first + n - 1 /\ k <= n
        /\ \A i \in first .. first + k - 1 : i \in first .. first + n - 1
    OBVIOUS
  <2>2. Summed(g, first, k) = Summed(f, first, k) + More(k)
    BY <1>2, <2>1
  <2>3. Summed(f, first, k) \in Nat /\ f[first + k] \in Nat
    BY <2>1, SummedNat
  <2>4. Summed(f, first, k + 1) = Summed(f, first, k) + f[first + k]
    BY SummedStep
  <2>5. Summed(g, first, k + 1) = Summed(g, first, k) + g[first + k]
    BY SummedStep
  <2>6. CASE u = first + k
    <3>1. More(k) = 0 /\ More(k + 1) = d /\ g[first + k] = f[first + k] + d
      BY <2>6
    <3> HIDE DEF More
    <3> QED BY <2>2, <2>3, <2>4, <2>5, <3>1
  <2>7. CASE u # first + k
    <3>1. More(k + 1) = More(k) /\ More(k) \in Nat
      BY <2>7
    <3>2. g[first + k] = f[first + k]
      BY <2>1, <2>7
    <3> HIDE DEF More
    <3> QED BY <2>2, <2>3, <2>4, <2>5, <3>1, <3>2
  <2> QED BY <2>6, <2>7
<1>3. More(n) = d
  OBVIOUS
<1> HIDE DEF S, More
<1>4. n \in S
  BY <1>1, <1>2, ByStep
<1> QED BY <1>3, <1>4 DEF S

LEMMA SummedTerm ==
  ASSUME NEW f, NEW first \in Int, NEW n \in Nat, NEW u \in first .. first + n - 1,
         \A i \in first .. first + n - 1 : f[i] \in Nat
  PROVE  f[u] <= Summed(f, first, n)
<1> DEFINE g == [i \in first .. first + n - 1 |-> IF i = u THEN f[u] ELSE 0]
           z == [i \in first .. first + n - 1 |-> 0]
<1>1. \A i \in first .. first + n - 1 : g[i] \in Nat /\ f[i] \in Nat /\ g[i] <= f[i]
  OBVIOUS
<1>2. \A i \in first .. first + n - 1 : z[i] \in Nat /\ (i # u => g[i] = z[i])
  OBVIOUS
<1>3. g[u] = z[u] + f[u] /\ f[u] \in Nat
  OBVIOUS
<1> HIDE DEF g, z
<1>4. Summed(g, first, n) <= Summed(f, first, n)
  BY <1>1, SummedLeq
<1>5. Summed(g, first, n) = Summed(z, first, n) + f[u]
  BY <1>2, <1>3, SummedChange
<1>6. Summed(z, first, n) \in Nat
  BY <1>2, SummedNat
<1>7. Summed(f, first, n) \in Nat
  BY SummedNat
<1> QED BY <1>3, <1>4, <1>5, <1>6, <1>7

LEMMA SummedSplit ==
  ASSUME NEW f, NEW first \in Int, NEW m \in Nat, NEW n \in Nat,
         \A i \in first .. first + m + n - 1 : f[i] \in Nat
  PROVE  Summed(f, first, m + n) = Summed(f, first, m) + Summed(f, first + m, n)
<1> DEFINE S == {k \in Nat : k <= n =>
                   Summed(f, first, m + k) = Summed(f, first, m) + Summed(f, first + m, k)}
<1>1. Summed(f, first, m) \in Nat
  BY SummedNat
<1>2. 0 \in S
  <2>1. Summed(f, first + m, 0) = 0 /\ m + 0 = m
    BY SummedStep
  <2> QED BY <1>1, <2>1
<1>3. ASSUME NEW k \in Nat, k \in S PROVE k + 1 \in S
  <2> SUFFICES ASSUME k + 1 <= n
               PROVE  Summed(f, first, m + (k + 1))
                        = Summed(f, first, m) + Summed(f, first + m, k + 1)
    OBVIOUS
  <2>1. m + k \in Nat /\ m + (k + 1) = (m + k) + 1 /\ first + m \in Int /\ k <= n
        /\ (first + m) + k = first + (m + k)
        /\ (first + m) + k \in first .. first + m + n - 1
    OBVIOUS
  <2>2. Summed(f, first, (m + k) + 1) = Summed(f, first, m + k) + f[first + (m + k)]
    BY <2>1, SummedStep
  <2>3. Summed(f, first + m, k + 1) = Summed(f, first + m, k) + f[(first + m) + k]
    BY <2>1, SummedStep
  <2>4. Summed(f, first, m + k) = Summed(f, first, m) + Summed(f, first + m, k)
    BY <1>3, <2>1
  <2>5. Summed(f, first + m, k) \in Nat
    <3>1. \A i \in first + m .. (first + m) + k - 1 : i \in first .. first + m + n - 1
      BY <2>1
    <3> QED BY <2>1, <3>1, SummedNat
  <2>6. f[(first + m) + k] \in Nat
    BY <2>1
  <2> QED BY <1>1, <2>1, <2>2, <2>3, <2>4, <2>5, <2>6
<1> HIDE DEF S
<1>4. n \in S
  BY <1>2, <1>3, ByStep
<1> QED BY <1>4 DEF S
-----------------------------------------------------------------------------
(* Least elements.                                                            *)
LEMMA MinIs ==
  ASSUME NEW S \in SUBSET Nat, S # {}
  PROVE  Min(S) \in S /\ \A k \in S : Min(S) <= k
<1>1. \E m \in S : \A k \in S : m <= k
  BY LeastOf
<1> QED BY <1>1 DEF Min

LEMMA MaxIs ==
  ASSUME NEW N \in Int, NEW M \in Int, NEW S \in SUBSET (M .. N), S # {}
  PROVE  Max(S) \in S /\ \A k \in S : k <= Max(S)
<1> DEFINE T == {N - k : k \in S}
<1>1. T \in SUBSET Nat /\ T # {}
  <2>1. \A k \in S : k \in M .. N
    OBVIOUS
  <2>2. \A k \in M .. N : N - k \in Nat
    OBVIOUS
  <2> QED BY <2>1, <2>2
<1>2. PICK m \in T : \A k \in T : m <= k
  BY <1>1, LeastOf
<1>3. PICK s \in S : m = N - s
  BY <1>2
<1>4. \A k \in S : k \in Int /\ k <= s
  BY <1>2, <1>3
<1>5. \E x \in S : \A k \in S : x >= k
  BY <1>3, <1>4
<1>6. Max(S) \in S /\ \A k \in S : Max(S) >= k
  BY <1>5 DEF Max
<1> QED BY <1>4, <1>6

LEMMA FirstOf ==
  ASSUME NEW C, C # {}, NEW p, \A a \in C : p[a] \in Nat \X Nat,
         \A a \in C, b \in C : p[a] = p[b] => a = b
  PROVE  \E a \in C : \A b \in C : a = b \/ Before(p[a], p[b])
<1> DEFINE S1 == {p[a][1] : a \in C}
<1>1. S1 \in SUBSET Nat /\ S1 # {}
  OBVIOUS
<1>2. PICK m1 \in S1 : \A k \in S1 : m1 <= k
  BY <1>1, LeastOf
<1> DEFINE S2 == {p[a][2] : a \in {b \in C : p[b][1] = m1}}
<1>3. S2 \in SUBSET Nat /\ S2 # {}
  BY <1>2
<1>4. PICK m2 \in S2 : \A k \in S2 : m2 <= k
  BY <1>3, LeastOf
<1>5. PICK a \in C : p[a][1] = m1 /\ p[a][2] = m2
  BY <1>4
<1>6. ASSUME NEW b \in C, b # a PROVE Before(p[a], p[b])
  <2>1. p[a] \in Nat \X Nat /\ p[b] \in Nat \X Nat /\ p[a] # p[b]
    BY <1>6
  <2>2. m1 <= p[b][1]
    BY <1>2
  <2>3. p[b][1] = m1 => m2 <= p[b][2]
    BY <1>4
  <2> QED BY <1>5, <2>1, <2>2, <2>3 DEF Before
<1> QED BY <1>6

(* What a strict comparison keeps is least; of ties the first.                *)
CheapestOf(S, t) == {a \in S : t[a] = Min({t[b] : b \in S})}

LEMMA CheapestIs ==
  ASSUME NEW S, S # {}, NEW t, \A a \in S : t[a] \in Nat
  PROVE  /\ CheapestOf(S, t) # {} /\ CheapestOf(S, t) \subseteq S
         /\ \A a \in CheapestOf(S, t) : \A b \in S : t[a] <= t[b]
<1> DEFINE T == {t[b] : b \in S}
<1>1. T \in SUBSET Nat /\ T # {}
  OBVIOUS
<1>2. Min(T) \in T /\ \A k \in T : Min(T) <= k
  BY <1>1, MinIs
<1> QED BY <1>2 DEF CheapestOf

(* The first of the cheapest ranges of layers.                                *)
FirstRange(S, c) ==
  LET C == CheapestOf(S, [a \in S |-> c[a]])
  IN  CHOOSE a \in C : \A b \in C : a = b \/ Before(a, b)

LEMMA FirstRangeIs ==
  ASSUME NEW S \in SUBSET LayerRange, S # {}, NEW c, \A a \in S : c[a] \in Nat
  PROVE  /\ FirstRange(S, c) \in S
         /\ \A b \in S : c[FirstRange(S, c)] <= c[b]
<1> DEFINE t == [a \in S |-> c[a]]
           C == CheapestOf(S, t)
           f == CHOOSE a \in C : \A b \in C : a = b \/ Before(a, b)
<1>1. FirstRange(S, c) = f
  BY DEF FirstRange
<1>2. \A a \in S : t[a] = c[a] /\ t[a] \in Nat
  OBVIOUS
<1> HIDE DEF t
<1>3. /\ C # {} /\ C \subseteq S /\ \A a \in C : \A b \in S : t[a] <= t[b]
  BY <1>2, CheapestIs
<1>4. \E a \in C : \A b \in C : a = b \/ Before(a, b)
  <2> DEFINE p == [a \in C |-> a]
  <2>1. \A a \in C : p[a] = a
    OBVIOUS
  <2>2. \A a \in C : a \in Nat \X Nat
    BY <1>3, RouteGridAssumption DEF LayerRange, Layer
  <2> HIDE DEF p, C
  <2>3. \A a \in C : p[a] \in Nat \X Nat
    BY <2>1, <2>2
  <2>4. \A a \in C, b \in C : p[a] = p[b] => a = b
    BY <2>1
  <2>5. C # {}
    BY <1>3
  <2>6. \E a \in C : \A b \in C : a = b \/ Before(p[a], p[b])
    BY <2>3, <2>4, <2>5, FirstOf
  <2> QED BY <2>1, <2>6
<1>5. f \in C
  BY <1>4
<1> HIDE DEF f, C
<1> QED BY <1>1, <1>2, <1>3, <1>5
-----------------------------------------------------------------------------
(* Costs are numbers, and a taller stack costs no less.                       *)
Place == [x : 0 .. X - 1, y : 0 .. Y - 1]

TreeOK ==
  /\ table \in DOMAIN Costs
  /\ tree.up \in Seq(Nat) /\ Len(tree.up) > 1
  /\ \A i \in 2 .. Len(tree.up) : tree.up[i] \in 1 .. i - 1
  /\ tree.at \in [1 .. Len(tree.up) -> Place]
  /\ tree.metal \in [1 .. Len(tree.up) -> NoMetal .. L]

LEMMA Sizes ==
  /\ L \in Nat /\ L > 1 /\ X \in Nat /\ X > 0 /\ Y \in Nat /\ Y > 0 /\ Inf \in Nat
  /\ \A l \in Layer : l \in Nat /\ l < L
  BY RouteGridAssumption, GridAssumption DEF Layer

LEMMA StackIs ==
  ASSUME NEW k \in DOMAIN Costs, NEW p \in Place,
         NEW lo \in Layer, NEW hi \in Layer, lo <= hi,
         NEW a \in Int, NEW b \in Int, lo <= a, a <= b, b <= hi
  PROVE  /\ StackCost(k, a, b, p) \in Nat /\ StackCost(k, lo, hi, p) \in Nat
         /\ StackCost(k, a, b, p) <= StackCost(k, lo, hi, p)
<1> DEFINE v == [l \in Layer |-> Costs[k].via[l][p.x][p.y]]
<1>1. \A l \in Layer : v[l] \in Nat
  <2>1. Costs[k].via \in [0 .. L - 1 -> [0 .. X - 1 -> [0 .. Y - 1 -> Nat]]]
    BY RouteGridAssumption
  <2>2. p.x \in 0 .. X - 1 /\ p.y \in 0 .. Y - 1
    BY DEF Place
  <2>3. ASSUME NEW l \in Layer PROVE v[l] \in Nat
    <3>1. Costs[k].via[l] \in [0 .. X - 1 -> [0 .. Y - 1 -> Nat]]
      BY <2>1 DEF Layer
    <3> QED BY <2>2, <3>1
  <2> QED BY <2>3
<1>2. \A m \in Int, n \in Int : StackCost(k, m, n, p) = Summed(v, m, n - m)
  BY DEF StackCost
<1> HIDE DEF v
<1>3. \A l \in lo .. hi - 1 : v[l] \in Nat
  BY <1>1, Sizes DEF Layer
<1>4. lo \in Int /\ hi \in Int
  BY Sizes
<1> DEFINE m == a - lo
           n == b - a
           r == hi - b
<1>5. /\ m \in Nat /\ n \in Nat /\ r \in Nat /\ n + r \in Nat
      /\ hi - lo = m + (n + r) /\ hi - lo \in Nat /\ lo + m = a /\ a + n = b /\ b - a = n
  BY <1>4
<1>6. Summed(v, lo, m + (n + r)) = Summed(v, lo, m) + Summed(v, a, n + r)
  <2>1. \A l \in lo .. lo + m + (n + r) - 1 : v[l] \in Nat
    BY <1>3, <1>4, <1>5
  <2> HIDE DEF m, n, r
  <2> QED BY <1>4, <1>5, <2>1, SummedSplit
<1>7. Summed(v, a, n + r) = Summed(v, a, n) + Summed(v, b, r)
  <2>1. \A l \in a .. a + n + r - 1 : v[l] \in Nat
    BY <1>3, <1>4, <1>5
  <2> HIDE DEF m, n, r
  <2> QED BY <1>5, <2>1, SummedSplit
<1>8. Summed(v, lo, m) \in Nat /\ Summed(v, a, n) \in Nat /\ Summed(v, b, r) \in Nat
  <2>1. /\ \A l \in lo .. lo + m - 1 : v[l] \in Nat
        /\ \A l \in a .. a + n - 1 : v[l] \in Nat
        /\ \A l \in b .. b + r - 1 : v[l] \in Nat
    BY <1>3, <1>4, <1>5
  <2> HIDE DEF m, n, r
  <2> QED BY <1>4, <1>5, <2>1, SummedNat
<1>9. StackCost(k, a, b, p) = Summed(v, a, n) /\ StackCost(k, lo, hi, p) = Summed(v, lo, m + (n + r))
  BY <1>2, <1>4, <1>5
<1> HIDE DEF m, n, r
<1> QED BY <1>6, <1>7, <1>8, <1>9

LEMMA SegmentIs ==
  ASSUME NEW k \in DOMAIN Costs, NEW l \in Layer, NEW p \in Place, NEW q \in Place,
         IF Vertical(l) THEN p.x = q.x ELSE p.y = q.y
  PROVE  wire_segment_cost(k, l, p, q) \in Nat
<1> DEFINE edge == Costs[k].edge[l]
           x1 == MinOf(p.x, q.x)
           x2 == MaxOf(p.x, q.x)
           y1 == MinOf(p.y, q.y)
           y2 == MaxOf(p.y, q.y)
<1>1. /\ x1 \in 0 .. X - 1 /\ x2 \in 0 .. X - 1 /\ x1 <= x2
      /\ y1 \in 0 .. Y - 1 /\ y2 \in 0 .. Y - 1 /\ y1 <= y2
      /\ IF Vertical(l) THEN x1 = x2 ELSE y1 = y2
  BY Sizes DEF Place, MinOf, MaxOf
<1>2. edge \in [0 .. X - 1 -> [0 .. Y - 1 -> Nat]]
  BY RouteGridAssumption DEF Layer
<1>3. wire_segment_cost(k, l, p, q) = presum[k][l][x2][y2] - presum[k][l][x1][y1]
  BY DEF wire_segment_cost
<1> HIDE DEF x1, x2, y1, y2
<1>4. CASE Vertical(l)
  <2> DEFINE v == edge[x1]
  <2>1. \A y \in 0 .. Y - 1 : presum[k][l][x1][y] = Summed(v, 0, y)
    BY <1>1, <1>4 DEF presum
  <2>2. \A i \in 0 .. Y - 1 : v[i] \in Nat
    BY <1>1, <1>2
  <2> HIDE DEF v, edge
  <2>3. y1 \in Nat /\ y2 - y1 \in Nat /\ y1 + (y2 - y1) = y2
    BY <1>1, Sizes
  <2>4. Summed(v, 0, y1 + (y2 - y1)) = Summed(v, 0, y1) + Summed(v, 0 + y1, y2 - y1)
    <3>1. \A i \in 0 .. 0 + y1 + (y2 - y1) - 1 : v[i] \in Nat
      BY <1>1, <2>2, <2>3, Sizes
    <3> QED BY <2>3, <3>1, SummedSplit
  <2>5. Summed(v, 0, y1) \in Nat /\ Summed(v, 0 + y1, y2 - y1) \in Nat
    <3>1. /\ \A i \in 0 .. 0 + y1 - 1 : v[i] \in Nat
          /\ \A i \in 0 + y1 .. (0 + y1) + (y2 - y1) - 1 : v[i] \in Nat
      BY <1>1, <2>2, <2>3, Sizes
    <3> QED BY <2>3, <3>1, SummedNat
  <2>6. wire_segment_cost(k, l, p, q) = Summed(v, 0, y2) - Summed(v, 0, y1)
    BY <1>1, <1>3, <1>4, <2>1
  <2> QED BY <2>3, <2>4, <2>5, <2>6
<1>5. CASE ~ Vertical(l)
  <2> DEFINE v == [c \in 0 .. X - 1 |-> edge[c][y1]]
  <2>1. \A x \in 0 .. X - 1 : presum[k][l][x][y1] = Summed(v, 0, x)
    BY <1>1, <1>5 DEF presum
  <2>2. \A i \in 0 .. X - 1 : v[i] \in Nat
    BY <1>1, <1>2
  <2> HIDE DEF v, edge
  <2>3. x1 \in Nat /\ x2 - x1 \in Nat /\ x1 + (x2 - x1) = x2
    BY <1>1, Sizes
  <2>4. Summed(v, 0, x1 + (x2 - x1)) = Summed(v, 0, x1) + Summed(v, 0 + x1, x2 - x1)
    <3>1. \A i \in 0 .. 0 + x1 + (x2 - x1) - 1 : v[i] \in Nat
      BY <1>1, <2>2, <2>3, Sizes
    <3> QED BY <2>3, <3>1, SummedSplit
  <2>5. Summed(v, 0, x1) \in Nat /\ Summed(v, 0 + x1, x2 - x1) \in Nat
    <3>1. /\ \A i \in 0 .. 0 + x1 - 1 : v[i] \in Nat
          /\ \A i \in 0 + x1 .. (0 + x1) + (x2 - x1) - 1 : v[i] \in Nat
      BY <1>1, <2>2, <2>3, Sizes
    <3> QED BY <2>3, <3>1, SummedNat
  <2>6. wire_segment_cost(k, l, p, q) = Summed(v, 0, x2) - Summed(v, 0, x1)
    BY <1>1, <1>3, <1>5, <2>1
  <2> QED BY <2>3, <2>4, <2>5, <2>6
<1> QED BY <1>4, <1>5

LEMMA Parents ==
  ASSUME TreeOK
  PROVE  /\ Len(tree.up) \in Nat /\ TreeNode = 1 .. Len(tree.up) /\ Len(tree.up) > 1
         /\ \A i \in TreeNode \ {1} : tree.up[i] \in 1 .. i - 1 /\ tree.up[i] \in TreeNode
         /\ \A i \in TreeNode : tree.at[i] \in Place
<1>1. Len(tree.up) \in Nat /\ TreeNode = 1 .. Len(tree.up)
  BY DEF TreeOK, TreeNode
<1>2. ASSUME NEW i \in TreeNode \ {1} PROVE tree.up[i] \in 1 .. i - 1 /\ tree.up[i] \in TreeNode
  <2>1. i \in 2 .. Len(tree.up)
    BY <1>1
  <2>2. tree.up[i] \in 1 .. i - 1
    BY <2>1 DEF TreeOK
  <2> QED BY <1>1, <2>1, <2>2
<1> QED BY <1>1, <1>2 DEF TreeOK

LEMMA EdgeIs ==
  ASSUME TreeOK, NEW i \in TreeNode \ {1}
  PROVE  /\ EdgeLayers(i) \subseteq Layer \X Layer
         /\ \A e \in EdgeLayers(i) : EdgeCost(i, e[1], e[2]) \in Nat
         /\ EdgeLayers(i) # {}
<1> DEFINE p == tree.at[i]
           q == tree.at[tree.up[i]]
<1>1. p \in Place /\ q \in Place /\ table \in DOMAIN Costs
  BY Parents DEF TreeOK
<1> HIDE DEF p, q
<1>2. EdgeLayers(i) =
        IF Flat(p, q)
        THEN {<<l, l>> : l \in {m \in Layer : IF Vertical(m) THEN p.x = q.x ELSE p.y = q.y}}
        ELSE {e \in Layer \X Layer : e[1] % 2 # e[2] % 2}
  BY DEF EdgeLayers, p, q
<1>3. 0 \in Layer /\ 1 \in Layer /\ (Vertical(0) <=> ~ Vertical(1))
  BY Sizes, RouteGridAssumption DEF Layer, Vertical
<1>4. EdgeLayers(i) # {} /\ EdgeLayers(i) \subseteq Layer \X Layer
  <2>1. CASE Flat(p, q)
    <3> DEFINE M == {m \in Layer : IF Vertical(m) THEN p.x = q.x ELSE p.y = q.y}
    <3>1. M # {} /\ M \subseteq Layer
      BY <1>3, <2>1 DEF Flat
    <3>2. EdgeLayers(i) = {<<l, l>> : l \in M}
      BY <1>2, <2>1
    <3> HIDE DEF M
    <3>3. \A l \in M : <<l, l>> \in Layer \X Layer
      BY <3>1
    <3> QED BY <3>1, <3>2, <3>3
  <2>2. CASE ~ Flat(p, q)
    <3> DEFINE E == {e \in Layer \X Layer : e[1] % 2 # e[2] % 2}
    <3>1. <<0, 1>> \in E
      BY <1>3
    <3>2. E \subseteq Layer \X Layer /\ EdgeLayers(i) = E
      BY <1>2, <2>2
    <3> HIDE DEF E
    <3> QED BY <3>1, <3>2
  <2> QED BY <2>1, <2>2
<1>5. ASSUME NEW e \in EdgeLayers(i) PROVE EdgeCost(i, e[1], e[2]) \in Nat
  <2> DEFINE c == Corner(p, e[1], q)
  <2>1. e[1] \in Layer /\ e[2] \in Layer /\ e[1] \in Nat /\ e[2] \in Nat
    BY <1>4, <1>5, Sizes
  <2>2. EdgeCost(i, e[1], e[2]) =
          IF Flat(p, q) THEN wire_segment_cost(table, e[1], p, q)
          ELSE wire_segment_cost(table, e[1], p, c)
               + StackCost(table, MinOf(e[1], e[2]) + 1, MaxOf(e[1], e[2]), c)
               + wire_segment_cost(table, e[2], c, q)
    BY DEF EdgeCost, p, q
  <2>3. CASE Flat(p, q)
    <3>1. IF Vertical(e[1]) THEN p.x = q.x ELSE p.y = q.y
      BY <1>2, <1>5, <2>3
    <3>2. wire_segment_cost(table, e[1], p, q) \in Nat
      BY <1>1, <2>1, <3>1, SegmentIs
    <3> QED BY <2>2, <2>3, <3>2
  <2>4. CASE ~ Flat(p, q)
    <3>1. c \in Place
          /\ (IF Vertical(e[1]) THEN c.x = p.x /\ c.y = q.y ELSE c.x = q.x /\ c.y = p.y)
      BY <1>1 DEF Corner, Place
    <3>2. e[1] % 2 # e[2] % 2
      BY <1>2, <1>5, <2>4
    <3>3. Vertical(e[1]) <=> ~ Vertical(e[2])
      BY <2>1, <3>2, RouteGridAssumption DEF Vertical
    <3> HIDE DEF c
    <3>4. wire_segment_cost(table, e[1], p, c) \in Nat
      BY <1>1, <2>1, <3>1, SegmentIs
    <3>5. wire_segment_cost(table, e[2], c, q) \in Nat
      BY <1>1, <2>1, <3>1, <3>3, SegmentIs
    <3>6. StackCost(table, MinOf(e[1], e[2]) + 1, MaxOf(e[1], e[2]), c) \in Nat
      <4> DEFINE lo == MinOf(e[1], e[2])
                 hi == MaxOf(e[1], e[2])
      <4>1. lo \in Layer /\ hi \in Layer /\ lo < hi
        BY <2>1, <3>2 DEF MinOf, MaxOf
      <4>2. lo \in Int /\ hi \in Int /\ lo + 1 \in Int /\ lo <= hi /\ lo <= lo + 1
            /\ lo + 1 <= hi /\ hi <= hi
        BY <4>1, Sizes
      <4> HIDE DEF lo, hi
      <4>3. StackCost(table, lo + 1, hi, c) \in Nat
        BY <1>1, <3>1, <4>1, <4>2, StackIs
      <4> QED BY <4>3 DEF lo, hi
    <3> QED BY <2>2, <2>4, <3>4, <3>5, <3>6
  <2> QED BY <2>3, <2>4
<1> QED BY <1>4, <1>5
-----------------------------------------------------------------------------
(* The tables of a node.                                                      *)
LEMMA RangeAtIs ==
  ASSUME NEW i, \A r \in LayerRange : dist[i][r] \in Nat, NEW l \in Layer
  PROVE  /\ RangeAt(i, l) \in LayerRange /\ Covers(RangeAt(i, l), l)
         /\ \A r \in LayerRange : Covers(r, l) => dist[i][RangeAt(i, l)] <= dist[i][r]
<1> DEFINE S == {r \in LayerRange : Covers(r, l)}
<1>1. S \in SUBSET LayerRange /\ S # {}
  <2>1. <<l, l>> \in LayerRange /\ Covers(<<l, l>>, l)
    BY Sizes DEF LayerRange, Covers
  <2> QED BY <2>1
<1>2. RangeAt(i, l) = FirstRange(S, dist[i])
  BY DEF RangeAt, FirstCheapest, FirstRange, CheapestOf
<1>3. \A a \in S : dist[i][a] \in Nat
  BY <1>1
<1>4. FirstRange(S, dist[i]) \in S /\ \A b \in S : dist[i][FirstRange(S, dist[i])] <= dist[i][b]
  <2> HIDE DEF S
  <2> QED BY <1>1, <1>3, FirstRangeIs
<1> QED BY <1>2, <1>4

LEMMA ChoiceIs ==
  ASSUME TreeOK, NEW i \in TreeNode \ {1}, \A r \in LayerRange : dist[i][r] \in Nat,
         NEW r \in LayerRange, EdgeChoices(i, r) # {}
  PROVE  /\ Choice(i, r) \in EdgeChoices(i, r)
         /\ \A c \in EdgeChoices(i, r) : ChoiceCost(i, c) \in Nat
         /\ \A c \in EdgeChoices(i, r) : ChoiceCost(i, Choice(i, r)) <= ChoiceCost(i, c)
<1> DEFINE S == EdgeChoices(i, r)
           t == [c \in S |-> ChoiceCost(i, c)]
           C == CheapestOf(S, t)
           p == [c \in C |-> <<c.parl, c.curl>>]
           f == CHOOSE c \in C : \A d \in C :
                  c = d \/ c.parl < d.parl \/ (c.parl = d.parl /\ c.curl < d.curl)
<1>1. Choice(i, r) = f
  BY DEF Choice, FirstCheapest, CheapestOf
<1>2. ASSUME NEW c \in S
      PROVE  \E e \in EdgeLayers(i) :
               c = [curl |-> e[1], parl |-> e[2], range |-> RangeAt(i, e[1])]
  BY <1>2 DEF EdgeChoices
<1>3. ASSUME NEW c \in S
      PROVE  /\ c.curl \in Nat /\ c.parl \in Nat /\ ChoiceCost(i, c) \in Nat
             /\ c = [curl |-> c.curl, parl |-> c.parl, range |-> RangeAt(i, c.curl)]
  <2>1. PICK e \in EdgeLayers(i) :
               c = [curl |-> e[1], parl |-> e[2], range |-> RangeAt(i, e[1])]
    BY <1>2, <1>3
  <2>2. e[1] \in Layer /\ e[2] \in Layer /\ EdgeCost(i, e[1], e[2]) \in Nat
    BY EdgeIs
  <2>3. RangeAt(i, e[1]) \in LayerRange
    BY <2>2, RangeAtIs
  <2>4. c.curl = e[1] /\ c.parl = e[2] /\ c.range = RangeAt(i, e[1])
    BY <2>1
  <2>5. ChoiceCost(i, c) = dist[i][RangeAt(i, e[1])] + EdgeCost(i, e[1], e[2])
    BY <2>4 DEF ChoiceCost
  <2>6. dist[i][RangeAt(i, e[1])] \in Nat
    BY <2>3
  <2>7. e[1] \in Nat /\ e[2] \in Nat
    BY <2>2, Sizes
  <2>8. ChoiceCost(i, c) \in Nat
    BY <2>2, <2>5, <2>6
  <2>9. c = [curl |-> c.curl, parl |-> c.parl, range |-> RangeAt(i, c.curl)]
    BY <2>1, <2>4
  <2> QED BY <2>4, <2>7, <2>8, <2>9
<1> HIDE DEF S
<1>4. \A c \in S : t[c] = ChoiceCost(i, c) /\ t[c] \in Nat
  BY <1>3
<1> HIDE DEF t
<1>5. S # {}
  BY DEF S
<1>6. C # {} /\ C \subseteq S /\ \A a \in C : \A b \in S : t[a] <= t[b]
  BY <1>4, <1>5, CheapestIs
<1>7. \E c \in C : \A d \in C : c = d \/ Before(p[c], p[d])
  <2>1. \A c \in C : p[c] = <<c.parl, c.curl>>
    OBVIOUS
  <2>2. \A c \in C : p[c] \in Nat \X Nat
    BY <1>3, <1>6, <2>1
  <2>3. ASSUME NEW c \in C, NEW d \in C, p[c] = p[d] PROVE c = d
    <3>1. c.curl = d.curl /\ c.parl = d.parl
      BY <2>1, <2>3
    <3>2. c \in S /\ d \in S
      BY <1>6
    <3> QED BY <1>3, <3>1, <3>2
  <2>4. C # {}
    BY <1>6
  <2> HIDE DEF p, C
  <2> QED BY <2>2, <2>3, <2>4, FirstOf
<1>8. f \in C
  <2>1. PICK c \in C : \A d \in C : c = d \/ Before(p[c], p[d])
    BY <1>7
  <2>2. \A d \in C : c = d \/ c.parl < d.parl \/ (c.parl = d.parl /\ c.curl < d.curl)
    BY <2>1 DEF Before
  <2> HIDE DEF C
  <2> QED BY <2>2
<1> HIDE DEF f, C
<1>9. f \in S /\ \A b \in S : t[f] <= t[b]
  BY <1>6, <1>8
<1> QED BY <1>1, <1>4, <1>9 DEF S

(* What the edge above i and all below add to its parent's stack.             *)
LEMMA ParIs ==
  ASSUME TreeOK, NEW i \in TreeNode \ {1}, \A r \in LayerRange : dist[i][r] \in Nat,
         NEW r \in LayerRange
  PROVE  /\ min_cost_par(i, r) \in Nat
         /\ \A e \in EdgeLayers(i), s \in LayerRange :
              Covers(s, e[1]) /\ Covers(r, e[2]) =>
                min_cost_par(i, r) <= dist[i][s] + EdgeCost(i, e[1], e[2])
         /\ \/ min_cost_par(i, r) = Inf
            \/ \E e \in EdgeLayers(i), s \in LayerRange :
                 /\ Covers(s, e[1]) /\ Covers(r, e[2])
                 /\ min_cost_par(i, r) = dist[i][s] + EdgeCost(i, e[1], e[2])
<1> DEFINE Of(e) == [curl |-> e[1], parl |-> e[2], range |-> RangeAt(i, e[1])]
<1>1. EdgeChoices(i, r) = {Of(e) : e \in {x \in EdgeLayers(i) : Covers(r, x[2])}}
  BY DEF EdgeChoices
<1>2. ASSUME NEW e \in EdgeLayers(i)
      PROVE  /\ e[1] \in Layer /\ e[2] \in Layer /\ EdgeCost(i, e[1], e[2]) \in Nat
             /\ ChoiceCost(i, Of(e)) = dist[i][RangeAt(i, e[1])] + EdgeCost(i, e[1], e[2])
  BY <1>2, EdgeIs DEF ChoiceCost
<1> HIDE DEF Of
<1>3. CASE EdgeChoices(i, r) = {}
  <2>1. min_cost_par(i, r) = Inf
    BY <1>3 DEF min_cost_par
  <2>2. \A e \in EdgeLayers(i) : ~ Covers(r, e[2])
    BY <1>1, <1>3
  <2> QED BY <2>1, <2>2, Sizes
<1>4. CASE EdgeChoices(i, r) # {}
  <2>1. min_cost_par(i, r) = ChoiceCost(i, Choice(i, r))
    BY <1>4 DEF min_cost_par
  <2>2. /\ Choice(i, r) \in EdgeChoices(i, r)
        /\ \A c \in EdgeChoices(i, r) : ChoiceCost(i, c) \in Nat
        /\ \A c \in EdgeChoices(i, r) : ChoiceCost(i, Choice(i, r)) <= ChoiceCost(i, c)
    BY <1>4, ChoiceIs
  <2>3. PICK x \in EdgeLayers(i) : Covers(r, x[2]) /\ Choice(i, r) = Of(x)
    BY <1>1, <2>2
  <2>4. /\ RangeAt(i, x[1]) \in LayerRange /\ Covers(RangeAt(i, x[1]), x[1])
        /\ min_cost_par(i, r) = dist[i][RangeAt(i, x[1])] + EdgeCost(i, x[1], x[2])
    BY <1>2, <2>1, <2>3, RangeAtIs
  <2>5. ASSUME NEW e \in EdgeLayers(i), NEW s \in LayerRange, Covers(s, e[1]), Covers(r, e[2])
        PROVE  min_cost_par(i, r) <= dist[i][s] + EdgeCost(i, e[1], e[2])
    <3>1. Of(e) \in EdgeChoices(i, r)
      BY <1>1, <2>5
    <3>2. ChoiceCost(i, Choice(i, r)) <= ChoiceCost(i, Of(e)) /\ ChoiceCost(i, Choice(i, r)) \in Nat
      BY <2>2, <3>1
    <3>3. /\ e[1] \in Layer /\ EdgeCost(i, e[1], e[2]) \in Nat
          /\ ChoiceCost(i, Of(e)) = dist[i][RangeAt(i, e[1])] + EdgeCost(i, e[1], e[2])
      BY <1>2
    <3>4. dist[i][RangeAt(i, e[1])] <= dist[i][s] /\ RangeAt(i, e[1]) \in LayerRange
      BY <2>5, <3>3, RangeAtIs
    <3>5. dist[i][RangeAt(i, e[1])] \in Nat /\ dist[i][s] \in Nat
      BY <3>4
    <3> QED BY <2>1, <3>2, <3>3, <3>4, <3>5
  <2>6. min_cost_par(i, r) \in Nat
    BY <2>1, <2>2
  <2> QED BY <2>3, <2>4, <2>5, <2>6
<1> QED BY <1>3, <1>4
-----------------------------------------------------------------------------
(* A plan for the first k nodes: a range of layers for each, and the layers   *)
(* of the edges between them, each within the ranges of its ends.             *)
Ranges == [TreeNode -> LayerRange]

Fits(k, R, e) == \A i \in 2 .. k : Covers(R[i], e[i][1]) /\ Covers(R[tree.up[i]], e[i][2])

PlanTerm(d, R, e) ==
  [i \in TreeNode |-> d[i][R[i]] + IF i = 1 THEN 0 ELSE EdgeCost(i, e[i][1], e[i][2])]

PlanCost(d, k, R, e) == Summed(PlanTerm(d, R, e), 1, k)

Tables == [TreeNode -> [LayerRange -> Nat]]

(* With the tables d, no plan of the first k nodes is worth less than the     *)
(* best assignment, unless it has no cost at all, and one is worth no more.   *)
NoCheaper(d, k) ==
  \A R \in Ranges, e \in Assignments :
    Fits(k, R, e) => LeastAssigned <= PlanCost(d, k, R, e) \/ Inf <= PlanCost(d, k, R, e)

Attained(d, k) ==
  \E R \in Ranges, e \in Assignments : Fits(k, R, e) /\ PlanCost(d, k, R, e) <= LeastAssigned

LEMMA AssignmentIs ==
  ASSUME TreeOK, NEW e \in Assignments, NEW i \in TreeNode \ {1}
  PROVE  /\ e[i] \in EdgeLayers(i) /\ e[i][1] \in Layer /\ e[i][2] \in Layer
         /\ EdgeCost(i, e[i][1], e[i][2]) \in Nat
<1>1. e \in [TreeNode \ {1} -> Layer \X Layer] /\ \A j \in DOMAIN e : e[j] \in EdgeLayers(j)
  BY DEF Assignments
<1>2. e[i] \in EdgeLayers(i) /\ e[i] \in Layer \X Layer
  BY <1>1
<1> QED BY <1>2, EdgeIs

LEMMA AssignmentsExist ==
  ASSUME TreeOK
  PROVE  Assignments # {}
<1> DEFINE e == [i \in TreeNode \ {1} |-> CHOOSE x : x \in EdgeLayers(i)]
<1>1. ASSUME NEW i \in TreeNode \ {1} PROVE e[i] \in EdgeLayers(i) /\ e[i] \in Layer \X Layer
  BY EdgeIs
<1>2. DOMAIN e = TreeNode \ {1}
  OBVIOUS
<1>3. e \in [TreeNode \ {1} -> Layer \X Layer]
  BY <1>1
<1> QED BY <1>1, <1>2, <1>3 DEF Assignments

LEMMA TermIs ==
  ASSUME TreeOK, NEW d \in Tables, NEW R \in Ranges, NEW e \in Assignments
  PROVE  \A i \in TreeNode :
           /\ d[i][R[i]] \in Nat /\ PlanTerm(d, R, e)[i] \in Nat
           /\ d[i][R[i]] <= PlanTerm(d, R, e)[i]
           /\ PlanTerm(d, R, e)[i] = d[i][R[i]] + IF i = 1 THEN 0 ELSE EdgeCost(i, e[i][1], e[i][2])
<1> SUFFICES ASSUME NEW i \in TreeNode
             PROVE  /\ d[i][R[i]] \in Nat /\ PlanTerm(d, R, e)[i] \in Nat
                    /\ d[i][R[i]] <= PlanTerm(d, R, e)[i]
                    /\ PlanTerm(d, R, e)[i]
                         = d[i][R[i]] + IF i = 1 THEN 0 ELSE EdgeCost(i, e[i][1], e[i][2])
  OBVIOUS
<1>1. R[i] \in LayerRange /\ d[i] \in [LayerRange -> Nat]
  BY DEF Ranges, Tables
<1>2. d[i][R[i]] \in Nat
  BY <1>1
<1>3. PlanTerm(d, R, e)[i] = d[i][R[i]] + IF i = 1 THEN 0 ELSE EdgeCost(i, e[i][1], e[i][2])
  BY DEF PlanTerm
<1>4. i # 1 => EdgeCost(i, e[i][1], e[i][2]) \in Nat
  BY AssignmentIs
<1> QED BY <1>2, <1>3, <1>4

LEMMA CostIs ==
  ASSUME TreeOK, NEW d \in Tables, NEW R \in Ranges, NEW e \in Assignments, NEW k \in TreeNode
  PROVE  /\ PlanCost(d, k, R, e) \in Nat
         /\ k > 1 => /\ k - 1 \in TreeNode /\ PlanCost(d, k - 1, R, e) \in Nat
                     /\ PlanCost(d, k, R, e)
                          = PlanCost(d, k - 1, R, e) + (d[k][R[k]] + EdgeCost(k, e[k][1], e[k][2]))
         /\ PlanCost(d, 1, R, e) = d[1][R[1]]
<1> DEFINE f == PlanTerm(d, R, e)
<1>1. \A i \in TreeNode : /\ d[i][R[i]] \in Nat /\ f[i] \in Nat
        /\ f[i] = d[i][R[i]] + IF i = 1 THEN 0 ELSE EdgeCost(i, e[i][1], e[i][2])
  BY TermIs
<1>2. \A n \in Nat : PlanCost(d, n, R, e) = Summed(f, 1, n)
  BY DEF PlanCost
<1> HIDE DEF f
<1>3. /\ Len(tree.up) \in Nat /\ TreeNode = 1 .. Len(tree.up) /\ Len(tree.up) > 1
  BY Parents
<1>4. \A n \in Nat : n <= Len(tree.up) => Summed(f, 1, n) \in Nat
  <2> SUFFICES ASSUME NEW n \in Nat, n <= Len(tree.up) PROVE Summed(f, 1, n) \in Nat
    OBVIOUS
  <2>1. \A i \in 1 .. 1 + n - 1 : f[i] \in Nat
    BY <1>1, <1>3
  <2> QED BY <2>1, SummedNat
<1>5. ASSUME k > 1
      PROVE  /\ k - 1 \in TreeNode /\ PlanCost(d, k - 1, R, e) \in Nat
             /\ PlanCost(d, k, R, e)
                  = PlanCost(d, k - 1, R, e) + (d[k][R[k]] + EdgeCost(k, e[k][1], e[k][2]))
  <2>1. k - 1 \in Nat /\ (k - 1) + 1 = k /\ 1 + (k - 1) = k /\ k \in Nat /\ k <= Len(tree.up)
        /\ k # 1 /\ k - 1 \in TreeNode /\ k - 1 <= Len(tree.up)
    BY <1>3, <1>5
  <2>2. ASSUME NEW n \in Nat PROVE Summed(f, 1, n + 1) = Summed(f, 1, n) + f[1 + n]
    <3>1. ASSUME NEW first \in Int
          PROVE  Summed(f, first, n + 1) = Summed(f, first, n) + f[first + n]
      BY SummedStep
    <3>2. 1 \in Int
      OBVIOUS
    <3> QED BY <3>1, <3>2
  <2>3. f[k] = d[k][R[k]] + EdgeCost(k, e[k][1], e[k][2])
    BY <1>1, <2>1
  <2>4. Summed(f, 1, k) = Summed(f, 1, k - 1) + f[k]
    BY <2>1, <2>2
  <2> QED BY <1>2, <1>4, <2>1, <2>3, <2>4
<1>6. PlanCost(d, 1, R, e) = d[1][R[1]]
  <2>1. Summed(f, 1, 0 + 1) = Summed(f, 1, 0) + f[1 + 0] /\ Summed(f, 1, 0) = 0
    BY SummedStep
  <2>2. 0 + 1 = 1 /\ 1 + 0 = 1 /\ 1 \in TreeNode
    BY <1>3
  <2>3. f[1] = d[1][R[1]] + 0 /\ d[1][R[1]] \in Nat
    BY <1>1, <2>2
  <2> QED BY <1>2, <2>1, <2>2, <2>3
<1>7. PlanCost(d, k, R, e) \in Nat
  BY <1>2, <1>3, <1>4
<1> QED BY <1>5, <1>6, <1>7

(* Adding to the parent's table what the node costs: the plans of the nodes   *)
(* before it cost that much more.                                             *)
LEMMA FoldCost ==
  ASSUME TreeOK, NEW d \in Tables, NEW D \in Tables, NEW k \in TreeNode, k > 1,
         NEW c \in [LayerRange -> Nat],
         D = [d EXCEPT ![tree.up[k]] = [r \in LayerRange |-> d[tree.up[k]][r] + c[r]]],
         NEW R \in Ranges, NEW e \in Assignments
  PROVE  PlanCost(D, k - 1, R, e) = PlanCost(d, k - 1, R, e) + c[R[tree.up[k]]]
<1> DEFINE f == PlanTerm(d, R, e)
           g == PlanTerm(D, R, e)
           u == tree.up[k]
<1>1. k \in TreeNode \ {1} /\ k \in Nat /\ k - 1 \in Nat /\ TreeNode = 1 .. Len(tree.up)
      /\ Len(tree.up) \in Nat
  BY Parents
<1>2. u \in 1 .. k - 1 /\ u \in TreeNode
  BY <1>1, Parents
<1>3. \A i \in TreeNode : /\ f[i] \in Nat /\ d[i][R[i]] \in Nat
        /\ f[i] = d[i][R[i]] + IF i = 1 THEN 0 ELSE EdgeCost(i, e[i][1], e[i][2])
  BY TermIs
<1>4. \A i \in TreeNode : /\ g[i] \in Nat
        /\ g[i] = D[i][R[i]] + IF i = 1 THEN 0 ELSE EdgeCost(i, e[i][1], e[i][2])
  BY TermIs
<1>5. PlanCost(D, k - 1, R, e) = Summed(g, 1, k - 1) /\ PlanCost(d, k - 1, R, e) = Summed(f, 1, k - 1)
  BY DEF PlanCost
<1> HIDE DEF f, g, u
<1>6. \A i \in TreeNode : i # u => D[i] = d[i]
  BY DEF Tables, u
<1>7. R[u] \in LayerRange
  BY <1>2 DEF Ranges
<1>8. D[u][R[u]] = d[u][R[u]] + c[R[u]] /\ c[R[u]] \in Nat
  BY <1>2, <1>7 DEF Tables, u
<1>9. g[u] = f[u] + c[R[u]]
  <2>1. IF u = 1 THEN TRUE ELSE EdgeCost(u, e[u][1], e[u][2]) \in Nat
    BY <1>2, AssignmentIs
  <2> QED BY <1>2, <1>3, <1>4, <1>8, <2>1
<1>10. \A i \in TreeNode : i # u => g[i] = f[i]
  BY <1>3, <1>4, <1>6
<1>11. \A i \in 1 .. 1 + (k - 1) - 1 : f[i] \in Nat /\ (i # u => g[i] = f[i])
  BY <1>1, <1>3, <1>10
<1>12. u \in 1 .. 1 + (k - 1) - 1
  BY <1>1, <1>2
<1>13. Summed(g, 1, k - 1) = Summed(f, 1, k - 1) + c[R[u]]
  <2> DEFINE x == c[R[u]]
             n == k - 1
  <2>1. x \in Nat /\ g[u] = f[u] + x /\ n \in Nat /\ u \in 1 .. 1 + n - 1
    BY <1>1, <1>8, <1>9, <1>12
  <2>2. \A i \in 1 .. 1 + n - 1 : f[i] \in Nat /\ (i # u => g[i] = f[i])
    BY <1>11
  <2> HIDE DEF x, n
  <2>3. Summed(g, 1, n) = Summed(f, 1, n) + x
    BY <2>1, <2>2, SummedChange
  <2> QED BY <2>3 DEF x, n
<1> QED BY <1>5, <1>13 DEF u

LEMMA FoldNoCheaper ==
  ASSUME TreeOK, dist \in Tables, NEW D \in Tables, NEW k \in TreeNode, k > 1,
         NEW c \in [LayerRange -> Nat], \A r \in LayerRange : c[r] = min_cost_par(k, r),
         D = [dist EXCEPT ![tree.up[k]] = [r \in LayerRange |-> dist[tree.up[k]][r] + c[r]]],
         LeastAssigned \in Nat, NoCheaper(dist, k)
  PROVE  NoCheaper(D, k - 1)
<1> DEFINE u == tree.up[k]
           least == LeastAssigned
<1>1. /\ Len(tree.up) \in Nat /\ TreeNode = 1 .. Len(tree.up) /\ k \in TreeNode \ {1}
      /\ k \in Nat /\ k - 1 \in TreeNode
  BY Parents
<1>2. \A i \in TreeNode \ {1} : tree.up[i] \in 1 .. i - 1 /\ tree.up[i] \in TreeNode
  BY Parents
<1>3. \A r \in LayerRange : dist[k][r] \in Nat
  BY DEF Tables
<1> SUFFICES ASSUME NEW R \in Ranges, NEW e \in Assignments, Fits(k - 1, R, e)
             PROVE  least <= PlanCost(D, k - 1, R, e) \/ Inf <= PlanCost(D, k - 1, R, e)
  BY DEF NoCheaper, least
<1>4. u \in TreeNode /\ u < k
  BY <1>1, <1>2
<1>5. R[u] \in LayerRange /\ c[R[u]] \in Nat /\ c[R[u]] = min_cost_par(k, R[u])
  BY <1>4 DEF Ranges
<1>6. PlanCost(D, k - 1, R, e) = PlanCost(dist, k - 1, R, e) + c[R[u]]
  BY FoldCost
<1>7. PlanCost(dist, k - 1, R, e) \in Nat
  BY <1>1, CostIs
<1>8. \/ c[R[u]] = Inf
      \/ \E x \in EdgeLayers(k), s \in LayerRange :
           Covers(s, x[1]) /\ Covers(R[u], x[2]) /\ c[R[u]] = dist[k][s] + EdgeCost(k, x[1], x[2])
  BY <1>1, <1>3, <1>5, ParIs
<1> HIDE DEF least, u
<1>9. CASE c[R[u]] = Inf
  BY <1>6, <1>7, <1>9, Sizes
<1>10. ASSUME NEW x \in EdgeLayers(k), NEW s \in LayerRange, Covers(s, x[1]), Covers(R[u], x[2]),
              c[R[u]] = dist[k][s] + EdgeCost(k, x[1], x[2])
       PROVE  least <= PlanCost(D, k - 1, R, e) \/ Inf <= PlanCost(D, k - 1, R, e)
  <2> DEFINE R2 == [R EXCEPT ![k] = s]
             e2 == [e EXCEPT ![k] = x]
  <2>1. R2 \in Ranges /\ R2[k] = s /\ \A i \in TreeNode : i # k => R2[i] = R[i]
    BY DEF Ranges
  <2>2. e \in [TreeNode \ {1} -> Layer \X Layer] /\ \A i \in TreeNode \ {1} : e[i] \in EdgeLayers(i)
    BY DEF Assignments
  <2>3. x \in Layer \X Layer
    BY <1>1, EdgeIs
  <2>4. e2[k] = x /\ \A i \in TreeNode \ {1} : i # k => e2[i] = e[i]
    BY <1>1, <2>2
  <2>5. e2 \in [TreeNode \ {1} -> Layer \X Layer] /\ DOMAIN e2 = TreeNode \ {1}
    BY <2>2, <2>3
  <2> HIDE DEF R2, e2
  <2>6. e2 \in Assignments
    BY <2>2, <2>4, <2>5 DEF Assignments
  <2>7. Fits(k, R2, e2)
    <3> SUFFICES ASSUME NEW i \in 2 .. k
                 PROVE  Covers(R2[i], e2[i][1]) /\ Covers(R2[tree.up[i]], e2[i][2])
      BY DEF Fits
    <3>1. i \in TreeNode \ {1} /\ tree.up[i] \in TreeNode /\ tree.up[i] < i /\ i <= k
      BY <1>1, <1>2
    <3>2. tree.up[i] # k
      BY <1>1, <3>1
    <3>3. R2[tree.up[i]] = R[tree.up[i]]
      BY <2>1, <3>1, <3>2
    <3>4. CASE i = k
      BY <1>10, <2>1, <2>4, <3>3, <3>4 DEF u
    <3>5. CASE i # k
      <4>1. i \in 2 .. k - 1
        BY <1>1, <3>5
      <4>2. Covers(R[i], e[i][1]) /\ Covers(R[tree.up[i]], e[i][2])
        BY <4>1 DEF Fits
      <4> QED BY <2>1, <2>4, <3>1, <3>3, <3>5, <4>2
    <3> QED BY <3>4, <3>5
  <2>8. least <= PlanCost(dist, k, R2, e2) \/ Inf <= PlanCost(dist, k, R2, e2)
    BY <2>1, <2>6, <2>7 DEF NoCheaper, least
  <2>9. PlanCost(dist, k, R2, e2) = PlanCost(dist, k - 1, R2, e2) + (dist[k][s] + EdgeCost(k, x[1], x[2]))
    <3>1. PlanCost(dist, k, R2, e2)
            = PlanCost(dist, k - 1, R2, e2) + (dist[k][R2[k]] + EdgeCost(k, e2[k][1], e2[k][2]))
      BY <2>1, <2>6, CostIs
    <3> QED BY <2>1, <2>4, <3>1
  <2>10. PlanCost(dist, k - 1, R2, e2) = PlanCost(dist, k - 1, R, e)
    <3> DEFINE f == PlanTerm(dist, R2, e2)
               g == PlanTerm(dist, R, e)
               n == k - 1
    <3>1. ASSUME NEW i \in 1 .. 1 + n - 1 PROVE f[i] = g[i]
      <4>1. i \in TreeNode /\ i # k
        BY <1>1
      <4>2. R2[i] = R[i] /\ (i # 1 => e2[i] = e[i])
        BY <2>1, <2>4, <4>1
      <4> QED BY <4>1, <4>2 DEF PlanTerm
    <3>2. n \in Nat
      BY <1>1
    <3> HIDE DEF f, g, n
    <3>3. Summed(f, 1, n) = Summed(g, 1, n)
      BY <3>1, <3>2, SummedSame
    <3> QED BY <3>3 DEF f, g, n, PlanCost
  <2> QED BY <1>6, <1>10, <2>8, <2>9, <2>10
<1> QED BY <1>8, <1>9, <1>10

LEMMA FoldAttained ==
  ASSUME TreeOK, dist \in Tables, NEW D \in Tables, NEW k \in TreeNode, k > 1,
         NEW c \in [LayerRange -> Nat], \A r \in LayerRange : c[r] = min_cost_par(k, r),
         D = [dist EXCEPT ![tree.up[k]] = [r \in LayerRange |-> dist[tree.up[k]][r] + c[r]]],
         LeastAssigned \in Nat, Attained(dist, k)
  PROVE  Attained(D, k - 1)
<1> DEFINE u == tree.up[k]
           least == LeastAssigned
<1>1. /\ Len(tree.up) \in Nat /\ TreeNode = 1 .. Len(tree.up) /\ k \in TreeNode \ {1}
      /\ k \in Nat /\ k - 1 \in TreeNode /\ k \in 2 .. k
  BY Parents
<1>2. u \in TreeNode
  BY <1>1, Parents
<1>3. \A r \in LayerRange : dist[k][r] \in Nat
  BY DEF Tables
<1>4. PICK R \in Ranges, e \in Assignments : Fits(k, R, e) /\ PlanCost(dist, k, R, e) <= least
  BY DEF Attained
<1>5. /\ R[u] \in LayerRange /\ R[k] \in LayerRange
      /\ c[R[u]] \in Nat /\ c[R[u]] = min_cost_par(k, R[u])
  BY <1>2 DEF Ranges
<1>6. Fits(k - 1, R, e) /\ Covers(R[k], e[k][1]) /\ Covers(R[u], e[k][2])
  <2>1. \A i \in 2 .. k - 1 : i \in 2 .. k
    BY <1>1
  <2> QED BY <1>1, <1>4, <2>1 DEF Fits
<1>7. e[k] \in EdgeLayers(k) /\ EdgeCost(k, e[k][1], e[k][2]) \in Nat
  BY <1>1, AssignmentIs
<1>8. c[R[u]] <= dist[k][R[k]] + EdgeCost(k, e[k][1], e[k][2])
  <2> DEFINE x == e[k]
             s == R[k]
             r == R[u]
  <2>1. r \in LayerRange /\ s \in LayerRange /\ x \in EdgeLayers(k)
        /\ Covers(s, x[1]) /\ Covers(r, x[2]) /\ c[r] = min_cost_par(k, r)
    BY <1>5, <1>6, <1>7
  <2> HIDE DEF x, s, r
  <2>2. min_cost_par(k, r) <= dist[k][s] + EdgeCost(k, x[1], x[2])
    BY <1>1, <1>3, <2>1, ParIs
  <2>3. c[r] <= dist[k][s] + EdgeCost(k, x[1], x[2])
    BY <2>1, <2>2
  <2> QED BY <2>3 DEF x, s, r
<1>9. PlanCost(D, k - 1, R, e) = PlanCost(dist, k - 1, R, e) + c[R[u]]
  BY FoldCost
<1>10. /\ PlanCost(dist, k - 1, R, e) \in Nat
       /\ PlanCost(dist, k, R, e)
            = PlanCost(dist, k - 1, R, e) + (dist[k][R[k]] + EdgeCost(k, e[k][1], e[k][2]))
  BY CostIs
<1>11. least \in Nat
  OBVIOUS
<1>12. dist[k][R[k]] \in Nat
  BY <1>3, <1>5
<1> HIDE DEF least, u
<1>13. PlanCost(D, k - 1, R, e) <= least
  BY <1>4, <1>5, <1>7, <1>8, <1>9, <1>10, <1>11, <1>12
<1> QED BY <1>6, <1>13 DEF Attained, least
-----------------------------------------------------------------------------
(* What the assignments cost.                                                 *)
LEMMA EndsAre ==
  ASSUME TreeOK, NEW e \in Assignments, NEW i \in TreeNode
  PROVE  /\ StackEnds(i, e) \subseteq Layer /\ StackEnds(i, e) # {}
         /\ Min(StackEnds(i, e)) \in Layer /\ Max(StackEnds(i, e)) \in Layer
         /\ \A l \in StackEnds(i, e) : Min(StackEnds(i, e)) <= l /\ l <= Max(StackEnds(i, e))
         /\ Min(StackEnds(i, e)) <= Max(StackEnds(i, e))
         /\ Min(StackEnds(i, e)) \in StackEnds(i, e) /\ Max(StackEnds(i, e)) \in StackEnds(i, e)
<1> DEFINE S == StackEnds(i, e)
<1>1. /\ Len(tree.up) \in Nat /\ TreeNode = 1 .. Len(tree.up) /\ Len(tree.up) > 1
      /\ \A j \in TreeNode \ {1} : tree.up[j] \in 1 .. j - 1
  BY Parents
<1>2. DOMAIN e = TreeNode \ {1}
  BY DEF Assignments
<1>3. \A c \in TreeNode \ {1} : e[c][1] \in Layer /\ e[c][2] \in Layer
  BY AssignmentIs
<1>4. PinLayer(i) \in Layer \/ ~ IsPin(i)
  <2>1. tree.metal[i] \in NoMetal .. L
    BY <1>1 DEF TreeOK
  <2> QED BY <2>1, Sizes DEF PinLayer, IsPin, MaxOf, NoMetal, Layer
<1>5. S = (IF IsPin(i) THEN {PinLayer(i)} ELSE {})
            \cup {e[c][1] : c \in {i} \cap DOMAIN e}
            \cup {e[c][2] : c \in {d \in DOMAIN e : tree.up[d] = i}}
  BY DEF StackEnds
<1>6. S \subseteq Layer
  <2> SUFFICES ASSUME NEW l \in S PROVE l \in Layer
    OBVIOUS
  <2>1. \/ IsPin(i) /\ l = PinLayer(i)
        \/ \E c \in DOMAIN e : l = e[c][1]
        \/ \E c \in DOMAIN e : l = e[c][2]
    BY <1>5
  <2> QED BY <1>2, <1>3, <1>4, <2>1
<1>7. S # {}
  <2>1. CASE i = 1
    <3>1. 2 \in TreeNode \ {1} /\ tree.up[2] = 1
      <4>1. 2 \in TreeNode \ {1}
        BY <1>1
      <4>2. tree.up[2] \in 1 .. 2 - 1
        BY <1>1, <4>1
      <4> QED BY <4>1, <4>2
    <3>2. e[2][2] \in S
      BY <1>2, <1>5, <2>1, <3>1
    <3> QED BY <3>2
  <2>2. CASE i # 1
    <3>1. e[i][1] \in S
      BY <1>2, <1>5, <2>2
    <3> QED BY <3>1
  <2> QED BY <2>1, <2>2
<1> HIDE DEF S
<1>8. S \in SUBSET Nat /\ S \in SUBSET (0 .. L - 1)
  BY <1>6, Sizes DEF Layer
<1>9. Min(S) \in S /\ \A l \in S : Min(S) <= l
  BY <1>7, <1>8, MinIs
<1>10. Max(S) \in S /\ \A l \in S : l <= Max(S)
  <2>1. 0 \in Int /\ L - 1 \in Int
    BY Sizes
  <2> QED BY <1>7, <1>8, <2>1, MaxIs
<1>11. /\ S \subseteq Layer /\ S # {} /\ Min(S) \in Layer /\ Max(S) \in Layer
       /\ \A l \in S : Min(S) <= l /\ l <= Max(S)
       /\ Min(S) <= Max(S) /\ Min(S) \in S /\ Max(S) \in S
  BY <1>6, <1>7, <1>9, <1>10
<1> QED BY <1>11 DEF S

AssignedTerm(e) ==
  [i \in TreeNode |->
     StackCost(table, Min(StackEnds(i, e)), Max(StackEnds(i, e)), tree.at[i])
       + IF i = 1 THEN 0 ELSE EdgeCost(i, e[i][1], e[i][2])]

LEMMA AssignedTermIs ==
  ASSUME TreeOK, NEW e \in Assignments, NEW i \in TreeNode
  PROVE  /\ AssignedTerm(e)[i]
              = StackCost(table, Min(StackEnds(i, e)), Max(StackEnds(i, e)), tree.at[i])
                  + IF i = 1 THEN 0 ELSE EdgeCost(i, e[i][1], e[i][2])
         /\ AssignedTerm(e)[i] \in Nat
         /\ StackCost(table, Min(StackEnds(i, e)), Max(StackEnds(i, e)), tree.at[i]) \in Nat
         /\ (IF i = 1 THEN 0 ELSE EdgeCost(i, e[i][1], e[i][2])) \in Nat
<1> DEFINE lo == Min(StackEnds(i, e))
           hi == Max(StackEnds(i, e))
           w == StackCost(table, lo, hi, tree.at[i])
           c == IF i = 1 THEN 0 ELSE EdgeCost(i, e[i][1], e[i][2])
<1>1. lo \in Layer /\ hi \in Layer /\ lo <= hi
  BY EndsAre
<1>2. tree.at[i] \in Place /\ table \in DOMAIN Costs
  BY Parents DEF TreeOK
<1>3. w \in Nat
  <2> HIDE DEF lo, hi
  <2>1. lo \in Int /\ hi \in Int /\ lo <= lo /\ hi <= hi
    BY <1>1, Sizes
  <2> QED BY <1>1, <1>2, <2>1, StackIs
<1>4. c \in Nat
  BY AssignmentIs
<1>5. AssignedTerm(e)[i] = w + c
  BY DEF AssignedTerm
<1> HIDE DEF w, c
<1>6. w + c \in Nat
  BY <1>3, <1>4
<1>7. AssignedTerm(e)[i] = w + c /\ AssignedTerm(e)[i] \in Nat /\ w \in Nat /\ c \in Nat
  BY <1>3, <1>4, <1>5, <1>6
<1> QED BY <1>7 DEF w, c

LEMMA AssignedIs ==
  ASSUME TreeOK
  PROVE  /\ \A e \in Assignments : AssignedCost(e) = Summed(AssignedTerm(e), 1, Len(tree.up))
         /\ LeastAssigned \in Nat
         /\ \A e \in Assignments : AssignedCost(e) \in Nat /\ LeastAssigned <= AssignedCost(e)
         /\ \E e \in Assignments : LeastAssigned = AssignedCost(e)
<1> DEFINE S == {AssignedCost(e) : e \in Assignments}
<1>1. \A e \in Assignments : AssignedCost(e) = Summed(AssignedTerm(e), 1, Len(tree.up))
  BY DEF AssignedCost, AssignedTerm
<1>2. ASSUME NEW e \in Assignments PROVE AssignedCost(e) \in Nat
  <2> DEFINE f == AssignedTerm(e)
             n == Len(tree.up)
  <2>1. n \in Nat /\ TreeNode = 1 .. n
    BY Parents
  <2>2. \A i \in 1 .. 1 + n - 1 : f[i] \in Nat
    BY <2>1, AssignedTermIs
  <2> HIDE DEF f, n
  <2>3. Summed(f, 1, n) \in Nat
    BY <2>1, <2>2, SummedNat
  <2> QED BY <1>1, <2>3 DEF f, n
<1>3. S \in SUBSET Nat /\ S # {}
  BY <1>2, AssignmentsExist
<1>4. Min(S) \in S /\ \A n \in S : Min(S) <= n
  <2> HIDE DEF S
  <2> QED BY <1>3, MinIs
<1>5. LeastAssigned = Min(S)
  BY DEF LeastAssigned
<1> HIDE DEF LeastAssigned
<1>6. LeastAssigned \in S /\ \A n \in S : LeastAssigned <= n
  BY <1>4, <1>5
<1>7. \A e \in Assignments : LeastAssigned <= AssignedCost(e)
  BY <1>6
<1>8. LeastAssigned \in Nat /\ \E e \in Assignments : LeastAssigned = AssignedCost(e)
  BY <1>3, <1>6
<1> QED BY <1>1, <1>2, <1>7, <1>8

(* The tables the program begins with.                                        *)
StartTables == [i \in TreeNode |-> StackCosts(i)]

LEMMA StartIs ==
  ASSUME TreeOK
  PROVE  /\ StartTables \in Tables
         /\ \A i \in TreeNode, r \in LayerRange :
              /\ IsPin(i) /\ ~ Covers(r, PinLayer(i)) => StartTables[i][r] = Inf
              /\ ~ IsPin(i) \/ Covers(r, PinLayer(i)) =>
                   StartTables[i][r] = StackCost(table, r[1], r[2], tree.at[i])
<1>1. ASSUME NEW i \in TreeNode, NEW r \in LayerRange
      PROVE  /\ StackCosts(i)[r] \in Nat
             /\ IsPin(i) /\ ~ Covers(r, PinLayer(i)) => StackCosts(i)[r] = Inf
             /\ ~ IsPin(i) \/ Covers(r, PinLayer(i)) =>
                  StackCosts(i)[r] = StackCost(table, r[1], r[2], tree.at[i])
  <2>1. r[1] \in Layer /\ r[2] \in Layer /\ r[1] <= r[2]
    BY DEF LayerRange
  <2>2. r[1] \in Int /\ r[2] \in Int /\ r[1] <= r[1] /\ r[2] <= r[2]
    BY <2>1, Sizes
  <2>3. tree.at[i] \in Place /\ table \in DOMAIN Costs
    BY Parents DEF TreeOK
  <2>4. StackCost(table, r[1], r[2], tree.at[i]) \in Nat
    <3> DEFINE lo == r[1]
               hi == r[2]
    <3>1. /\ lo \in Layer /\ hi \in Layer /\ lo <= hi /\ lo \in Int /\ hi \in Int
          /\ lo <= lo /\ hi <= hi
      BY <2>1, <2>2
    <3> HIDE DEF lo, hi
    <3>2. StackCost(table, lo, hi, tree.at[i]) \in Nat
      BY <2>3, <3>1, StackIs
    <3> QED BY <3>2 DEF lo, hi
  <2>5. StackCosts(i)[r] = IF ~ IsPin(i) \/ Covers(r, PinLayer(i))
                           THEN StackCost(table, r[1], r[2], tree.at[i]) ELSE Inf
    BY DEF StackCosts
  <2> QED BY <2>4, <2>5, Sizes
<1>2. ASSUME NEW i \in TreeNode PROVE StackCosts(i) \in [LayerRange -> Nat]
  <2>1. StackCosts(i) = [r \in LayerRange |-> StackCosts(i)[r]]
    BY DEF StackCosts
  <2> QED BY <1>1, <2>1
<1>3. \A i \in TreeNode : StartTables[i] = StackCosts(i)
  BY DEF StartTables
<1>4. StartTables \in Tables
  BY <1>2 DEF StartTables, Tables
<1> QED BY <1>1, <1>3, <1>4

(* A plan whose ranges hold the pins and the ends of the edges costs no less  *)
(* than the stacks that just hold them; any other costs Inf.                  *)
LEMMA StartNoCheaper ==
  ASSUME TreeOK
  PROVE  NoCheaper(StartTables, Len(tree.up))
<1> DEFINE n == Len(tree.up)
           d == StartTables
           least == LeastAssigned
<1>1. n \in Nat /\ TreeNode = 1 .. n /\ n > 1
  BY Parents
<1>2. d \in Tables /\ \A i \in TreeNode, r \in LayerRange :
              /\ IsPin(i) /\ ~ Covers(r, PinLayer(i)) => d[i][r] = Inf
              /\ ~ IsPin(i) \/ Covers(r, PinLayer(i)) =>
                   d[i][r] = StackCost(table, r[1], r[2], tree.at[i])
  BY StartIs
<1>3. least \in Nat /\ \A e \in Assignments :
        least <= Summed(AssignedTerm(e), 1, n)
  BY AssignedIs
<1> HIDE DEF d, least
<1> SUFFICES ASSUME NEW R \in Ranges, NEW e \in Assignments, Fits(n, R, e)
             PROVE  least <= PlanCost(d, n, R, e) \/ Inf <= PlanCost(d, n, R, e)
  BY DEF NoCheaper, d, least
<1> DEFINE f == PlanTerm(d, R, e)
<1>4. \A i \in TreeNode : /\ d[i][R[i]] \in Nat /\ f[i] \in Nat /\ d[i][R[i]] <= f[i]
        /\ f[i] = d[i][R[i]] + IF i = 1 THEN 0 ELSE EdgeCost(i, e[i][1], e[i][2])
  BY <1>2, TermIs
<1>5. PlanCost(d, n, R, e) = Summed(f, 1, n)
  BY DEF PlanCost
<1> HIDE DEF f, n
<1>6. \A i \in 1 .. 1 + n - 1 : i \in TreeNode /\ f[i] \in Nat
  BY <1>1, <1>4
<1>7. \A i \in TreeNode : R[i] \in LayerRange
  BY DEF Ranges
<1>8. CASE \E i \in TreeNode : IsPin(i) /\ ~ Covers(R[i], PinLayer(i))
  <2>1. PICK i \in TreeNode : IsPin(i) /\ ~ Covers(R[i], PinLayer(i))
    BY <1>8
  <2>2. d[i][R[i]] = Inf /\ Inf <= f[i]
    BY <1>2, <1>4, <1>7, <2>1
  <2>3. i \in 1 .. 1 + n - 1
    BY <1>1
  <2>4. f[i] <= Summed(f, 1, n)
    BY <1>1, <1>6, <2>3, SummedTerm
  <2>5. Summed(f, 1, n) \in Nat /\ f[i] \in Nat
    BY <1>1, <1>6, <2>3, SummedNat
  <2> QED BY <1>3, <1>5, <2>2, <2>4, <2>5, Sizes
<1>9. CASE \A i \in TreeNode : IsPin(i) => Covers(R[i], PinLayer(i))
  <2> DEFINE g == AssignedTerm(e)
  <2>1. ASSUME NEW i \in TreeNode PROVE g[i] \in Nat /\ g[i] <= f[i]
    <3> DEFINE lo == Min(StackEnds(i, e))
               hi == Max(StackEnds(i, e))
               a == R[i][1]
               b == R[i][2]
               c == IF i = 1 THEN 0 ELSE EdgeCost(i, e[i][1], e[i][2])
    <3>1. /\ lo \in Layer /\ hi \in Layer /\ lo <= hi
          /\ lo \in StackEnds(i, e) /\ hi \in StackEnds(i, e)
      BY EndsAre
    <3>2. a \in Layer /\ b \in Layer /\ a <= b
      BY <1>7 DEF LayerRange
    <3>3. \A l \in StackEnds(i, e) : a <= l /\ l <= b
      <4> SUFFICES ASSUME NEW l \in StackEnds(i, e) PROVE Covers(R[i], l)
        BY DEF Covers
      <4>1. DOMAIN e = TreeNode \ {1}
        BY DEF Assignments
      <4>2. \/ IsPin(i) /\ l = PinLayer(i)
            \/ i \in DOMAIN e /\ l = e[i][1]
            \/ \E x \in DOMAIN e : tree.up[x] = i /\ l = e[x][2]
        BY DEF StackEnds
      <4>3. \A x \in DOMAIN e : x \in 2 .. n
        BY <1>1, <4>1
      <4>4. \A x \in DOMAIN e : Covers(R[x], e[x][1]) /\ Covers(R[tree.up[x]], e[x][2])
        BY <4>3 DEF Fits
      <4> QED BY <1>9, <4>2, <4>4
    <3>4. d[i][R[i]] = StackCost(table, a, b, tree.at[i])
      BY <1>2, <1>7, <1>9
    <3>5. a <= lo /\ hi <= b
      BY <3>1, <3>3
    <3>6. tree.at[i] \in Place /\ table \in DOMAIN Costs
      BY Parents DEF TreeOK
    <3>7. g[i] = StackCost(table, lo, hi, tree.at[i]) + c /\ g[i] \in Nat /\ c \in Nat
      BY AssignedTermIs
    <3>8. f[i] = d[i][R[i]] + c
      BY <1>4
    <3> HIDE DEF lo, hi, a, b, c, g
    <3>9. lo \in Int /\ hi \in Int
      BY <3>1, Sizes
    <3>10. /\ StackCost(table, lo, hi, tree.at[i]) \in Nat /\ StackCost(table, a, b, tree.at[i]) \in Nat
           /\ StackCost(table, lo, hi, tree.at[i]) <= StackCost(table, a, b, tree.at[i])
      BY <3>1, <3>2, <3>5, <3>6, <3>9, StackIs
    <3> QED BY <3>4, <3>7, <3>8, <3>10
  <2> HIDE DEF g
  <2>2. \A i \in 1 .. 1 + n - 1 : g[i] \in Nat /\ f[i] \in Nat /\ g[i] <= f[i]
    BY <1>6, <2>1
  <2>3. Summed(g, 1, n) <= Summed(f, 1, n)
    BY <1>1, <2>2, SummedLeq
  <2>4. Summed(g, 1, n) \in Nat /\ Summed(f, 1, n) \in Nat
    BY <1>1, <2>2, SummedNat
  <2>5. least <= Summed(g, 1, n)
    BY <1>3 DEF g
  <2> QED BY <1>3, <1>5, <2>3, <2>4, <2>5
<1> QED BY <1>8, <1>9

LEMMA StartAttained ==
  ASSUME TreeOK
  PROVE  Attained(StartTables, Len(tree.up))
<1> DEFINE n == Len(tree.up)
           d == StartTables
           least == LeastAssigned
<1>1. n \in Nat /\ TreeNode = 1 .. n /\ n > 1
  BY Parents
<1>2. d \in Tables /\ \A i \in TreeNode, r \in LayerRange :
              ~ IsPin(i) \/ Covers(r, PinLayer(i)) =>
                   d[i][r] = StackCost(table, r[1], r[2], tree.at[i])
  BY StartIs
<1>3. PICK e \in Assignments : least = Summed(AssignedTerm(e), 1, n)
  BY AssignedIs
<1> DEFINE R == [i \in TreeNode |-> <<Min(StackEnds(i, e)), Max(StackEnds(i, e))>>]
           f == PlanTerm(d, R, e)
           g == AssignedTerm(e)
<1>4. ASSUME NEW i \in TreeNode
      PROVE  /\ R[i] \in LayerRange /\ R[i][1] = Min(StackEnds(i, e)) /\ R[i][2] = Max(StackEnds(i, e))
             /\ \A l \in StackEnds(i, e) : Covers(R[i], l)
  BY EndsAre DEF LayerRange, Covers
<1>5. R \in Ranges
  BY <1>4 DEF Ranges
<1>6. DOMAIN e = TreeNode \ {1}
  BY DEF Assignments
<1> HIDE DEF R, d, least
<1>7. Fits(n, R, e)
  <2> SUFFICES ASSUME NEW i \in 2 .. n PROVE Covers(R[i], e[i][1]) /\ Covers(R[tree.up[i]], e[i][2])
    BY DEF Fits
  <2>1. i \in DOMAIN e /\ i \in TreeNode /\ tree.up[i] \in TreeNode
    BY <1>1, <1>6, Parents
  <2>2. e[i][1] \in StackEnds(i, e) /\ e[i][2] \in StackEnds(tree.up[i], e)
    BY <2>1 DEF StackEnds
  <2> QED BY <1>4, <2>1, <2>2
<1>8. ASSUME NEW i \in TreeNode PROVE f[i] = g[i]
  <2>1. IsPin(i) => PinLayer(i) \in StackEnds(i, e)
    BY DEF StackEnds
  <2>2. d[i][R[i]] = StackCost(table, Min(StackEnds(i, e)), Max(StackEnds(i, e)), tree.at[i])
    BY <1>2, <1>4, <2>1
  <2>3. f[i] = d[i][R[i]] + IF i = 1 THEN 0 ELSE EdgeCost(i, e[i][1], e[i][2])
    BY DEF PlanTerm
  <2> QED BY <2>2, <2>3, AssignedTermIs
<1> HIDE DEF f, g, n
<1>9. \A i \in 1 .. 1 + n - 1 : f[i] = g[i]
  BY <1>1, <1>8
<1>10. Summed(f, 1, n) = Summed(g, 1, n)
  BY <1>1, <1>9, SummedSame
<1>11. PlanCost(d, n, R, e) = Summed(f, 1, n)
  BY DEF PlanCost, f
<1>12. PlanCost(d, n, R, e) <= least
  <2>1. least \in Nat
    BY AssignedIs DEF least
  <2> QED BY <1>3, <1>10, <1>11, <2>1 DEF g
<1> QED BY <1>5, <1>7, <1>12 DEF Attained, d, n, least
-----------------------------------------------------------------------------
(* The pins a net is read with are access points of it.                       *)
Point == [x : 0 .. X - 1, y : 0 .. Y - 1, l : 0 .. L]

AccessOK(points) == points \in Seq(Seq(Point) \ {<<>>})

LEMMA AccessIs ==
  ASSUME NEW points, AccessOK(points)
  PROVE  /\ Len(points) \in Nat /\ DOMAIN points = 1 .. Len(points)
         /\ \A i \in 1 .. Len(points) :
              /\ Len(points[i]) \in Nat /\ Len(points[i]) > 0 /\ points[i] \in Seq(Point)
              /\ DOMAIN points[i] = 1 .. Len(points[i])
              /\ \A j \in 1 .. Len(points[i]) : points[i][j] \in Point
<1>1. Len(points) \in Nat /\ DOMAIN points = 1 .. Len(points)
  BY DEF AccessOK
<1>2. ASSUME NEW i \in 1 .. Len(points)
      PROVE  /\ Len(points[i]) \in Nat /\ Len(points[i]) > 0 /\ points[i] \in Seq(Point)
             /\ DOMAIN points[i] = 1 .. Len(points[i])
             /\ \A j \in 1 .. Len(points[i]) : points[i][j] \in Point
  <2>1. points[i] \in Seq(Point) /\ points[i] # <<>>
    BY <1>1 DEF AccessOK
  <2>2. Len(points[i]) \in Nat /\ DOMAIN points[i] = 1 .. Len(points[i])
        /\ \A j \in 1 .. Len(points[i]) : points[i][j] \in Point
    BY <2>1
  <2>3. Len(points[i]) # 0
    BY <2>1
  <2> QED BY <2>1, <2>2, <2>3
<1> QED BY <1>1, <1>2

LEMMA OffCenterIs ==
  ASSUME NEW a \in Point, NEW cx \in Int, NEW cy \in Int
  PROVE  OffCenter(a, cx, cy) \in Nat
<1>1. a.x \in Int /\ a.y \in Int
  BY Sizes DEF Point
<1> QED BY <1>1 DEF OffCenter

(* The middle of the bounding box is where numbers are.                       *)
LEMMA CenterIs ==
  ASSUME NEW points, AccessOK(points), points # <<>>
  PROVE  center_2x(points) \in Int /\ center_2y(points) \in Int
<1> DEFINE A == AllPoints(points)
<1>1. /\ Len(points) \in Nat /\ DOMAIN points = 1 .. Len(points)
      /\ \A i \in 1 .. Len(points) :
              /\ Len(points[i]) > 0 /\ points[i] \in Seq(Point)
              /\ DOMAIN points[i] = 1 .. Len(points[i])
              /\ Len(points[i]) \in Nat
              /\ \A j \in 1 .. Len(points[i]) : points[i][j] \in Point
  BY AccessIs
<1>2. Len(points) > 0
  BY <1>1 DEF AccessOK
<1>3. A \subseteq Point
  <2> SUFFICES ASSUME NEW i \in DOMAIN points, NEW a \in ToSet(points[i]) PROVE a \in Point
    BY DEF AllPoints
  <2>1. PICK j \in DOMAIN points[i] : a = points[i][j]
    BY DEF ToSet
  <2> QED BY <1>1, <2>1
<1>4. A # {}
  <2>1. 1 \in DOMAIN points /\ 1 \in DOMAIN points[1]
    BY <1>1, <1>2
  <2>2. points[1][1] \in ToSet(points[1])
    BY <2>1 DEF ToSet
  <2> QED BY <2>1, <2>2 DEF AllPoints
<1> DEFINE xs == {a.x : a \in A}
           ys == {a.y : a \in A}
<1>5. xs \in SUBSET (0 .. X - 1) /\ xs # {} /\ ys \in SUBSET (0 .. Y - 1) /\ ys # {}
  <2>1. \A a \in A : a.x \in 0 .. X - 1 /\ a.y \in 0 .. Y - 1
    BY <1>3 DEF Point
  <2> HIDE DEF A
  <2> QED BY <1>4, <2>1
<1>6. center_2x(points) = Min(xs) + Max(xs) /\ center_2y(points) = Min(ys) + Max(ys)
  BY DEF center_2x, center_2y
<1> HIDE DEF xs, ys
<1>7. xs \in SUBSET Nat /\ ys \in SUBSET Nat
  BY <1>5, Sizes
<1>8. Min(xs) \in Nat /\ Min(ys) \in Nat
  <2>1. Min(xs) \in xs
    BY <1>5, <1>7, MinIs
  <2>2. Min(ys) \in ys
    BY <1>5, <1>7, MinIs
  <2> QED BY <1>7, <2>1, <2>2
<1>9. Max(xs) \in Nat /\ Max(ys) \in Nat
  <2>0. 0 \in Int /\ X - 1 \in Int /\ Y - 1 \in Int
    BY Sizes
  <2>1. Max(xs) \in xs
    BY <1>5, <2>0, MaxIs
  <2>2. Max(ys) \in ys
    BY <1>5, <2>0, MaxIs
  <2> QED BY <1>7, <2>1, <2>2
<1> QED BY <1>6, <1>8, <1>9

(* Of the choices that are as good, one is tried before all others.           *)
LEMMA FirstTried ==
  ASSUME NEW n \in Nat, NEW C \in SUBSET [1 .. n -> Nat], C # {}
  PROVE  \E f \in C : \A g \in C : g = f \/ TriedBefore(f, g)
<1> DEFINE Agree(f, g, m) == \A j \in 1 .. m : f[j] = g[j]
           Ahead(f, g, m) == \E i \in 1 .. m : f[i] < g[i] /\ Agree(f, g, i - 1)
           First(f, m) == \A g \in C : Agree(f, g, m) \/ Ahead(f, g, m)
           S == {m \in Nat : m <= n => \E f \in C : First(f, m)}
<1>1. 0 \in S
  <2>1. \A f, g : Agree(f, g, 0)
    OBVIOUS
  <2> QED BY <2>1
<1>2. ASSUME NEW m \in Nat, m \in S PROVE m + 1 \in S
  <2> SUFFICES ASSUME m + 1 <= n PROVE \E f \in C : First(f, m + 1)
    OBVIOUS
  <2>1. PICK f \in C : First(f, m)
    BY <1>2
  <2> DEFINE D == {g \in C : Agree(f, g, m)}
             V == {g[m + 1] : g \in D}
  <2>2. f \in D /\ D \subseteq C
    OBVIOUS
  <2>3. m + 1 \in 1 .. n /\ \A i \in 1 .. m : i \in 1 .. m + 1 /\ i \in 1 .. n
    OBVIOUS
  <2>4. \A g \in C : g[m + 1] \in Nat
    BY <2>3
  <2>5. V \in SUBSET Nat /\ V # {}
    BY <2>2, <2>4
  <2>6. PICK v \in V : \A w \in V : v <= w
    BY <2>5, LeastOf
  <2>7. PICK h \in D : h[m + 1] = v
    BY <2>6
  <2>8. h \in C /\ \A j \in 1 .. m : f[j] = h[j]
    BY <2>7
  <2>9. ASSUME NEW g \in C PROVE Agree(h, g, m + 1) \/ Ahead(h, g, m + 1)
    <3>1. CASE Agree(f, g, m)
      <4>1. g \in D /\ v <= g[m + 1] /\ v \in Nat /\ g[m + 1] \in Nat
        BY <2>4, <2>5, <2>6, <3>1
      <4>2. Agree(h, g, m)
        BY <2>8, <3>1
      <4>3. CASE v = g[m + 1]
        <5>1. \A j \in 1 .. m + 1 : j \in 1 .. m \/ j = m + 1
          OBVIOUS
        <5>2. Agree(h, g, m + 1)
          BY <2>7, <4>2, <4>3, <5>1
        <5> QED BY <5>2
      <4>4. CASE v < g[m + 1]
        <5>1. m + 1 \in 1 .. m + 1 /\ (m + 1) - 1 = m
          OBVIOUS
        <5>2. h[m + 1] < g[m + 1]
          BY <2>7, <4>4
        <5> QED BY <4>2, <5>1, <5>2
      <4>5. v = g[m + 1] \/ v < g[m + 1]
        <5> DEFINE w == g[m + 1]
        <5>1. v \in Nat /\ w \in Nat /\ v <= w
          BY <4>1
        <5> HIDE DEF w
        <5>2. v = w \/ v < w
          BY <5>1
        <5> QED BY <5>2 DEF w
      <4> QED BY <4>3, <4>4, <4>5
    <3>2. CASE Ahead(f, g, m)
      <4>1. PICK i \in 1 .. m : f[i] < g[i] /\ Agree(f, g, i - 1)
        BY <3>2
      <4>2. i \in 1 .. m + 1 /\ \A j \in 1 .. i - 1 : j \in 1 .. m
        OBVIOUS
      <4>3. h[i] < g[i] /\ Agree(h, g, i - 1)
        BY <2>8, <4>1, <4>2
      <4> QED BY <4>2, <4>3
    <3> QED BY <2>1, <3>1, <3>2
  <2> QED BY <2>8, <2>9
<1> HIDE DEF S
<1>3. n \in S
  BY <1>1, <1>2, ByStep
<1>4. PICK f \in C : First(f, n)
  BY <1>3 DEF S
<1>5. ASSUME NEW g \in C PROVE g = f \/ TriedBefore(f, g)
  <2>1. DOMAIN f = 1 .. n /\ f = [i \in 1 .. n |-> f[i]] /\ g = [i \in 1 .. n |-> g[i]]
    OBVIOUS
  <2>2. CASE Agree(f, g, n)
    BY <2>1, <2>2
  <2>3. CASE Ahead(f, g, n)
    BY <2>1, <2>3 DEF TriedBefore
  <2> QED BY <1>4, <2>2, <2>3
<1> QED BY <1>5

LEMMA DiffIs ==
  ASSUME NEW points, NEW num \in Nat
  PROVE  diff(points, num) \in Nat
<1> DEFINE Differ(i, j) == (IF points[i].x # points[j].x THEN 1 ELSE 0)
                           + (IF points[i].y # points[j].y THEN 1 ELSE 0)
           row(i) == [j \in 1 .. num |-> Differ(i, j)]
           f == [i \in 1 .. num |-> Summed(row(i), 1, i - 1)]
<1>1. diff(points, num) = Summed(f, 1, num)
  BY DEF diff
<1>2. ASSUME NEW i \in 1 .. num PROVE Summed(row(i), 1, i - 1) \in Nat
  <2> DEFINE g == row(i)
             n == i - 1
  <2>1. n \in Nat /\ \A j \in 1 .. 1 + n - 1 : j \in 1 .. num
    OBVIOUS
  <2>2. \A j \in 1 .. num : g[j] \in Nat
    OBVIOUS
  <2> HIDE DEF g, n
  <2>3. Summed(g, 1, n) \in Nat
    BY <2>1, <2>2, SummedNat
  <2> QED BY <2>3 DEF g, n
<1>3. \A i \in 1 .. 1 + num - 1 : f[i] \in Nat
  BY <1>2
<1> HIDE DEF f
<1>4. Summed(f, 1, num) \in Nat
  BY <1>3, SummedNat
<1> QED BY <1>1, <1>4

(* A choice is a point of each pin.                                           *)
PointOfEach(points, f) ==
  /\ f \in [1 .. Len(points) -> Nat]
  /\ \A i \in 1 .. Len(points) : f[i] \in 1 .. Len(points[i])

LEMMA RatedIs ==
  ASSUME NEW points, AccessOK(points), NEW cx \in Int, NEW cy \in Int
  PROVE  /\ rated(points, cx, cy) # {}
         /\ \A r \in rated(points, cx, cy) :
              PointOfEach(points, r.idx) /\ r.diff \in Nat /\ r.metric \in Nat
         /\ \A r \in rated(points, cx, cy), s \in rated(points, cx, cy) :
              r.idx = s.idx => r = s
<1> DEFINE num == Len(points)
           pins == 1 .. num
           choices == {f \in [pins -> UNION {DOMAIN points[i] : i \in pins}] :
                         \A i \in pins : f[i] \in DOMAIN points[i]}
           Metric(f) == Summed([i \in pins |-> OffCenter(points[i][f[i]], cx, cy)], 1, num)
           Diff(f) == diff([i \in pins |-> points[i][f[i]]], num)
           Of(f) == [idx |-> f, diff |-> Diff(f), metric |-> Metric(f)]
<1>1. rated(points, cx, cy) = {Of(f) : f \in choices}
  BY DEF rated
<1>2. /\ num \in Nat
      /\ \A i \in pins : /\ Len(points[i]) \in Nat /\ Len(points[i]) > 0
                         /\ DOMAIN points[i] = 1 .. Len(points[i])
                         /\ \A j \in 1 .. Len(points[i]) : points[i][j] \in Point
  BY AccessIs
<1>3. ASSUME NEW f \in choices PROVE PointOfEach(points, f)
  <2>1. DOMAIN f = pins /\ f = [i \in pins |-> f[i]] /\ \A i \in pins : f[i] \in 1 .. Len(points[i])
    BY <1>2
  <2>2. \A i \in pins : f[i] \in Nat
    BY <1>2, <2>1
  <2> QED BY <2>1, <2>2 DEF PointOfEach
<1>4. ASSUME NEW f \in choices PROVE Diff(f) \in Nat /\ Metric(f) \in Nat
  <2>1. Diff(f) \in Nat
    BY <1>2, DiffIs
  <2> DEFINE g == [i \in pins |-> OffCenter(points[i][f[i]], cx, cy)]
  <2>2. ASSUME NEW i \in pins PROVE g[i] \in Nat
    <3>1. points[i][f[i]] \in Point
      BY <1>2, <1>3 DEF PointOfEach
    <3>2. OffCenter(points[i][f[i]], cx, cy) \in Nat
      BY <3>1, OffCenterIs
    <3> QED BY <3>2
  <2> HIDE DEF g
  <2>3. \A i \in 1 .. 1 + num - 1 : g[i] \in Nat
    BY <1>2, <2>2
  <2> HIDE DEF num
  <2>4. Summed(g, 1, num) \in Nat
    BY <1>2, <2>3, SummedNat
  <2> QED BY <2>1, <2>4 DEF g
<1>5. choices # {}
  <2> DEFINE f == [i \in pins |-> 1]
  <2>1. \A i \in pins : f[i] \in DOMAIN points[i]
    BY <1>2
  <2>2. f \in [pins -> UNION {DOMAIN points[i] : i \in pins}]
    BY <2>1
  <2> QED BY <2>1, <2>2
<1>6. \A f : Of(f).idx = f /\ Of(f).diff = Diff(f) /\ Of(f).metric = Metric(f)
  OBVIOUS
<1> HIDE DEF Of, choices, Diff, Metric
<1>7. ASSUME NEW r \in rated(points, cx, cy)
      PROVE  /\ PointOfEach(points, r.idx) /\ r.diff \in Nat /\ r.metric \in Nat /\ r = Of(r.idx)
  <2>1. PICK f \in choices : r = Of(f)
    BY <1>1
  <2> QED BY <1>3, <1>4, <1>6, <2>1
<1>8. rated(points, cx, cy) # {}
  BY <1>1, <1>5
<1> HIDE DEF rated
<1> QED BY <1>7, <1>8

LEMMA BestIs ==
  ASSUME NEW points, AccessOK(points), NEW cx \in Int, NEW cy \in Int
  PROVE  PointOfEach(points, best_idx(points, cx, cy))
<1> DEFINE all == rated(points, cx, cy)
           fewest == {r \in all : \A s \in all : r.diff <= s.diff}
           nearest == {r \in fewest : \A s \in fewest : r.metric <= s.metric}
           best == CHOOSE r \in nearest : \A s \in nearest \ {r} : TriedBefore(r.idx, s.idx)
<1>1. best_idx(points, cx, cy) = best.idx
  BY DEF best_idx
<1>2. /\ all # {}
      /\ \A r \in all : PointOfEach(points, r.idx) /\ r.diff \in Nat /\ r.metric \in Nat
      /\ \A r \in all, s \in all : r.idx = s.idx => r = s
  BY RatedIs
<1>3. Len(points) \in Nat
  BY AccessIs
<1> HIDE DEF all
<1>4. fewest # {}
  <2> DEFINE V == {r.diff : r \in all}
  <2>1. V \in SUBSET Nat /\ V # {}
    BY <1>2
  <2>2. PICK v \in V : \A w \in V : v <= w
    BY <2>1, LeastOf
  <2>3. PICK r \in all : r.diff = v
    BY <2>2
  <2> QED BY <2>2, <2>3
<1>5. fewest \subseteq all
  OBVIOUS
<1> HIDE DEF fewest
<1>6. nearest # {}
  <2> DEFINE V == {r.metric : r \in fewest}
  <2>1. V \in SUBSET Nat /\ V # {}
    BY <1>2, <1>4, <1>5
  <2>2. PICK v \in V : \A w \in V : v <= w
    BY <2>1, LeastOf
  <2>3. PICK r \in fewest : r.metric = v
    BY <2>2
  <2> QED BY <2>2, <2>3
<1>7. nearest \subseteq all
  BY <1>5
<1> HIDE DEF nearest
<1>8. \E r \in nearest : \A s \in nearest \ {r} : TriedBefore(r.idx, s.idx)
  <2> DEFINE C == {r.idx : r \in nearest}
             n == Len(points)
  <2>1. C \in SUBSET [1 .. n -> Nat] /\ C # {}
    BY <1>2, <1>6, <1>7 DEF PointOfEach
  <2>2. \A s \in nearest : s.idx \in C
    OBVIOUS
  <2>3. \A f \in C : \E r \in nearest : r.idx = f
    OBVIOUS
  <2> HIDE DEF C, n
  <2>4. PICK f \in C : \A g \in C : g = f \/ TriedBefore(f, g)
    BY <1>3, <2>1, FirstTried DEF n
  <2>5. PICK r \in nearest : r.idx = f
    BY <2>3
  <2>6. ASSUME NEW s \in nearest, s # r PROVE TriedBefore(r.idx, s.idx)
    <3>1. s.idx # r.idx
      BY <1>2, <1>7, <2>6
    <3> QED BY <2>2, <2>4, <2>5, <3>1
  <2> QED BY <2>6
<1>9. best \in nearest
  BY <1>8
<1> QED BY <1>1, <1>2, <1>7, <1>9

LEMMA NearestIs ==
  ASSUME NEW points \in Seq(Point), Len(points) > 0, NEW cx \in Int, NEW cy \in Int
  PROVE  selected_pin(points, cx, cy) \in Point
<1> DEFINE J == DOMAIN points
           t == [j \in J |-> OffCenter(points[j], cx, cy)]
           S == {j \in J : \A k \in J : t[j] <= t[k]}
           T == {t[j] : j \in J}
<1>1. J = 1 .. Len(points) /\ Len(points) \in Nat /\ 1 \in J /\ \A j \in J : points[j] \in Point
  OBVIOUS
<1>2. \A j \in J : t[j] \in Nat
  BY <1>1, OffCenterIs
<1>3. selected_pin(points, cx, cy) = points[Min(S)]
  BY DEF selected_pin
<1> HIDE DEF t, J
<1>4. T \in SUBSET Nat /\ T # {}
  BY <1>1, <1>2
<1>5. PICK m \in T : \A k \in T : m <= k
  BY <1>4, LeastOf
<1>6. S # {}
  BY <1>5
<1>7. S \in SUBSET Nat /\ S \subseteq J
  BY <1>1
<1> HIDE DEF S
<1>8. Min(S) \in S
  BY <1>6, <1>7, MinIs
<1> QED BY <1>1, <1>3, <1>7, <1>8

LEMMA SelectedIs ==
  ASSUME NEW points, AccessOK(points)
  PROVE  init(points).pins \subseteq Point
<1> DEFINE cx == center_2x(points)
           cy == center_2y(points)
           P == Selected(points, cx, cy)
<1>1. init(points).pins \subseteq P
  BY DEF init
<1>2. /\ Len(points) \in Nat /\ DOMAIN points = 1 .. Len(points)
      /\ \A i \in 1 .. Len(points) :
              /\ Len(points[i]) \in Nat /\ Len(points[i]) > 0 /\ points[i] \in Seq(Point)
              /\ DOMAIN points[i] = 1 .. Len(points[i])
              /\ \A j \in 1 .. Len(points[i]) : points[i][j] \in Point
  BY AccessIs
<1>3. CASE points = <<>>
  <2>1. DOMAIN points = {}
    BY <1>3
  <2>2. P = {}
    BY <2>1 DEF Selected
  <2> QED BY <1>1, <2>2
<1>4. CASE points # <<>>
  <2>1. cx \in Int /\ cy \in Int
    BY <1>4, CenterIs
  <2> HIDE DEF cx, cy
  <2>2. CASE Len(points) <= 4
    <3> DEFINE idx == best_idx(points, cx, cy)
    <3>1. PointOfEach(points, idx)
      BY <2>1, BestIs
    <3>2. P = {points[i][idx[i]] : i \in DOMAIN points}
      BY <2>2 DEF Selected
    <3> HIDE DEF idx
    <3>3. \A i \in DOMAIN points : points[i][idx[i]] \in Point
      BY <1>2, <3>1 DEF PointOfEach
    <3>4. P \subseteq Point
      BY <3>2, <3>3
    <3> QED BY <1>1, <3>4
  <2>3. CASE ~ (Len(points) <= 4)
    <3>1. P = {selected_pin(points[i], cx, cy) : i \in DOMAIN points}
      BY <2>3 DEF Selected
    <3>2. \A i \in DOMAIN points : selected_pin(points[i], cx, cy) \in Point
      BY <1>2, <2>1, NearestIs
    <3>3. P \subseteq Point
      BY <3>1, <3>2
    <3> QED BY <1>1, <3>3
  <2> QED BY <2>2, <2>3
<1> QED BY <1>3, <1>4
-----------------------------------------------------------------------------
(* The net, read and unread.                                                  *)
TreeShape ==
  /\ table \in DOMAIN Costs
  /\ tree.up \in Seq(Nat) /\ Len(tree.up) > 1
  /\ \A i \in 2 .. Len(tree.up) : tree.up[i] \in 1 .. i - 1
  /\ tree.at \in [1 .. Len(tree.up) -> Place]

NetInv ==
  /\ TreeShape
  /\ \/ /\ tree.metal = <<>> /\ scan_pc = "load" /\ StageOneStart
        /\ \E t \in Trees : tree = Unread(t)
     \/ tree.metal \in [1 .. Len(tree.up) -> NoMetal .. L]

LEMMA NetInitial ==
  ASSUME RouteInit
  PROVE  NetInv
<1>1. PICK t \in Trees : tree = Unread(t)
  BY DEF RouteInit
<1>2. /\ t.up \in Seq(Nat) /\ Len(t.up) > 1
      /\ \A i \in 2 .. Len(t.up) : t.up[i] \in 1 .. i - 1
      /\ t.at \in [1 .. Len(t.up) -> [x : 0 .. X - 1, y : 0 .. Y - 1]]
  BY TreesAssumption
<1>3. tree.up = t.up /\ tree.at = t.at /\ tree.metal = <<>>
  BY <1>1 DEF Unread
<1>4. table \in DOMAIN Costs /\ scan_pc = "load" /\ StageOneStart
  BY DEF RouteInit, ScanInit
<1>5. TreeShape
  BY <1>2, <1>3, <1>4 DEF TreeShape, Place
<1> QED BY <1>1, <1>3, <1>4, <1>5 DEF NetInv

LEMMA ReadStep ==
  ASSUME NetInv, InitNet
  PROVE  NetInv' /\ tree'.up = tree.up /\ tree'.at = tree.at
<1> DEFINE selected == init(tree.access_points)
           PinAt(p) == {a \in selected.pins : a.x = p.x /\ a.y = p.y}
           metal == [i \in TreeNode |-> Max({NoMetal} \cup {a.l : a \in PinAt(tree.at[i])})]
           extra == SetToSeq(selected.extra_routes)
<1>1. /\ tree.metal = <<>> /\ UNCHANGED <<table, scanVars, routeVars, evaluatorVars>>
      /\ tree' = [tree EXCEPT !.metal = metal, !.extra_routes = extra]
  BY DEF InitNet
<1>2. /\ table \in DOMAIN Costs
      /\ tree.up \in Seq(Nat) /\ Len(tree.up) > 1
      /\ \A i \in 2 .. Len(tree.up) : tree.up[i] \in 1 .. i - 1
      /\ tree.at \in [1 .. Len(tree.up) -> Place]
  BY DEF NetInv, TreeShape
<1>3. \E t \in Trees : tree = Unread(t)
  <2>1. TreeNode # {} /\ Len(tree.up) \in Nat /\ 1 \in 1 .. Len(tree.up)
    BY <1>2 DEF TreeNode
  <2>2. tree.metal \notin [1 .. Len(tree.up) -> NoMetal .. L]
    BY <1>1, <2>1
  <2> QED BY <2>2 DEF NetInv
<1>4. PICK t \in Trees : tree = Unread(t)
  BY <1>3
<1>5. AccessOK(tree.access_points)
  <2>1. tree.access_points = t.access_points
    BY <1>4 DEF Unread
  <2> QED BY <2>1, TreesAssumption DEF AccessOK, Point
<1>6. selected.pins \subseteq Point
  BY <1>5, SelectedIs
<1>7. TreeNode = 1 .. Len(tree.up)
  BY <1>2 DEF TreeNode
<1> HIDE DEF selected, extra
<1>8. metal \in [1 .. Len(tree.up) -> NoMetal .. L]
  <2> SUFFICES ASSUME NEW i \in TreeNode
               PROVE  Max({NoMetal} \cup {a.l : a \in PinAt(tree.at[i])}) \in NoMetal .. L
    BY <1>7
  <2> DEFINE S == {NoMetal} \cup {a.l : a \in PinAt(tree.at[i])}
  <2>1. S \in SUBSET (-1 .. L) /\ S # {}
    BY <1>6, Sizes DEF NoMetal, Point
  <2> HIDE DEF S
  <2>2. -1 \in Int /\ L \in Int
    BY Sizes
  <2>3. Max(S) \in S
    BY <2>1, <2>2, MaxIs
  <2> QED BY <2>1, <2>3 DEF S, NoMetal
<1> HIDE DEF metal
<1>9. tree'.up = tree.up /\ tree'.at = tree.at /\ tree'.metal = metal /\ table' = table
  BY <1>1, <1>4 DEF Unread
<1>10. TreeShape'
  BY <1>2, <1>9 DEF TreeShape
<1>11. NetInv'
  BY <1>8, <1>9, <1>10 DEF NetInv
<1> QED BY <1>9, <1>11
-----------------------------------------------------------------------------
(* What the dynamic program keeps as it goes.                                 *)
StageInv ==
  /\ s1_node = 0 => layer_range = <<>>
  /\ s1_node # 0 =>
       /\ TreeOK /\ s1_node \in TreeNode /\ dist \in Tables
       /\ NoCheaper(dist, s1_node) /\ Attained(dist, s1_node)
  /\ layer_range # <<>> =>
       /\ s1_node = 1 /\ \E S : layer_range \in Seq(S)
       /\ layer_range[1] = FirstRange(LayerRange, dist[1])

Inv == NetInv /\ StageInv

LEMMA SameTree ==
  ASSUME UNCHANGED <<tree, table>>
  PROVE  /\ (TreeOK' <=> TreeOK) /\ (TreeShape' <=> TreeShape) /\ TreeNode' = TreeNode
         /\ LeastAssigned' = LeastAssigned /\ Tables' = Tables
         /\ \A d, k : (NoCheaper(d, k)' <=> NoCheaper(d, k)) /\ (Attained(d, k)' <=> Attained(d, k))
<1>1. tree' = tree /\ table' = table
  OBVIOUS
<1>2. TreeNode' = TreeNode /\ \A i : IsPin(i)' = IsPin(i) /\ PinLayer(i)' = PinLayer(i)
  BY <1>1 DEF TreeNode, IsPin, PinLayer
<1>3. \A i, a, b : EdgeCost(i, a, b)' = EdgeCost(i, a, b)
  BY <1>1 DEF EdgeCost
<1>4. \A i : EdgeLayers(i)' = EdgeLayers(i)
  BY <1>1 DEF EdgeLayers
<1>5. Assignments' = Assignments
  BY <1>2, <1>4 DEF Assignments
<1>6. \A i, e : StackEnds(i, e)' = StackEnds(i, e)
  BY <1>1, <1>2 DEF StackEnds
<1>7. \A e : AssignedCost(e)' = AssignedCost(e)
  BY <1>1, <1>2, <1>3, <1>6 DEF AssignedCost
<1>8. LeastAssigned' = LeastAssigned
  BY <1>5, <1>7 DEF LeastAssigned
<1>9. Tables' = Tables /\ Ranges' = Ranges
  BY <1>2 DEF Tables, Ranges
<1>10. \A d, k, R, e : PlanCost(d, k, R, e)' = PlanCost(d, k, R, e)
  BY <1>2, <1>3 DEF PlanCost, PlanTerm
<1>11. \A k, R, e : Fits(k, R, e)' = Fits(k, R, e)
  BY <1>1 DEF Fits
<1>12. \A d, k : (NoCheaper(d, k)' <=> NoCheaper(d, k)) /\ (Attained(d, k)' <=> Attained(d, k))
  BY <1>5, <1>8, <1>9, <1>10, <1>11 DEF NoCheaper, Attained
<1>13. (TreeOK' <=> TreeOK) /\ (TreeShape' <=> TreeShape)
  BY <1>1 DEF TreeOK, TreeShape
<1> QED BY <1>2, <1>8, <1>9, <1>12, <1>13

LEMMA ViaCostsStep ==
  ASSUME TreeOK, StageInv, ViaCosts, UNCHANGED <<tree, table>>
  PROVE  StageInv'
<1>1. /\ s1_node = 0 /\ layer_range' = layer_range /\ s1_node' = Len(tree.up)
      /\ dist' = StartTables
  BY DEF ViaCosts, StartTables
<1>2. layer_range' = <<>>
  BY <1>1 DEF StageInv
<1>3. /\ Len(tree.up) \in Nat /\ TreeNode = 1 .. Len(tree.up) /\ Len(tree.up) > 1
  BY Parents
<1>4. s1_node' \in TreeNode /\ s1_node' # 0
  BY <1>1, <1>3
<1>5. StartTables \in Tables
  BY StartIs
<1>6. NoCheaper(StartTables, Len(tree.up)) /\ Attained(StartTables, Len(tree.up))
  BY StartNoCheaper, StartAttained
<1>7. PICK d, n : d = dist' /\ n = s1_node'
  OBVIOUS
<1>8. /\ TreeOK' /\ n \in TreeNode' /\ d \in Tables'
      /\ NoCheaper(d, n)' /\ Attained(d, n)'
  BY <1>1, <1>4, <1>5, <1>6, <1>7, SameTree
<1>9. s1_node' # 0 =>
        /\ TreeOK' /\ s1_node' \in TreeNode' /\ dist' \in Tables'
        /\ NoCheaper(dist, s1_node)' /\ Attained(dist, s1_node)'
  BY <1>7, <1>8 DEF NoCheaper, Attained
<1> QED BY <1>2, <1>4, <1>9 DEF StageInv

LEMMA CostNodeStep ==
  ASSUME StageInv, CostNode, UNCHANGED <<tree, table>>
  PROVE  StageInv'
<1> DEFINE k == s1_node
           u == tree.up[k]
           c == [r \in LayerRange |-> min_cost_par(k, r)]
           D == [dist EXCEPT ![u] = [r \in LayerRange |-> dist[u][r] + c[r]]]
<1>1. k > 1 /\ s1_node' = k - 1 /\ layer_range' = layer_range
  BY DEF CostNode
<1>2. /\ TreeOK /\ k \in TreeNode /\ dist \in Tables
      /\ NoCheaper(dist, k) /\ Attained(dist, k)
  <2>1. k # 0
    BY <1>1
  <2> QED BY <2>1 DEF StageInv
<1>3. layer_range' = <<>>
  <2>1. k # 1
    BY <1>1
  <2> QED BY <1>1, <2>1 DEF StageInv
<1>4. /\ Len(tree.up) \in Nat /\ TreeNode = 1 .. Len(tree.up) /\ k \in TreeNode \ {1}
      /\ k - 1 \in TreeNode /\ k - 1 # 0 /\ u \in TreeNode
  BY <1>1, <1>2, Parents
<1>5. \A r \in LayerRange : dist[k][r] \in Nat /\ dist[u][r] \in Nat
  BY <1>2, <1>4 DEF Tables
<1>6. \A r \in LayerRange : c[r] = min_cost_par(k, r) /\ min_cost_par(k, r) \in Nat
  BY <1>2, <1>4, <1>5, ParIs
<1>7. c \in [LayerRange -> Nat]
  BY <1>6
<1>8. dist' = D
  BY DEF CostNode
<1> HIDE DEF c
<1>9. D \in Tables
  <2>1. [r \in LayerRange |-> dist[u][r] + c[r]] \in [LayerRange -> Nat]
    BY <1>5, <1>7
  <2> QED BY <1>2, <2>1 DEF Tables
<1>10. LeastAssigned \in Nat
  BY <1>2, AssignedIs
<1> HIDE DEF k
<1>11. D = [dist EXCEPT ![tree.up[k]] = [r \in LayerRange |-> dist[tree.up[k]][r] + c[r]]]
  OBVIOUS
<1> HIDE DEF D, u
<1>12. NoCheaper(D, k - 1)
  BY <1>1, <1>2, <1>6, <1>7, <1>9, <1>10, <1>11, FoldNoCheaper
<1>13. Attained(D, k - 1)
  BY <1>1, <1>2, <1>6, <1>7, <1>9, <1>10, <1>11, <1>12, FoldAttained
<1>14. PICK d, n : d = dist' /\ n = s1_node'
  OBVIOUS
<1>15. /\ TreeOK' /\ n \in TreeNode' /\ d \in Tables'
       /\ NoCheaper(d, n)' /\ Attained(d, n)'
  BY <1>1, <1>2, <1>4, <1>8, <1>9, <1>12, <1>13, <1>14, SameTree
<1>16. s1_node' # 0 =>
         /\ TreeOK' /\ s1_node' \in TreeNode' /\ dist' \in Tables'
         /\ NoCheaper(dist, s1_node)' /\ Attained(dist, s1_node)'
  BY <1>14, <1>15 DEF NoCheaper, Attained
<1>17. s1_node' # 0
  BY <1>1, <1>4
<1> QED BY <1>3, <1>16, <1>17 DEF StageInv

LEMMA SameTables ==
  ASSUME StageInv, s1_node # 0, UNCHANGED <<tree, table, dist, s1_node>>
  PROVE  /\ TreeOK' /\ s1_node' \in TreeNode' /\ dist' \in Tables'
         /\ NoCheaper(dist, s1_node)' /\ Attained(dist, s1_node)'
<1>1. PICK d, n : d = dist' /\ n = s1_node'
  OBVIOUS
<1>2. /\ TreeOK' /\ n \in TreeNode' /\ d \in Tables'
      /\ NoCheaper(d, n)' /\ Attained(d, n)'
  BY <1>1, SameTree DEF StageInv
<1> QED BY <1>1, <1>2 DEF NoCheaper, Attained

LEMMA TraceSteps ==
  ASSUME StageInv, TraceRoot \/ TraceNode, UNCHANGED <<tree, table>>
  PROVE  StageInv'
<1>1. UNCHANGED <<dist, prev, s1_node>>
  BY DEF TraceRoot, TraceNode
<1>2. s1_node = 1 /\ s1_node' = 1
  <2>1. CASE TraceRoot
    BY <1>1, <2>1 DEF TraceRoot
  <2>2. CASE TraceNode
    BY <1>1, <2>2 DEF TraceNode, StageInv
  <2> QED BY <2>1, <2>2
<1>3. /\ TreeOK' /\ s1_node' \in TreeNode' /\ dist' \in Tables'
      /\ NoCheaper(dist, s1_node)' /\ Attained(dist, s1_node)'
  BY <1>1, <1>2, SameTables
<1>4. /\ \E S : layer_range' \in Seq(S)
      /\ layer_range'[1] = FirstRange(LayerRange, dist[1])
  <2>1. CASE TraceRoot
    <3> DEFINE r == FirstCheapest(LayerRange, LAMBDA s : dist[1][s], Before)
    <3>1. layer_range' = <<r>>
      BY <2>1 DEF TraceRoot
    <3>2. r = FirstRange(LayerRange, dist[1])
      BY DEF FirstCheapest, FirstRange, CheapestOf
    <3> HIDE DEF r
    <3>3. layer_range' \in Seq({r}) /\ layer_range'[1] = r
      BY <3>1
    <3> QED BY <3>2, <3>3
  <2>2. CASE TraceNode
    <3>1. PICK x : layer_range' = Append(layer_range, x)
      BY <2>2 DEF TraceNode
    <3>2. PICK S : layer_range \in Seq(S)
      BY <2>2 DEF TraceNode, StageInv
    <3>3. layer_range # <<>> /\ layer_range[1] = FirstRange(LayerRange, dist[1])
      BY <2>2 DEF TraceNode, StageInv
    <3>4. layer_range \in Seq(S \cup {x}) /\ Len(layer_range) \in Nat /\ Len(layer_range) > 0
      BY <3>2, <3>3
    <3>5. Append(layer_range, x) \in Seq(S \cup {x}) /\ Append(layer_range, x)[1] = layer_range[1]
      BY <3>4
    <3> QED BY <3>1, <3>3, <3>5
  <2> QED BY <2>1, <2>2
<1>5. FirstRange(LayerRange, dist[1])' = FirstRange(LayerRange, dist[1])
  BY <1>1
<1>6. layer_range' # <<>> =>
        /\ s1_node' = 1 /\ \E S : layer_range' \in Seq(S)
        /\ layer_range'[1] = FirstRange(LayerRange, dist[1])'
  BY <1>2, <1>4, <1>5
<1> QED BY <1>2, <1>3, <1>6 DEF StageInv

LEMMA NetRead ==
  ASSUME NetInv, tree.metal # <<>>
  PROVE  TreeOK
BY DEF NetInv, TreeShape, TreeOK

LEMMA StageStep ==
  ASSUME Inv, Stage1
  PROVE  Inv'
<1>1. UNCHANGED <<tree, table, scanVars>> /\ StageOneStep /\ scan_pc = "done"
  BY DEF Stage1, PresumReady
<1>2. tree.metal # <<>> /\ tree.metal \in [1 .. Len(tree.up) -> NoMetal .. L]
  <2>1. tree.metal \in [1 .. Len(tree.up) -> NoMetal .. L]
    BY <1>1 DEF Inv, NetInv
  <2>2. 1 \in 1 .. Len(tree.up)
    BY DEF Inv, NetInv, TreeShape
  <2> QED BY <2>1, <2>2
<1>3. NetInv'
  BY <1>1, <1>2 DEF Inv, NetInv, TreeShape
<1>4. StageInv'
  <2>1. TreeOK
    BY <1>2, NetRead DEF Inv
  <2> QED BY <1>1, <2>1, ViaCostsStep, CostNodeStep, TraceSteps DEF Inv, StageOneStep
<1> QED BY <1>3, <1>4 DEF Inv

LEMMA StageStutter ==
  ASSUME StageInv, UNCHANGED <<tree, table, stageOneVars>>
  PROVE  StageInv'
<1>1. UNCHANGED <<tree, table, dist, s1_node, layer_range>>
  BY DEF stageOneVars
<1>2. s1_node # 0 =>
        /\ TreeOK' /\ s1_node' \in TreeNode' /\ dist' \in Tables'
        /\ NoCheaper(dist, s1_node)' /\ Attained(dist, s1_node)'
  BY <1>1, SameTables
<1>3. FirstRange(LayerRange, dist[1])' = FirstRange(LayerRange, dist[1])
  BY <1>1
<1> QED BY <1>1, <1>2, <1>3 DEF StageInv

LEMMA InitNetStep ==
  ASSUME Inv, InitNet
  PROVE  Inv'
<1>1. NetInv'
  BY ReadStep DEF Inv
<1>2. tree.metal = <<>> /\ UNCHANGED <<dist, prev, s1_node, layer_range, s1_routes>>
  BY DEF InitNet, routeVars, stageOneVars
<1>3. s1_node = 0 /\ layer_range = <<>>
  <2>1. 1 \in 1 .. Len(tree.up)
    BY DEF Inv, NetInv, TreeShape
  <2>2. tree.metal \notin [1 .. Len(tree.up) -> NoMetal .. L]
    BY <1>2, <2>1
  <2>3. StageOneStart
    BY <2>2 DEF Inv, NetInv
  <2> QED BY <2>3 DEF StageOneStart
<1>4. StageInv'
  BY <1>2, <1>3 DEF StageInv
<1> QED BY <1>1, <1>4 DEF Inv

LEMMA ScanStep ==
  ASSUME Inv, Scan
  PROVE  Inv'
<1>1. UNCHANGED <<tree, table, stageOneVars>> /\ tree.metal # <<>>
  BY DEF Scan, routeVars
<1>2. NetInv'
  BY <1>1 DEF Inv, NetInv, TreeShape
<1>3. StageInv'
  BY <1>1, StageStutter DEF Inv
<1> QED BY <1>2, <1>3 DEF Inv

LEMMA OtherSteps ==
  ASSUME Inv, UNCHANGED <<tree, table, scanVars, stageOneVars>>
  PROVE  Inv'
<1>1. UNCHANGED <<scan_pc, dist, prev, s1_node, layer_range, s1_routes>>
  BY DEF scanVars, stageOneVars
<1>2. NetInv'
  BY <1>1 DEF Inv, NetInv, TreeShape, StageOneStart
<1>3. StageInv'
  BY <1>1, StageStutter DEF Inv
<1> QED BY <1>2, <1>3 DEF Inv

(* Whatever the loop over the nodes has come to, the tables of the nodes it    *)
(* has left cost no plan less than the best assignment and one no more; and   *)
(* the pins a net is read with are where its access points are.               *)
THEOREM StageOneInvariance == RouteSpec => []Inv
<1>1. RouteInit => Inv
  <2> SUFFICES ASSUME RouteInit PROVE Inv
    OBVIOUS
  <2>1. NetInv
    BY NetInitial
  <2>2. s1_node = 0 /\ layer_range = <<>>
    BY DEF RouteInit, StageOneStart
  <2>3. StageInv
    BY <2>2 DEF StageInv
  <2> QED BY <2>1, <2>3 DEF Inv
<1>2. Inv /\ [RouteNext]_allVars => Inv'
  <2> SUFFICES ASSUME Inv, [RouteNext]_allVars PROVE Inv'
    OBVIOUS
  <2>1. CASE UNCHANGED allVars
    BY <2>1, OtherSteps DEF allVars, routeVars
  <2>2. CASE InitNet
    BY <2>2, InitNetStep
  <2>3. CASE Scan
    BY <2>3, ScanStep
  <2>4. CASE Stage1
    BY <2>4, StageStep
  <2>5. CASE StartStage2
    BY <2>5, OtherSteps DEF StartStage2
  <2>6. CASE Stage2
    BY <2>6, OtherSteps DEF Stage2
  <2>7. CASE OutputNets
    BY <2>7, OtherSteps DEF OutputNets, routeVars
  <2>8. CASE Evaluate
    BY <2>8, OtherSteps DEF Evaluate, routeVars
  <2> QED BY <2>1, <2>2, <2>3, <2>4, <2>5, <2>6, <2>7, <2>8 DEF RouteNext
<1> QED BY <1>1, <1>2, PTL DEF RouteSpec

(* When the root is traced with a cost below INF, which the kernel asserts,   *)
(* no assignment of layers to the edges of the tree costs less, and some      *)
(* assignment costs just that (StageOneIsOptimal): for every tree in          *)
(* preorder, every selection of pins and every map of costs.                  *)
THEOREM StageOneFindsTheBest ==
  RouteSpec => [](dist[1][layer_range[1]] < Inf => StageOneIsOptimal)
<1>1. Inv => (dist[1][layer_range[1]] < Inf => StageOneIsOptimal)
  <2> SUFFICES ASSUME Inv, dist[1][layer_range[1]] < Inf, layer_range # <<>>
               PROVE  dist[1][layer_range[1]] = LeastAssigned
    BY DEF StageOneIsOptimal, StageOneDone
  <2> DEFINE r == layer_range[1]
             least == LeastAssigned
  <2>1. /\ s1_node = 1 /\ r = FirstRange(LayerRange, dist[1])
        /\ TreeOK /\ dist \in Tables /\ NoCheaper(dist, 1) /\ Attained(dist, 1)
    BY DEF Inv, StageInv
  <2>2. 1 \in TreeNode
    BY <2>1, Parents
  <2>3. dist[1] \in [LayerRange -> Nat]
    BY <2>1, <2>2 DEF Tables
  <2>4. LayerRange # {}
    <3>1. <<0, 0>> \in LayerRange
      BY Sizes DEF LayerRange, Layer
    <3> QED BY <3>1
  <2>5. r \in LayerRange /\ \A s \in LayerRange : dist[1][r] <= dist[1][s]
    BY <2>1, <2>3, <2>4, FirstRangeIs
  <2>0. dist[1][r] < Inf
    OBVIOUS
  <2> HIDE DEF r, least
  <2>6. least <= dist[1][r]
    <3> DEFINE R == [i \in TreeNode |-> r]
    <3>1. R \in Ranges /\ R[1] = r
      BY <2>2, <2>5 DEF Ranges
    <3>2. PICK e \in Assignments : TRUE
      BY <2>1, AssignmentsExist
    <3> HIDE DEF R
    <3>3. Fits(1, R, e)
      BY DEF Fits
    <3>4. least <= PlanCost(dist, 1, R, e) \/ Inf <= PlanCost(dist, 1, R, e)
      BY <2>1, <3>1, <3>3 DEF NoCheaper, least
    <3>5. PlanCost(dist, 1, R, e) = dist[1][R[1]]
      BY <2>1, <2>2, <3>1, CostIs
    <3>6. dist[1][r] \in Nat
      BY <2>3, <2>5
    <3> QED BY <2>0, <3>1, <3>4, <3>5, <3>6, Sizes
  <2>7. dist[1][r] <= least
    <3>1. PICK R \in Ranges, e \in Assignments : PlanCost(dist, 1, R, e) <= least
      BY <2>1 DEF Attained, least
    <3>2. PlanCost(dist, 1, R, e) = dist[1][R[1]] /\ R[1] \in LayerRange
      BY <2>1, <2>2, CostIs DEF Ranges
    <3>3. dist[1][r] <= dist[1][R[1]] /\ dist[1][r] \in Nat /\ dist[1][R[1]] \in Nat
      BY <2>3, <2>5, <3>2
    <3>4. least \in Nat
      BY <2>1, AssignedIs DEF least
    <3> QED BY <3>1, <3>2, <3>3, <3>4
  <2>8. least \in Nat
    BY <2>1, AssignedIs DEF least
  <2>9. dist[1][r] \in Nat
    BY <2>3, <2>5
  <2>10. dist[1][r] = least
    BY <2>6, <2>7, <2>8, <2>9
  <2> QED BY <2>10 DEF r, least
<1> QED BY <1>1, StageOneInvariance, PTL
=============================================================================
