-------------------------- MODULE CostRefresh_proofs --------------------------
(***************************************************************************)
(* Proofs about CostRefresh: the dynamic program never reads a stale cost, *)
(* a batch leaves nothing of its wires in the scratch grid, and between    *)
(* batches the demand is what the current routes use, for every grid, list *)
(* of nets and routes, and every size of the dirty list.                   *)
(***************************************************************************)
EXTENDS CostRefresh, Ascending_proofs, WellFoundedInduction

AllWires == UNION {r.wires : r \in Routes}
AllVias  == UNION {r.vias : r \in Routes}

Kernels == {"idle", "ripup_wires", "ripup_vias", "update", "presum", "finish", "route",
            "scan", "commit", "vias"}

(* Every kernel's items are items of that kernel.                             *)
TodoOK ==
  /\ pc \in {"idle", "update", "presum", "finish"} => todo = {}
  /\ pc = "ripup_wires" => \A x \in todo : x[2] \in AllWires
  /\ pc \in {"ripup_vias", "vias"} => \A x \in todo : x[2] \in AllVias
  /\ pc \in {"scan", "commit"} => todo \subseteq Track
  /\ pc = "route" => todo \subseteq Nets

TypeOK ==
  /\ incr \in [vcost : BOOLEAN, presum : BOOLEAN, commit : BOOLEAN]
  /\ pc \in Kernels /\ batch \subseteq Nets /\ waiting \subseteq Nets
  /\ routes \in [Nets -> Routes \cup {NoRoute}]
  /\ DOMAIN demand = Cell /\ DOMAIN pre_demand = Cell
  /\ DOMAIN vcost = Cell /\ DOMAIN presum = Track
  /\ track_dirty \in [Track -> BOOLEAN] /\ pre_flag \in [Track -> BOOLEAN]
  /\ TodoOK

(* The list holds what was recorded, unless it is full and says so.           *)
ListOK ==
  /\ dirty = [cnt |-> dirty.cnt, overflow |-> dirty.overflow, cells |-> dirty.cells]
  /\ dirty.cnt \in Nat /\ dirty.overflow \in BOOLEAN
  /\ DOMAIN dirty.cells = 0 .. Limit - 1
  /\ ~ dirty.overflow => dirty.cnt <= Limit

VcostFreshAt(c) == vcost[c] = VcostOf(demand, c)
PresumFreshAt(t) == presum[t] = PresumOf(demand, t)

(* Whatever is stale will be computed again by the next refresh.              *)
StaleIsRecorded ==
  /\ \A c \in Cell : \/ VcostFreshAt(c) \/ ~ incr.vcost \/ dirty.overflow
                     \/ c \in Refreshed(Listed)
  /\ \A t \in Track : \/ PresumFreshAt(t) \/ ~ incr.presum \/ dirty.overflow \/ track_dirty[t]

(* What the kernels of a refresh have made fresh stays so until the commit.   *)
FreshSoFar ==
  /\ pc \in {"presum", "finish", "route", "scan"} => \A c \in Cell : VcostFreshAt(c)
  /\ pc \in {"finish", "route", "scan"} => \A t \in Track : PresumFreshAt(t)

CostInv == TypeOK /\ ListOK /\ StaleIsRecorded /\ FreshSoFar

(* Only flagged tracks hold parts of the routes, and commit leaves none.      *)
TrackIsClear(t) == \A i \in 0 .. Len1 : pre_demand[<<t, i>>] = 0

ScratchInv ==
  /\ pc \in {"idle", "ripup_wires", "ripup_vias", "update", "presum", "finish", "vias"} =>
       \A t \in Track : TrackIsClear(t) /\ (incr.commit => ~ pre_flag[t])
  /\ pc = "route" => \A t \in Track : pre_flag[t] \/ TrackIsClear(t)
  /\ pc = "scan" => \A t \in Track : ~ incr.commit \/ pre_flag[t] \/ TrackIsClear(t)
  /\ pc = "commit" => \A t \in Track :
       IF t \in todo THEN ~ incr.commit \/ pre_flag[t] \/ TrackIsClear(t)
                     ELSE TrackIsClear(t) /\ (incr.commit => ~ pre_flag[t])
-----------------------------------------------------------------------------
(* Cells, the list and what is read from it.                                  *)
LEMMA CellParts ==
  /\ \A c \in Cell : c[1] \in Track /\ c[2] \in 0 .. Len1 /\ c = <<c[1], c[2]>>
  /\ \A t \in Track, i \in 0 .. Len1 : <<t, i>> \in Cell
  /\ Len1 \in Nat /\ Len1 > 1
  BY CostAssumption DEF Cell

LEMMA ListedIs ==
  ASSUME ListOK, ~ dirty.overflow
  PROVE  Listed = {dirty.cells[k] : k \in 0 .. dirty.cnt - 1}
<1>1. Limit \in Nat /\ dirty.cnt \in Nat /\ dirty.cnt <= Limit
  BY CostAssumption DEF ListOK
<1>2. Min({dirty.cnt, Limit}) = dirty.cnt
  BY <1>1 DEF Min
<1> QED BY <1>2 DEF Listed

LEMMA Recording ==
  ASSUME ListOK, NEW S, NEW seq \in Seq(S), incr' = incr, incr.vcost \in BOOLEAN,
         dirty' = RecordSegment(seq) \/ dirty' = RecordCells(seq)
  PROVE  /\ ListOK' /\ (dirty.overflow => dirty'.overflow)
         /\ incr.vcost /\ ~ dirty'.overflow =>
              /\ \A c \in Listed : c \in Listed'
              /\ \A k \in 1 .. Len(seq) : seq[k] \in Listed'
<1>1. Limit \in Nat /\ dirty.cnt \in Nat /\ Len(seq) \in Nat /\ dirty.overflow \in BOOLEAN
  BY CostAssumption, LenProperties DEF ListOK
<1>2. CASE ~ incr.vcost \/ dirty.overflow
  <2>1. dirty' = dirty
    BY <1>2 DEF RecordSegment, RecordCells
  <2> QED BY <1>2, <2>1 DEF ListOK
<1>3. CASE incr.vcost /\ ~ dirty.overflow /\ dirty.cnt + Len(seq) > Limit
  <2>1. CASE dirty' = RecordSegment(seq)
    <3>1. dirty' = [cnt |-> dirty.cnt + Len(seq), overflow |-> TRUE, cells |-> dirty.cells]
      BY <1>3, <2>1 DEF RecordSegment
    <3>2. dirty'.overflow = TRUE /\ dirty'.cnt \in Nat /\ dirty'.cells = dirty.cells
          /\ dirty'.cnt = dirty.cnt + Len(seq)
      BY <1>1, <3>1
    <3> QED BY <3>1, <3>2 DEF ListOK
  <2>2. CASE dirty' = RecordCells(seq)
    <3> DEFINE new == [k \in DOMAIN dirty.cells |->
                         IF k \in dirty.cnt .. dirty.cnt + Len(seq) - 1
                         THEN seq[k - dirty.cnt + 1] ELSE dirty.cells[k]]
    <3>1. dirty' = [cnt |-> Limit + 1, overflow |-> TRUE, cells |-> new]
      BY <1>3, <2>2 DEF RecordCells
    <3>2. DOMAIN new = 0 .. Limit - 1
      BY DEF ListOK
    <3> HIDE DEF new
    <3>3. dirty'.overflow = TRUE /\ dirty'.cnt \in Nat /\ dirty'.cells = new
          /\ dirty'.cnt = Limit + 1
      BY <1>1, <3>1
    <3> QED BY <3>1, <3>2, <3>3 DEF ListOK
  <2> QED BY <2>1, <2>2
<1>4. CASE incr.vcost /\ ~ dirty.overflow /\ ~ (dirty.cnt + Len(seq) > Limit)
  <2> DEFINE new == [k \in DOMAIN dirty.cells |->
                       IF k \in dirty.cnt .. dirty.cnt + Len(seq) - 1
                       THEN seq[k - dirty.cnt + 1] ELSE dirty.cells[k]]
  <2>1. dirty' = [cnt |-> dirty.cnt + Len(seq), overflow |-> FALSE, cells |-> new]
    BY <1>1, <1>4 DEF RecordSegment, RecordCells
  <2>2. DOMAIN new = 0 .. Limit - 1 /\ dirty.cnt + Len(seq) \in Nat
        /\ dirty.cnt + Len(seq) <= Limit
    BY <1>1, <1>4 DEF ListOK
  <2>3. \A k \in 0 .. Limit - 1 :
          new[k] = IF k \in dirty.cnt .. dirty.cnt + Len(seq) - 1
                   THEN seq[k - dirty.cnt + 1] ELSE dirty.cells[k]
    BY DEF ListOK
  <2> HIDE DEF new
  <2>4. /\ dirty'.cnt = dirty.cnt + Len(seq) /\ dirty'.overflow = FALSE /\ dirty'.cells = new
    BY <2>1
  <2>5. ListOK'
    BY <2>1, <2>2, <2>4 DEF ListOK
  <2>6. \A k \in 0 .. dirty.cnt + Len(seq) - 1 : new[k] \in Listed'
    <3>1. Min({dirty.cnt + Len(seq), Limit}) = dirty.cnt + Len(seq)
      BY <1>1, <2>2 DEF Min
    <3> DEFINE size == Min({dirty'.cnt, Limit})
    <3>2. Listed' = {dirty'.cells[k] : k \in 0 .. size - 1}
      BY DEF Listed
    <3>3. size = dirty.cnt + Len(seq)
      BY <2>4, <3>1
    <3> HIDE DEF size
    <3>4. \A k \in 0 .. size - 1 : dirty'.cells[k] \in Listed'
      BY <3>2
    <3> QED BY <1>1, <2>4, <3>3, <3>4
  <2>7. \A c \in Listed : c \in Listed'
    <3> SUFFICES ASSUME NEW k \in 0 .. dirty.cnt - 1
                 PROVE  dirty.cells[k] \in Listed'
      BY <1>4, ListedIs
    <3>1. k \in 0 .. Limit - 1 /\ k \in 0 .. dirty.cnt + Len(seq) - 1
          /\ k \notin dirty.cnt .. dirty.cnt + Len(seq) - 1
      BY <1>1, <2>2
    <3> QED BY <2>3, <2>6, <3>1
  <2>8. \A k \in 1 .. Len(seq) : seq[k] \in Listed'
    <3> SUFFICES ASSUME NEW k \in 1 .. Len(seq) PROVE seq[k] \in Listed'
      OBVIOUS
    <3> DEFINE j == dirty.cnt + k - 1
    <3>1. /\ j \in 0 .. Limit - 1 /\ j \in 0 .. dirty.cnt + Len(seq) - 1
          /\ j \in dirty.cnt .. dirty.cnt + Len(seq) - 1 /\ j - dirty.cnt + 1 = k
      BY <1>1, <2>2
    <3>2. new[j] = seq[k]
      BY <2>3, <3>1
    <3> QED BY <2>6, <3>1, <3>2
  <2> QED BY <1>4, <2>4, <2>5, <2>7, <2>8
<1> QED BY <1>1, <1>2, <1>3, <1>4

(* Cells of one track have changed; they are in the list and the track is     *)
(* flagged.  The next cell on the track is refreshed with each listed one.    *)
LEMMA RecordedIsEnough ==
  ASSUME StaleIsRecorded, UNCHANGED <<incr, vcost, presum>>,
         NEW t \in Track, NEW changed, \A e \in changed : e[1] = t,
         \A e \in Cell : e \notin changed => demand'[e] = demand[e],
         dirty.overflow => dirty'.overflow,
         incr.vcost /\ ~ dirty'.overflow =>
           Listed \subseteq Listed' /\ changed \cap Cell \subseteq Listed',
         \A u \in Track : track_dirty[u] => track_dirty'[u],
         incr.presum /\ changed # {} => track_dirty'[t]
  PROVE  StaleIsRecorded'
<1>1. ASSUME NEW c \in Cell, incr.vcost, ~ dirty'.overflow, c \notin Refreshed(Listed')
      PROVE  vcost'[c] = VcostOf(demand', c)
  <2>1. Listed \subseteq Listed' /\ changed \cap Cell \subseteq Listed'
    BY <1>1
  <2>2. c \notin Refreshed(Listed)
    BY <1>1, <2>1 DEF Refreshed
  <2>3. vcost[c] = VcostOf(demand, c)
    BY <1>1, <2>2 DEF StaleIsRecorded, VcostFreshAt
  <2>4. c \notin changed
    BY <1>1, <2>1 DEF Refreshed
  <2>5. c[1] \in Track /\ c[2] \in 0 .. Len1 /\ c = <<c[1], c[2]>> /\ Len1 \in Nat /\ Len1 > 1
    BY CellParts
  <2>6. demand'[<<c[1], c[2]>>] = demand[<<c[1], c[2]>>]
    BY <2>4, <2>5
  <2>7. c[2] # 0 => demand'[<<c[1], c[2] - 1>>] = demand[<<c[1], c[2] - 1>>]
    <3> SUFFICES ASSUME c[2] # 0
                 PROVE  demand'[<<c[1], c[2] - 1>>] = demand[<<c[1], c[2] - 1>>]
      OBVIOUS
    <3> DEFINE e == <<c[1], c[2] - 1>>
    <3>1. e \in Cell /\ e[1] = c[1] /\ e[2] = c[2] - 1 /\ e[2] < Len1 /\ e[2] + 1 = c[2]
      BY <2>5, CellParts
    <3>2. e \notin Listed'
      <4> SUFFICES ASSUME e \in Listed' PROVE FALSE
        OBVIOUS
      <4>1. <<e[1], e[2] + 1>> \in Refreshed(Listed')
        BY <3>1 DEF Refreshed
      <4>2. <<e[1], e[2] + 1>> = c
        BY <2>5, <3>1
      <4> QED BY <1>1, <4>1, <4>2
    <3>3. e \notin changed
      BY <2>1, <3>1, <3>2
    <3> QED BY <3>1, <3>3
  <2>8. VcostOf(demand', c) = VcostOf(demand, c)
    <3>1. CASE c[2] = 0
      BY <2>6, <3>1 DEF VcostOf
    <3>2. CASE c[2] # 0
      BY <2>6, <2>7, <3>2 DEF VcostOf
    <3> QED BY <3>1, <3>2
  <2> QED BY <2>3, <2>8
<1>2. ASSUME NEW u \in Track, incr.presum, ~ dirty'.overflow, ~ track_dirty'[u]
      PROVE  presum'[u] = PresumOf(demand', u)
  <2>1. presum[u] = PresumOf(demand, u)
    BY <1>2 DEF StaleIsRecorded, PresumFreshAt
  <2>2. u # t \/ changed = {}
    BY <1>2
  <2>3. \A i \in 0 .. Len1 - 1 : demand'[<<u, i>>] = demand[<<u, i>>]
    <3> SUFFICES ASSUME NEW i \in 0 .. Len1 - 1
                 PROVE  demand'[<<u, i>>] = demand[<<u, i>>]
      OBVIOUS
    <3>1. <<u, i>> \in Cell /\ <<u, i>>[1] = u
      BY CellParts
    <3>2. <<u, i>> \notin changed
      BY <2>2, <3>1
    <3> QED BY <3>1, <3>2
  <2> QED BY <2>1, <2>3 DEF PresumOf
<1> QED BY <1>1, <1>2 DEF StaleIsRecorded, VcostFreshAt, PresumFreshAt

-----------------------------------------------------------------------------
(* What is recorded are the cells that change.                                *)
LEMMA WireParts ==
  ASSUME NEW w \in AllWires
  PROVE  w[1] \in Track /\ w[2] \in 0 .. Len1 /\ w[3] \in 0 .. Len1 /\ w[2] < w[3]
  BY CostAssumption DEF AllWires

LEMMA SegmentIsListed ==
  ASSUME NEW w \in AllWires
  PROVE  /\ SegmentSeq(w) \in Seq(Cell)
         /\ \A e \in SegmentCells(w) : e \in Cell /\ e[1] = w[1]
         /\ \A e \in SegmentCells(w) :
              \E k \in 1 .. Len(SegmentSeq(w)) : SegmentSeq(w)[k] = e
<1>1. /\ w[1] \in Track /\ w[2] \in 0 .. Len1 /\ w[3] \in 0 .. Len1 /\ w[2] < w[3]
      /\ Len1 \in Nat
  BY WireParts, CellParts
<1>2. \A k \in 1 .. w[3] - w[2] : <<w[1], w[2] + k - 1>> \in Cell
  <2> SUFFICES ASSUME NEW k \in 1 .. w[3] - w[2] PROVE <<w[1], w[2] + k - 1>> \in Cell
    OBVIOUS
  <2>1. w[2] + k - 1 \in 0 .. Len1
    BY <1>1
  <2> QED BY <1>1, <2>1, CellParts
<1>3. SegmentSeq(w) \in Seq(Cell) /\ Len(SegmentSeq(w)) = w[3] - w[2]
  BY <1>1, <1>2 DEF SegmentSeq
<1>4. ASSUME NEW i \in w[2] .. w[3] - 1
      PROVE  /\ <<w[1], i>> \in Cell
             /\ \E k \in 1 .. Len(SegmentSeq(w)) : SegmentSeq(w)[k] = <<w[1], i>>
  <2> DEFINE k == i - w[2] + 1
  <2>1. k \in 1 .. w[3] - w[2] /\ w[2] + k - 1 = i /\ i \in 0 .. Len1
    BY <1>1
  <2>2. SegmentSeq(w)[k] = <<w[1], i>>
    BY <2>1 DEF SegmentSeq
  <2> QED BY <1>1, <1>3, <2>1, <2>2, CellParts
<1>5. \A e \in SegmentCells(w) : \E i \in w[2] .. w[3] - 1 : e = <<w[1], i>>
  BY DEF SegmentCells
<1>6. \A i : <<w[1], i>>[1] = w[1]
  OBVIOUS
<1>7. ASSUME NEW e \in SegmentCells(w)
      PROVE  /\ e \in Cell /\ e[1] = w[1]
             /\ \E k \in 1 .. Len(SegmentSeq(w)) : SegmentSeq(w)[k] = e
  <2>1. PICK i \in w[2] .. w[3] - 1 : e = <<w[1], i>>
    BY <1>5
  <2> QED BY <1>4, <1>6, <2>1
<1> QED BY <1>3, <1>7

LEMMA ViaIsListed ==
  ASSUME NEW c \in Cell
  PROVE  /\ ViaSeq(c) \in Seq(Cell)
         /\ \A e \in SplitCells(c) : e \in Cell /\ e[1] = c[1]
         /\ \A e \in SplitCells(c) : \E k \in 1 .. Len(ViaSeq(c)) : ViaSeq(c)[k] = e
<1>1. c[1] \in Track /\ c[2] \in 0 .. Len1 /\ c = <<c[1], c[2]>> /\ Len1 \in Nat
  BY CellParts
<1>2. c[2] # 0 => <<c[1], c[2] - 1>> \in Cell
  <2> SUFFICES ASSUME c[2] # 0 PROVE <<c[1], c[2] - 1>> \in Cell
    OBVIOUS
  <2>1. c[2] - 1 \in 0 .. Len1
    BY <1>1
  <2> QED BY <1>1, <2>1, CellParts
<1>3. ViaSeq(c) \in Seq(Cell) /\ \A k \in 1 .. Len(ViaSeq(c)) : ViaSeq(c)[k][1] = c[1]
  BY <1>1, <1>2 DEF ViaSeq
<1>4. DOMAIN ViaSeq(c) = 1 .. Len(ViaSeq(c))
  BY <1>3, LenProperties
<1>5. \A e \in SplitCells(c) : \E k \in 1 .. Len(ViaSeq(c)) : ViaSeq(c)[k] = e
  BY <1>4 DEF SplitCells
<1>6. \A k \in 1 .. Len(ViaSeq(c)) : ViaSeq(c)[k] \in Cell
  BY <1>3, ElementOfSeq
<1> QED BY <1>3, <1>5, <1>6

LEMMA UsedAreListed ==
  ASSUME NEW t \in Track, NEW used \in SUBSET (0 .. Len1 - 1)
  PROVE  /\ \E S : UsedSeq(t, used) \in Seq(S)
         /\ \A i \in used :
              \E k \in 1 .. Len(UsedSeq(t, used)) : UsedSeq(t, used)[k] = <<t, i>>
<1> DEFINE S == {<<t, i>> : i \in used}
<1>1. IsFiniteSet(used) /\ used \in SUBSET Int
  <2>1. Len1 \in Nat /\ used \in SUBSET Int /\ 0 \in Int /\ Len1 - 1 \in Int
    BY CellParts
  <2> QED BY <2>1, FS_Interval, FS_Subset
<1>2. /\ Cardinality(used) \in Nat
      /\ Ascending(used) \in Seq(used) /\ Len(Ascending(used)) = Cardinality(used)
      /\ \A i \in used : \E k \in 1 .. Cardinality(used) : Ascending(used)[k] = i
  BY <1>1, AscendingProperties
<1>3. \A k \in 1 .. Cardinality(used) : <<t, Ascending(used)[k]>> \in S
  BY <1>2, ElementOfSeq
<1> HIDE DEF S
<1>4. UsedSeq(t, used) \in Seq(S) /\ Len(UsedSeq(t, used)) = Cardinality(used)
  BY <1>2, <1>3 DEF UsedSeq
<1>5. \A k \in 1 .. Cardinality(used) : UsedSeq(t, used)[k] = <<t, Ascending(used)[k]>>
  BY DEF UsedSeq
<1> QED BY <1>2, <1>4, <1>5

LEMMA RouteParts ==
  ASSUME TypeOK, NEW m \in SUBSET Nets
  PROVE  /\ \A x \in Segments(m) : x[2] \in AllWires
         /\ \A x \in ViaCells(m) : x[2] \in AllVias
<1>1. \A n \in m : /\ \A w \in routes[n].wires : w \in AllWires
                   /\ \A c \in routes[n].vias : c \in AllVias
  BY DEF TypeOK, NoRoute, AllWires, AllVias
<1>2. ASSUME NEW x \in Segments(m) PROVE x[2] \in AllWires
  <2>1. PICK n \in m : x \in {<<n, w>> : w \in routes[n].wires}
    BY DEF Segments
  <2> QED BY <1>1, <2>1
<1>3. ASSUME NEW x \in ViaCells(m) PROVE x[2] \in AllVias
  <2>1. PICK n \in m : x \in {<<n, c>> : c \in routes[n].vias}
    BY DEF ViaCells
  <2> QED BY <1>1, <2>1
<1> QED BY <1>2, <1>3

LEMMA NothingChanges ==
  ASSUME ListOK, StaleIsRecorded, UNCHANGED <<incr, demand, dirty, track_dirty, vcost, presum>>
  PROVE  /\ ListOK' /\ StaleIsRecorded'
         /\ \A c \in Cell : VcostFreshAt(c) => VcostFreshAt(c)'
         /\ \A t \in Track : PresumFreshAt(t) => PresumFreshAt(t)'
<1>1. Listed' = Listed
  BY DEF Listed
<1>2. \A c \in Cell : VcostFreshAt(c)' <=> VcostFreshAt(c)
  BY DEF VcostFreshAt, VcostOf
<1>3. \A t \in Track : PresumFreshAt(t)' <=> PresumFreshAt(t)
  BY DEF PresumFreshAt, PresumOf
<1>4. ListOK'
  BY DEF ListOK
<1>5. StaleIsRecorded'
  BY <1>1, <1>2, <1>3 DEF StaleIsRecorded, Refreshed
<1> QED BY <1>2, <1>3, <1>4, <1>5

-----------------------------------------------------------------------------
(* The initial state and each action.                                         *)
LEMMA CostInit == Init => CostInv /\ ScratchInv
<1> SUFFICES ASSUME Init PROVE CostInv /\ ScratchInv
  OBVIOUS
<1>1. TypeOK
  BY DEF Init, TypeOK, TodoOK, Kernels
<1>2. ListOK
  BY CostAssumption DEF Init, ListOK
<1>3. StaleIsRecorded /\ FreshSoFar
  BY DEF Init, StaleIsRecorded, FreshSoFar
<1>4. ScratchInv
  BY CellParts DEF Init, ScratchInv, TrackIsClear
<1> QED BY <1>1, <1>2, <1>3, <1>4 DEF CostInv

LEMMA HostKeepsInv ==
  ASSUME CostInv, StartBatch \/ StartStage2
  PROVE  CostInv'
<1> USE DEF CostInv
<1>1. UNCHANGED <<incr, demand, pre_demand, dirty, track_dirty, pre_flag, vcost, presum, routes>>
  BY DEF StartBatch, StartStage2
<1>2. ListOK' /\ StaleIsRecorded'
  BY <1>1, NothingChanges
<1>3. CASE StartBatch
  <2>1. PICK m \in SUBSET waiting : batch' = m /\ waiting' = waiting \ m
    BY <1>3 DEF StartBatch
  <2>2. \/ pc' = "update" /\ todo' = {}
        \/ pc' = "ripup_wires" /\ todo' = Segments(m)
    BY <1>3, <2>1 DEF StartBatch
  <2>3. m \in SUBSET Nets
    BY <2>1 DEF TypeOK
  <2>4. TodoOK'
    BY <2>2, <2>3, RouteParts DEF TodoOK
  <2>5. TypeOK'
    BY <1>1, <2>1, <2>2, <2>3, <2>4 DEF TypeOK, Kernels
  <2>6. FreshSoFar'
    BY <2>2 DEF FreshSoFar
  <2> QED BY <1>2, <2>5, <2>6
<1>4. CASE StartStage2
  <2>1. pc' = "idle" /\ pc = "idle" /\ todo' = todo /\ batch' = batch /\ waiting' \in SUBSET Nets
    BY <1>4 DEF StartStage2
  <2>2. TypeOK'
    BY <1>1, <2>1 DEF TypeOK, TodoOK
  <2>3. FreshSoFar'
    BY <2>1 DEF FreshSoFar
  <2> QED BY <1>2, <2>2, <2>3
<1> QED BY <1>3, <1>4

LEMMA NextKernelKeepsInv ==
  ASSUME CostInv, NextKernel
  PROVE  CostInv'
<1> USE DEF CostInv
<1>1. UNCHANGED <<incr, demand, pre_demand, dirty, track_dirty, pre_flag, vcost, presum,
                  routes, batch, waiting>>
  BY DEF NextKernel, plan
<1>2. /\ ListOK' /\ StaleIsRecorded'
      /\ \A c \in Cell : VcostFreshAt(c) => VcostFreshAt(c)'
      /\ \A t \in Track : PresumFreshAt(t) => PresumFreshAt(t)'
  BY <1>1, NothingChanges
<1>3. \/ pc' \in {"ripup_vias", "vias"} /\ todo' = ViaCells(batch)
      \/ pc' \in {"update", "idle"} /\ todo' = {}
      \/ pc = "route" /\ pc' = "scan" /\ todo' = Track
      \/ pc' = "commit" /\ todo' = Track
  BY DEF NextKernel
<1>4. batch \in SUBSET Nets
  BY DEF TypeOK
<1>5. TodoOK'
  BY <1>3, <1>4, RouteParts DEF TodoOK
<1>6. TypeOK'
  BY <1>1, <1>3, <1>5 DEF TypeOK, Kernels
<1>7. FreshSoFar'
  BY <1>2, <1>3 DEF FreshSoFar
<1> QED BY <1>2, <1>6, <1>7

LEMMA RipupWireKeepsInv ==
  ASSUME CostInv, NEW item \in todo, pc = "ripup_wires", RipupWire(item[1], item[2])
  PROVE  CostInv'
<1> USE DEF CostInv
<1> DEFINE w == item[2]
<1>1. w \in AllWires
  BY DEF TypeOK, TodoOK
<1> HIDE DEF w
<1>2. /\ pc' = pc /\ todo' \subseteq todo /\ dirty' = RecordSegment(SegmentSeq(w))
      /\ track_dirty' = FlagTrack(w[1]) /\ demand' = AddSegment(w, -1)
      /\ UNCHANGED <<incr, batch, waiting, routes, pre_demand, pre_flag, vcost, presum>>
  BY DEF RipupWire, plan, w
<1>3. w[1] \in Track
  BY <1>1, WireParts
<1>4. \A e \in Cell : e \notin SegmentCells(w) => demand'[e] = demand[e]
  BY <1>2 DEF AddSegment
<1>5. DOMAIN demand' = Cell
  BY <1>2 DEF AddSegment
<1>6. track_dirty' \in [Track -> BOOLEAN] /\ (\A u \in Track : track_dirty[u] => track_dirty'[u])
      /\ (incr.presum => track_dirty'[w[1]])
  BY <1>2, <1>3 DEF FlagTrack, TypeOK
<1>7. /\ ListOK' /\ (dirty.overflow => dirty'.overflow)
      /\ incr.vcost /\ ~ dirty'.overflow =>
           Listed \subseteq Listed' /\ SegmentCells(w) \cap Cell \subseteq Listed'
  <2>1. incr.vcost \in BOOLEAN
    BY DEF TypeOK
  <2>2. SegmentSeq(w) \in Seq(Cell)
    BY <1>1, SegmentIsListed
  <2>3. /\ ListOK' /\ (dirty.overflow => dirty'.overflow)
        /\ incr.vcost /\ ~ dirty'.overflow =>
              /\ \A c \in Listed : c \in Listed'
              /\ \A k \in 1 .. Len(SegmentSeq(w)) : SegmentSeq(w)[k] \in Listed'
    BY <1>2, <2>1, <2>2, Recording
  <2>4. \A e \in SegmentCells(w) : \E k \in 1 .. Len(SegmentSeq(w)) : SegmentSeq(w)[k] = e
    BY <1>1, SegmentIsListed
  <2> QED BY <2>3, <2>4
<1>8. \A e \in SegmentCells(w) : e[1] = w[1]
  BY <1>1, SegmentIsListed
<1>9. StaleIsRecorded'
  BY <1>2, <1>3, <1>4, <1>6, <1>7, <1>8, RecordedIsEnough
<1>10. TypeOK'
  BY <1>2, <1>5, <1>6 DEF TypeOK, TodoOK
<1>11. FreshSoFar'
  BY <1>2 DEF FreshSoFar
<1> QED BY <1>7, <1>9, <1>10, <1>11

LEMMA ViaCellKeepsInv ==
  ASSUME CostInv, NEW item \in todo, pc \in {"ripup_vias", "vias"}, ViaCell(item[1], item[2])
  PROVE  CostInv'
<1> USE DEF CostInv
<1> DEFINE c == item[2]
<1>1. c \in Cell
  <2>1. c \in AllVias
    BY DEF TypeOK, TodoOK
  <2> QED BY <2>1, CostAssumption DEF AllVias, Cell
<1> HIDE DEF c
<1>2. /\ pc' = pc /\ todo' \subseteq todo
      /\ UNCHANGED <<incr, batch, waiting, routes, pre_demand, pre_flag, vcost, presum>>
  BY DEF ViaCell, plan
<1>3. FreshSoFar'
  BY <1>2 DEF FreshSoFar
<1>4. CASE UNCHANGED <<demand, dirty, track_dirty>>
  <2>1. ListOK' /\ StaleIsRecorded'
    BY <1>2, <1>4, NothingChanges
  <2>2. TypeOK'
    BY <1>2, <1>4 DEF TypeOK, TodoOK
  <2> QED BY <1>3, <2>1, <2>2
<1>5. CASE /\ demand' = AddVia(c, IF pc = "vias" THEN 1 ELSE -1)
           /\ dirty' = RecordCells(ViaSeq(c)) /\ track_dirty' = FlagTrack(c[1])
  <2>1. c[1] \in Track
    BY <1>1, CellParts
  <2>2. \A e \in Cell : e \notin SplitCells(c) => demand'[e] = demand[e]
    BY <1>5 DEF AddVia
  <2>3. DOMAIN demand' = Cell
    BY <1>5 DEF AddVia
  <2>4. track_dirty' \in [Track -> BOOLEAN] /\ (\A u \in Track : track_dirty[u] => track_dirty'[u])
        /\ (incr.presum => track_dirty'[c[1]])
    BY <1>5, <2>1 DEF FlagTrack, TypeOK
  <2>5. /\ ListOK' /\ (dirty.overflow => dirty'.overflow)
        /\ incr.vcost /\ ~ dirty'.overflow =>
             Listed \subseteq Listed' /\ SplitCells(c) \cap Cell \subseteq Listed'
    <3>1. incr.vcost \in BOOLEAN
      BY DEF TypeOK
    <3>2. ViaSeq(c) \in Seq(Cell)
      BY <1>1, ViaIsListed
    <3>3. /\ ListOK' /\ (dirty.overflow => dirty'.overflow)
          /\ incr.vcost /\ ~ dirty'.overflow =>
                /\ \A e \in Listed : e \in Listed'
                /\ \A k \in 1 .. Len(ViaSeq(c)) : ViaSeq(c)[k] \in Listed'
      BY <1>2, <1>5, <3>1, <3>2, Recording
    <3>4. \A e \in SplitCells(c) : \E k \in 1 .. Len(ViaSeq(c)) : ViaSeq(c)[k] = e
      BY <1>1, ViaIsListed
    <3> QED BY <3>3, <3>4
  <2>6. \A e \in SplitCells(c) : e[1] = c[1]
    BY <1>1, ViaIsListed
  <2>7. StaleIsRecorded'
    BY <1>2, <2>1, <2>2, <2>4, <2>5, <2>6, RecordedIsEnough
  <2>8. TypeOK'
    BY <1>2, <2>3, <2>4 DEF TypeOK, TodoOK
  <2> QED BY <1>3, <2>5, <2>7, <2>8
<1> QED BY <1>4, <1>5 DEF ViaCell, c

LEMMA RefreshKeepsInv ==
  ASSUME CostInv, UpdateCost \/ ComputePresum \/ FinishRefresh
  PROVE  CostInv'
<1> USE DEF CostInv
<1>1. UNCHANGED <<incr, batch, waiting, routes, pre_demand, pre_flag, demand>>
  BY DEF UpdateCost, ComputePresum, FinishRefresh, plan
<1>2. CASE UpdateCost
  <2>1. pc' = "presum" /\ todo' = todo /\ todo = {} /\ UNCHANGED <<dirty, track_dirty, presum>>
    BY <1>2 DEF UpdateCost, TypeOK, TodoOK
  <2>2. ListOK' /\ DOMAIN vcost' = Cell
    BY <1>2, <2>1 DEF ListOK, UpdateCost
  <2>3. \A c \in Cell : vcost'[c] = VcostOf(demand, c)
    BY <1>2 DEF UpdateCost, StaleIsRecorded, VcostFreshAt
  <2>4. \A c \in Cell : VcostFreshAt(c)'
    BY <1>1, <2>3 DEF VcostFreshAt, VcostOf
  <2>5. \A t \in Track : PresumFreshAt(t)' <=> PresumFreshAt(t)
    BY <1>1, <2>1 DEF PresumFreshAt, PresumOf
  <2>6. StaleIsRecorded'
    BY <1>1, <2>1, <2>4, <2>5 DEF StaleIsRecorded
  <2>7. TypeOK'
    BY <1>1, <2>1, <2>2 DEF TypeOK, TodoOK, Kernels
  <2>8. FreshSoFar'
    BY <2>1, <2>4 DEF FreshSoFar
  <2> QED BY <2>2, <2>6, <2>7, <2>8
<1>3. CASE ComputePresum
  <2>1. pc = "presum" /\ pc' = "finish" /\ todo' = todo /\ todo = {}
        /\ UNCHANGED <<dirty, track_dirty, vcost>>
    BY <1>3 DEF ComputePresum, TypeOK, TodoOK
  <2>2. ListOK' /\ DOMAIN presum' = Track
    BY <1>3, <2>1 DEF ListOK, ComputePresum
  <2>3. \A t \in Track : presum'[t] = PresumOf(demand, t)
    BY <1>3 DEF ComputePresum, PresumSkips, StaleIsRecorded, PresumFreshAt
  <2>4. \A t \in Track : PresumFreshAt(t)'
    BY <1>1, <2>3 DEF PresumFreshAt, PresumOf
  <2>5. \A c \in Cell : VcostFreshAt(c)'
    BY <1>1, <2>1 DEF FreshSoFar, VcostFreshAt, VcostOf
  <2>6. StaleIsRecorded'
    BY <2>4, <2>5 DEF StaleIsRecorded
  <2>7. TypeOK'
    BY <1>1, <2>1, <2>2 DEF TypeOK, TodoOK, Kernels
  <2>8. FreshSoFar'
    BY <2>4, <2>5 DEF FreshSoFar
  <2> QED BY <2>2, <2>6, <2>7, <2>8
<1>4. CASE FinishRefresh
  <2>1. /\ pc = "finish" /\ pc' = "route" /\ todo' = batch /\ UNCHANGED <<vcost, presum>>
        /\ dirty' = [dirty EXCEPT !.cnt = 0, !.overflow = FALSE]
        /\ track_dirty' = [t \in Track |-> FALSE]
    BY <1>4 DEF FinishRefresh
  <2>2. ListOK'
    <3>1. dirty' = [cnt |-> 0, overflow |-> FALSE, cells |-> dirty.cells]
      BY <2>1 DEF ListOK
    <3>2. dirty'.cnt = 0 /\ dirty'.overflow = FALSE /\ dirty'.cells = dirty.cells
      BY <3>1
    <3> QED BY <3>1, <3>2, CostAssumption DEF ListOK
  <2>3. \A c \in Cell : VcostFreshAt(c)'
    BY <1>1, <2>1 DEF FreshSoFar, VcostFreshAt, VcostOf
  <2>4. \A t \in Track : PresumFreshAt(t)'
    BY <1>1, <2>1 DEF FreshSoFar, PresumFreshAt, PresumOf
  <2>5. StaleIsRecorded' /\ FreshSoFar'
    BY <2>3, <2>4 DEF StaleIsRecorded, FreshSoFar
  <2>6. TypeOK'
    BY <1>1, <2>1 DEF TypeOK, TodoOK, Kernels
  <2> QED BY <2>2, <2>5, <2>6
<1> QED BY <1>2, <1>3, <1>4

LEMMA TracebackKeepsInv ==
  ASSUME CostInv, (\E n \in Nets, r \in Routes : RouteNet(n, r)) \/ (\E t \in Track : ScanTrack(t))
  PROVE  CostInv'
<1> USE DEF CostInv
<1>1. UNCHANGED <<incr, demand, dirty, track_dirty, vcost, presum, batch, waiting, pc>>
      /\ todo' \subseteq todo /\ pc \in {"route", "scan"}
  BY DEF RouteNet, ScanTrack, plan
<1>2. /\ ListOK' /\ StaleIsRecorded'
      /\ \A c \in Cell : VcostFreshAt(c) => VcostFreshAt(c)'
      /\ \A t \in Track : PresumFreshAt(t) => PresumFreshAt(t)'
  BY <1>1, NothingChanges
<1>3. FreshSoFar'
  BY <1>1, <1>2 DEF FreshSoFar
<1>4. ASSUME NEW n \in Nets, NEW r \in Routes, RouteNet(n, r)
      PROVE  routes' \in [Nets -> Routes \cup {NoRoute}] /\ DOMAIN pre_demand' = Cell
             /\ pre_flag' \in [Track -> BOOLEAN]
  BY <1>4 DEF RouteNet, FlagPre, TypeOK
<1>5. ASSUME NEW t \in Track, ScanTrack(t)
      PROVE  routes' = routes /\ DOMAIN pre_demand' = Cell /\ pre_flag' = pre_flag
  <2>1. routes' = routes /\ pre_flag' = pre_flag
    BY <1>5 DEF ScanTrack
  <2>2. CASE incr.commit /\ ~ pre_flag[t]
    BY <1>5, <2>2 DEF ScanTrack, TypeOK
  <2>3. CASE ~ (incr.commit /\ ~ pre_flag[t])
    BY <1>5, <2>3 DEF ScanTrack
  <2> QED BY <2>1, <2>2, <2>3
<1>6. TypeOK'
  BY <1>1, <1>4, <1>5 DEF TypeOK, TodoOK
<1> QED BY <1>2, <1>3, <1>6

LEMMA CommitKeepsInv ==
  ASSUME CostInv, NEW t \in Track, CommitTrack(t)
  PROVE  CostInv'
<1> USE DEF CostInv
<1>1. UNCHANGED <<incr, vcost, presum, batch, waiting, pc, routes>> /\ todo' \subseteq todo
      /\ pc = "commit"
  BY DEF CommitTrack, plan
<1>2. FreshSoFar'
  BY <1>1 DEF FreshSoFar
<1>3. CASE incr.commit /\ ~ pre_flag[t]
  <2>1. UNCHANGED <<demand, pre_demand, dirty, track_dirty, pre_flag>>
    BY <1>3 DEF CommitTrack
  <2>2. ListOK' /\ StaleIsRecorded'
    BY <1>1, <2>1, NothingChanges
  <2>3. TypeOK'
    BY <1>1, <2>1 DEF TypeOK, TodoOK
  <2> QED BY <1>2, <2>2, <2>3
<1>4. CASE ~ (incr.commit /\ ~ pre_flag[t])
  <2> DEFINE used == UsedEdges(t)
             changed == {<<t, i>> : i \in used}
  <2>1. used \in SUBSET (0 .. Len1 - 1)
    BY DEF UsedEdges
  <2>2. /\ demand' = [c \in Cell |-> IF c[1] = t /\ c[2] \in used
                        THEN demand[c] + 2 * pre_demand[<<t, c[2] + 1>>] ELSE demand[c]]
        /\ dirty' = RecordCells(UsedSeq(t, used))
        /\ track_dirty' = IF used = {} THEN track_dirty ELSE FlagTrack(t)
        /\ pre_demand' = [c \in Cell |-> IF c[1] = t THEN 0 ELSE pre_demand[c]]
        /\ pre_flag' = IF incr.commit THEN [pre_flag EXCEPT ![t] = FALSE] ELSE pre_flag
    BY <1>4 DEF CommitTrack
  <2> HIDE DEF used
  <2>3. \A e \in Cell : e \notin changed => demand'[e] = demand[e]
    <3> SUFFICES ASSUME NEW e \in Cell, e \notin changed PROVE demand'[e] = demand[e]
      OBVIOUS
    <3>1. e = <<e[1], e[2]>>
      BY CellParts
    <3>2. ~ (e[1] = t /\ e[2] \in used)
      BY <3>1
    <3> QED BY <2>2, <3>2
  <2>4. \A e \in changed : e[1] = t
    OBVIOUS
  <2>5. /\ track_dirty' \in [Track -> BOOLEAN]
        /\ \A u \in Track : track_dirty[u] => track_dirty'[u]
        /\ incr.presum /\ used # {} => track_dirty'[t]
    BY <2>2 DEF FlagTrack, TypeOK
  <2>6. changed # {} => used # {}
    OBVIOUS
  <2>7. \A i \in used :
          \E k \in 1 .. Len(UsedSeq(t, used)) : UsedSeq(t, used)[k] = <<t, i>>
    BY <2>1, UsedAreListed
  <2>8. PICK S : UsedSeq(t, used) \in Seq(S)
    BY <2>1, UsedAreListed
  <2>9. /\ ListOK' /\ (dirty.overflow => dirty'.overflow)
        /\ incr.vcost /\ ~ dirty'.overflow =>
             /\ \A e \in Listed : e \in Listed'
             /\ \A k \in 1 .. Len(UsedSeq(t, used)) : UsedSeq(t, used)[k] \in Listed'
    <3>1. incr.vcost \in BOOLEAN
      BY DEF TypeOK
    <3> QED BY <1>1, <2>2, <2>8, <3>1, Recording
  <2>10. incr.vcost /\ ~ dirty'.overflow =>
           Listed \subseteq Listed' /\ changed \cap Cell \subseteq Listed'
    BY <2>7, <2>9
  <2> HIDE DEF changed
  <2>11. StaleIsRecorded'
    BY <1>1, <2>3, <2>4, <2>5, <2>6, <2>9, <2>10, RecordedIsEnough
  <2>12. DOMAIN demand' = Cell /\ DOMAIN pre_demand' = Cell /\ pre_flag' \in [Track -> BOOLEAN]
    BY <2>2 DEF TypeOK
  <2>13. TypeOK'
    BY <1>1, <2>5, <2>12 DEF TypeOK, TodoOK
  <2> QED BY <1>2, <2>9, <2>11, <2>13
<1> QED BY <1>3, <1>4

(* The refresh invariant holds in every reachable state.                      *)
LEMMA CostStep == CostInv /\ [Next]_vars => CostInv'
<1> SUFFICES ASSUME CostInv, [Next]_vars PROVE CostInv'
  OBVIOUS
<1>1. CASE StartBatch \/ StartStage2
  BY <1>1, HostKeepsInv
<1>2. CASE NextKernel
  BY <1>2, NextKernelKeepsInv
<1>3. ASSUME NEW item \in todo, pc = "ripup_wires" /\ RipupWire(item[1], item[2]) PROVE CostInv'
  BY <1>3, RipupWireKeepsInv
<1>4. ASSUME NEW item \in todo, pc \in {"ripup_vias", "vias"} /\ ViaCell(item[1], item[2])
      PROVE  CostInv'
  BY <1>4, ViaCellKeepsInv
<1>5. CASE UpdateCost \/ ComputePresum \/ FinishRefresh
  BY <1>5, RefreshKeepsInv
<1>6. CASE (\E n \in Nets, r \in Routes : RouteNet(n, r)) \/ (\E t \in Track : ScanTrack(t))
  BY <1>6, TracebackKeepsInv
<1>7. CASE \E t \in Track : CommitTrack(t)
  BY <1>7, CommitKeepsInv
<1>8. CASE UNCHANGED vars
  <2>1. UNCHANGED <<incr, demand, pre_demand, dirty, track_dirty, pre_flag, vcost, presum,
                    routes, batch, waiting, pc, todo>>
    BY <1>8 DEF vars, plan
  <2>2. /\ ListOK' /\ StaleIsRecorded'
        /\ \A c \in Cell : VcostFreshAt(c) => VcostFreshAt(c)'
        /\ \A t \in Track : PresumFreshAt(t) => PresumFreshAt(t)'
    BY <2>1, NothingChanges DEF CostInv
  <2>3. TypeOK' /\ FreshSoFar'
    BY <2>1, <2>2 DEF CostInv, TypeOK, TodoOK, FreshSoFar
  <2> QED BY <2>2, <2>3 DEF CostInv
<1> QED BY <1>1, <1>2, <1>3, <1>4, <1>5, <1>6, <1>7, <1>8 DEF Next

(* The bookkeeping of the refresh: every cell whose via cost is older than    *)
(* the demand is on the dirty list or next to a listed one, or the list has   *)
(* overflowed, or the switch is off, and every such track is flagged; the     *)
(* three kernels of a refresh then leave nothing stale until the commit.      *)
THEOREM CostInvariance == Spec => []CostInv
<1>1. Init => CostInv
  BY CostInit
<1> QED BY <1>1, CostStep, PTL DEF Spec

(* The dynamic program never reads a via cost or a prefix sum older than the  *)
(* demand, for any grid, set of routes, mix of the switches and capacity of   *)
(* the dirty list (CostsFresh).                                               *)
THEOREM DpReadsFreshCosts == Spec => []CostsFresh
<1>1. CostInv => CostsFresh
  BY DEF CostInv, FreshSoFar, CostsFresh, VcostFreshAt, PresumFreshAt
<1> QED BY <1>1, CostInvariance, PTL
-----------------------------------------------------------------------------
(* The scratch grid of the traceback.                                         *)
LEMMA EndsOfNone ==
  ASSUME NEW r, NEW c \in Cell, \A w \in r.wires : w[1] # c[1]
  PROVE  Ends(r, c) = 0
<1>1. {w \in r.wires : <<w[1], w[2]>> = c} = {} /\ {w \in r.wires : <<w[1], w[3]>> = c} = {}
  OBVIOUS
<1>2. Cardinality({}) = 0
  BY FS_EmptySet
<1> QED BY <1>1, <1>2 DEF Ends

LEMMA RouteNetKeepsScratch ==
  ASSUME TypeOK, ScratchInv, NEW n \in Nets, NEW r \in Routes, RouteNet(n, r)
  PROVE  ScratchInv'
<1>1. pc = "route" /\ pc' = "route" /\ pre_flag' = FlagPre(r)
      /\ pre_demand' = [c \in Cell |-> pre_demand[c] + Ends(r, c)]
  BY DEF RouteNet
<1>2. ASSUME NEW t \in Track, ~ pre_flag'[t] PROVE TrackIsClear(t)'
  <2>1. ~ pre_flag[t] /\ \A w \in r.wires : w[1] # t
    BY <1>1, <1>2 DEF FlagPre
  <2>2. TrackIsClear(t)
    BY <1>1, <2>1 DEF ScratchInv
  <2> SUFFICES ASSUME NEW i \in 0 .. Len1 PROVE pre_demand'[<<t, i>>] = 0
    BY DEF TrackIsClear
  <2>3. <<t, i>> \in Cell /\ <<t, i>>[1] = t
    BY CellParts
  <2>4. Ends(r, <<t, i>>) = 0
    BY <2>1, <2>3, EndsOfNone
  <2>5. pre_demand[<<t, i>>] = 0
    BY <2>2 DEF TrackIsClear
  <2> QED BY <1>1, <2>3, <2>4, <2>5
<1> QED BY <1>1, <1>2 DEF ScratchInv

LEMMA ScanKeepsScratch ==
  ASSUME ScratchInv, NEW t \in Track, ScanTrack(t)
  PROVE  ScratchInv'
<1>1. pc = "scan" /\ pc' = "scan" /\ pre_flag' = pre_flag /\ incr' = incr
  BY DEF ScanTrack, plan
<1>2. CASE incr.commit /\ ~ pre_flag[t]
  <2>1. pre_demand' = pre_demand
    BY <1>2 DEF ScanTrack
  <2> QED BY <1>1, <2>1 DEF ScratchInv, TrackIsClear
<1>3. CASE ~ incr.commit \/ pre_flag[t]
  <2>1. ASSUME NEW u \in Track, u # t, TrackIsClear(u) PROVE TrackIsClear(u)'
    <3> SUFFICES ASSUME NEW i \in 0 .. Len1 PROVE pre_demand'[<<u, i>>] = 0
      BY DEF TrackIsClear
    <3>1. <<u, i>> \in Cell /\ <<u, i>>[1] = u
      BY CellParts
    <3>2. pre_demand'[<<u, i>>] = pre_demand[<<u, i>>]
      BY <1>3, <2>1, <3>1 DEF ScanTrack
    <3> QED BY <2>1, <3>2 DEF TrackIsClear
  <2> QED BY <1>1, <1>3, <2>1 DEF ScratchInv
<1> QED BY <1>2, <1>3

LEMMA CommitKeepsScratch ==
  ASSUME TypeOK, ScratchInv, NEW t \in Track, CommitTrack(t)
  PROVE  ScratchInv'
<1>1. pc = "commit" /\ pc' = "commit" /\ incr' = incr /\ t \in todo /\ todo' = todo \ {t}
  BY DEF CommitTrack, plan
<1>2. CASE incr.commit /\ ~ pre_flag[t]
  <2>1. pre_demand' = pre_demand /\ pre_flag' = pre_flag
    BY <1>2 DEF CommitTrack
  <2>2. TrackIsClear(t)
    BY <1>1, <1>2 DEF ScratchInv
  <2> QED BY <1>1, <1>2, <2>1, <2>2 DEF ScratchInv, TrackIsClear
<1>3. CASE ~ (incr.commit /\ ~ pre_flag[t])
  <2>1. /\ pre_demand' = [c \in Cell |-> IF c[1] = t THEN 0 ELSE pre_demand[c]]
        /\ pre_flag' = IF incr.commit THEN [pre_flag EXCEPT ![t] = FALSE] ELSE pre_flag
    BY <1>3 DEF CommitTrack
  <2>2. TrackIsClear(t)' /\ \A u \in Track : TrackIsClear(u) => TrackIsClear(u)'
    BY <2>1, CellParts DEF TrackIsClear
  <2>3. /\ incr.commit => ~ pre_flag'[t]
        /\ \A u \in Track : u # t => pre_flag'[u] = pre_flag[u]
    BY <2>1 DEF TypeOK
  <2> QED BY <1>1, <2>2, <2>3 DEF ScratchInv
<1> QED BY <1>2, <1>3

LEMMA ScratchStep == CostInv /\ ScratchInv /\ [Next]_vars => ScratchInv'
<1> SUFFICES ASSUME TypeOK, ScratchInv, [Next]_vars PROVE ScratchInv'
  BY DEF CostInv
<1>1. CASE NextKernel
  <2>1. UNCHANGED <<incr, pre_demand, pre_flag>> /\ todo = {}
    BY <1>1 DEF NextKernel, plan
  <2>2. \A t \in Track : TrackIsClear(t)' <=> TrackIsClear(t)
    BY <2>1 DEF TrackIsClear
  <2>3. \/ pc = "ripup_wires" /\ pc' = "ripup_vias"
        \/ pc = "ripup_vias" /\ pc' = "update"
        \/ pc = "route" /\ pc' = "scan"
        \/ pc = "scan" /\ pc' = "commit" /\ todo' = Track
        \/ pc = "commit" /\ pc' = "vias"
        \/ pc = "vias" /\ pc' = "idle"
    BY <1>1 DEF NextKernel
  <2> QED BY <2>1, <2>2, <2>3 DEF ScratchInv
<1>2. CASE StartBatch \/ StartStage2 \/ UpdateCost \/ ComputePresum \/ FinishRefresh
  <2>1. /\ UNCHANGED <<incr, pre_demand, pre_flag>>
        /\ pc \in {"idle", "update", "presum", "finish"}
        /\ pc' \in {"idle", "update", "ripup_wires", "presum", "finish", "route"}
    BY <1>2 DEF StartBatch, StartStage2, UpdateCost, ComputePresum, FinishRefresh, plan
  <2> QED BY <2>1 DEF ScratchInv, TrackIsClear
<1>3. ASSUME NEW item \in todo, \/ pc = "ripup_wires" /\ RipupWire(item[1], item[2])
                                \/ pc \in {"ripup_vias", "vias"} /\ ViaCell(item[1], item[2])
      PROVE  ScratchInv'
  <2>1. UNCHANGED <<incr, pre_demand, pre_flag, pc>> /\ pc \in {"ripup_wires", "ripup_vias", "vias"}
    BY <1>3 DEF RipupWire, ViaCell, plan
  <2> QED BY <2>1 DEF ScratchInv, TrackIsClear
<1>4. ASSUME NEW n \in Nets, NEW r \in Routes, RouteNet(n, r) PROVE ScratchInv'
  BY <1>4, RouteNetKeepsScratch
<1>5. ASSUME NEW t \in Track, ScanTrack(t) \/ CommitTrack(t) PROVE ScratchInv'
  BY <1>5, ScanKeepsScratch, CommitKeepsScratch
<1>6. CASE UNCHANGED vars
  <2>1. UNCHANGED <<incr, pre_demand, pre_flag, pc, todo>>
    BY <1>6 DEF vars, plan
  <2> QED BY <2>1 DEF ScratchInv, TrackIsClear
<1> QED BY <1>1, <1>2, <1>3, <1>4, <1>5, <1>6 DEF Next

(* Between batches the scratch grid is all zero and no track of it is         *)
(* flagged, although commit_dirty_tracks clears flagged tracks only: no wire  *)
(* of a batch is committed a second time by a later one (the second half of   *)
(* DemandMatchesRoutes; DemandIsConserved adds the first).                    *)
THEOREM CommitClearsScratch ==
  Spec => [](pc = "idle" => /\ \A c \in Cell : pre_demand[c] = 0
                            /\ incr.commit => \A t \in Track : ~ pre_flag[t])
<1> DEFINE Clean == pc = "idle" => /\ \A c \in Cell : pre_demand[c] = 0
                                   /\ incr.commit => \A t \in Track : ~ pre_flag[t]
<1>1. ScratchInv => Clean
  <2> SUFFICES ASSUME ScratchInv, pc = "idle"
               PROVE  /\ \A c \in Cell : pre_demand[c] = 0
                      /\ incr.commit => \A t \in Track : ~ pre_flag[t]
    OBVIOUS
  <2>1. \A t \in Track : TrackIsClear(t) /\ (incr.commit => ~ pre_flag[t])
    BY DEF ScratchInv
  <2>2. ASSUME NEW c \in Cell PROVE pre_demand[c] = 0
    <3>1. c[1] \in Track /\ c[2] \in 0 .. Len1 /\ c = <<c[1], c[2]>>
      BY CellParts
    <3>2. pre_demand[<<c[1], c[2]>>] = 0
      BY <2>1, <3>1 DEF TrackIsClear
    <3> QED BY <3>1, <3>2
  <2> QED BY <2>1, <2>2
<1>2. Init => ScratchInv
  BY CostInit
<1> QED BY <1>1, <1>2, ScratchStep, CostInvariance, PTL DEF Spec
-----------------------------------------------------------------------------
(* What is on the grid, as sets of the routes' parts: f gives the nets their  *)
(* routes, a wire or a via cell is tagged with its net.                       *)
WiresIn(f, S) == UNION {{<<n, w>> : w \in f[n].wires} : n \in S}
CellsIn(f, S) == UNION {{<<n, c>> : c \in f[n].vias} : n \in S}
OwnIn(f, S)   == {x \in CellsIn(f, S) : x[2] \notin Wired(f[x[1]])}

AllRoutes == [Nets -> Routes \cup {NoRoute}]

LEMMA Named ==
  ASSUME NEW S
  PROVE  /\ Segments(S) = WiresIn(routes, S) /\ ViaCells(S) = CellsIn(routes, S)
         /\ OwnVias(S) = OwnIn(routes, S)
  BY DEF Segments, ViaCells, OwnVias, WiresIn, CellsIn, OwnIn

LEMMA TaggedIsFinite ==
  ASSUME NEW n, NEW Q, IsFiniteSet(Q)
  PROVE  /\ IsFiniteSet({<<n, w>> : w \in Q})
         /\ Cardinality({<<n, w>> : w \in Q}) = Cardinality(Q)
<1> DEFINE f == [w \in Q |-> <<n, w>>]
           T == {<<n, w>> : w \in Q}
<1>1. f \in [Q -> T]
  OBVIOUS
<1>2. \A v, w \in Q : f[v] = f[w] => v = w
  OBVIOUS
<1>3. \A x \in T : \E w \in Q : f[w] = x
  OBVIOUS
<1>4. f \in Bijection(Q, T)
  BY <1>1, <1>2, <1>3 DEF Bijection, Injection, Surjection, IsInjective
<1> QED BY <1>4, FS_Bijection DEF ExistsBijection

LEMMA UnionIsFinite ==
  ASSUME NEW S, IsFiniteSet(S), NEW f, \A n \in S : IsFiniteSet(f[n])
  PROVE  IsFiniteSet(UNION {f[n] : n \in S})
<1> DEFINE T == {f[n] : n \in S}
           g == [n \in S |-> f[n]]
<1>1. g \in Surjection(S, T)
  BY DEF Surjection
<1>2. IsFiniteSet(T)
  BY <1>1, FS_Surjection
<1> QED BY <1>2, FS_UNION

LEMMA PartsOfNets ==
  ASSUME NEW f \in AllRoutes, NEW n \in Nets
  PROVE  /\ f[n] \in Routes \/ (f[n].wires = {} /\ f[n].vias = {})
         /\ IsFiniteSet(f[n].wires) /\ IsFiniteSet(f[n].vias)
         /\ \A w \in f[n].wires : w \in AllWires
         /\ \A c \in f[n].vias : c \in Cell
<1>1. CASE f[n] \in Routes
  BY <1>1, CostAssumption DEF AllWires, Cell
<1>2. CASE f[n] = NoRoute
  <2>1. f[n].wires = {} /\ f[n].vias = {}
    BY <1>2 DEF NoRoute
  <2> QED BY <2>1, FS_EmptySet
<1> QED BY <1>1, <1>2 DEF AllRoutes

LEMMA WiresAre ==
  ASSUME NEW f \in AllRoutes, NEW S \in SUBSET Nets
  PROVE  /\ IsFiniteSet(WiresIn(f, S))
         /\ \A x \in WiresIn(f, S) : /\ x = <<x[1], x[2]>> /\ x[1] \in S
                                     /\ x[2] \in f[x[1]].wires /\ x[2] \in AllWires
         /\ \A n \in S : \A w \in f[n].wires : <<n, w>> \in WiresIn(f, S)
<1> DEFINE g == [n \in S |-> {<<n, w>> : w \in f[n].wires}]
<1>1. IsFiniteSet(S)
  BY CostAssumption, FS_Subset
<1>2. \A n \in S : IsFiniteSet(g[n])
  BY PartsOfNets, TaggedIsFinite
<1>3. WiresIn(f, S) = UNION {g[n] : n \in S}
  BY DEF WiresIn
<1>4. IsFiniteSet(WiresIn(f, S))
  <2> HIDE DEF g
  <2> QED BY <1>1, <1>2, <1>3, UnionIsFinite
<1>5. ASSUME NEW x \in WiresIn(f, S)
      PROVE  /\ x = <<x[1], x[2]>> /\ x[1] \in S
             /\ x[2] \in f[x[1]].wires /\ x[2] \in AllWires
  <2>1. PICK n \in S : x \in {<<n, w>> : w \in f[n].wires}
    BY <1>5 DEF WiresIn
  <2> QED BY <2>1, PartsOfNets
<1>6. \A n \in S : \A w \in f[n].wires : <<n, w>> \in WiresIn(f, S)
  BY DEF WiresIn
<1> QED BY <1>4, <1>5, <1>6

LEMMA CellsAre ==
  ASSUME NEW f \in AllRoutes, NEW S \in SUBSET Nets
  PROVE  /\ IsFiniteSet(CellsIn(f, S)) /\ IsFiniteSet(OwnIn(f, S))
         /\ OwnIn(f, S) \in SUBSET CellsIn(f, S)
         /\ \A x \in CellsIn(f, S) : /\ x = <<x[1], x[2]>> /\ x[1] \in S
                                     /\ x[2] \in f[x[1]].vias /\ x[2] \in Cell
         /\ \A n \in S : \A c \in f[n].vias : <<n, c>> \in CellsIn(f, S)
<1> DEFINE g == [n \in S |-> {<<n, c>> : c \in f[n].vias}]
<1>1. IsFiniteSet(S)
  BY CostAssumption, FS_Subset
<1>2. \A n \in S : IsFiniteSet(g[n])
  BY PartsOfNets, TaggedIsFinite
<1>3. CellsIn(f, S) = UNION {g[n] : n \in S}
  BY DEF CellsIn
<1>4. IsFiniteSet(CellsIn(f, S))
  <2> HIDE DEF g
  <2> QED BY <1>1, <1>2, <1>3, UnionIsFinite
<1>5. ASSUME NEW x \in CellsIn(f, S)
      PROVE  /\ x = <<x[1], x[2]>> /\ x[1] \in S
             /\ x[2] \in f[x[1]].vias /\ x[2] \in Cell
  <2>1. PICK n \in S : x \in {<<n, c>> : c \in f[n].vias}
    BY <1>5 DEF CellsIn
  <2> QED BY <2>1, PartsOfNets
<1>6. \A n \in S : \A c \in f[n].vias : <<n, c>> \in CellsIn(f, S)
  BY DEF CellsIn
<1>7. OwnIn(f, S) \in SUBSET CellsIn(f, S)
  BY DEF OwnIn
<1>8. IsFiniteSet(OwnIn(f, S))
  BY <1>4, <1>7, FS_Subset
<1> QED BY <1>4, <1>5, <1>6, <1>7, <1>8

(* A group of nets has the parts of its members.                              *)
LEMMA PartsJoin ==
  ASSUME NEW f, NEW S, NEW T, NEW U, U = S \cup T
  PROVE  /\ WiresIn(f, U) = WiresIn(f, S) \cup WiresIn(f, T)
         /\ CellsIn(f, U) = CellsIn(f, S) \cup CellsIn(f, T)
         /\ OwnIn(f, U) = OwnIn(f, S) \cup OwnIn(f, T)
<1>1. WiresIn(f, U) = WiresIn(f, S) \cup WiresIn(f, T)
  BY DEF WiresIn
<1>2. CellsIn(f, U) = CellsIn(f, S) \cup CellsIn(f, T)
  BY DEF CellsIn
<1>3. OwnIn(f, U) = OwnIn(f, S) \cup OwnIn(f, T)
  BY <1>2 DEF OwnIn
<1> QED BY <1>1, <1>2, <1>3

LEMMA PartsApart ==
  ASSUME NEW f \in AllRoutes, NEW S \in SUBSET Nets, NEW T \in SUBSET Nets, S \cap T = {}
  PROVE  /\ WiresIn(f, S) \cap WiresIn(f, T) = {}
         /\ CellsIn(f, S) \cap CellsIn(f, T) = {}
         /\ OwnIn(f, S) \cap OwnIn(f, T) = {}
<1>1. WiresIn(f, S) \cap WiresIn(f, T) = {}
  BY WiresAre
<1>2. CellsIn(f, S) \cap CellsIn(f, T) = {}
  BY CellsAre
<1>3. OwnIn(f, S) \cap OwnIn(f, T) \subseteq CellsIn(f, S) \cap CellsIn(f, T)
  BY DEF OwnIn
<1> QED BY <1>1, <1>2, <1>3

LEMMA PartsAgree ==
  ASSUME NEW f, NEW g, NEW S, \A n \in S : f[n] = g[n]
  PROVE  /\ WiresIn(f, S) = WiresIn(g, S) /\ CellsIn(f, S) = CellsIn(g, S)
         /\ OwnIn(f, S) = OwnIn(g, S)
<1>1. WiresIn(f, S) = WiresIn(g, S)
  BY DEF WiresIn
<1>2. CellsIn(f, S) = CellsIn(g, S)
  BY DEF CellsIn
<1>3. \A x \in CellsIn(f, S) : x[1] \in S
  BY DEF CellsIn
<1>4. OwnIn(f, S) = OwnIn(g, S)
  BY <1>2, <1>3 DEF OwnIn
<1> QED BY <1>1, <1>2, <1>4

LEMMA NoParts ==
  ASSUME NEW f, NEW S, \A n \in S : f[n] = NoRoute
  PROVE  WiresIn(f, S) = {} /\ CellsIn(f, S) = {} /\ OwnIn(f, S) = {}
<1>1. \A n \in S : f[n].wires = {} /\ f[n].vias = {}
  BY DEF NoRoute
<1>2. WiresIn(f, S) = {}
  BY <1>1 DEF WiresIn
<1>3. CellsIn(f, S) = {}
  BY <1>1 DEF CellsIn
<1> QED BY <1>2, <1>3 DEF OwnIn

-----------------------------------------------------------------------------
(* How much that puts on an edge.                                             *)
LEMMA DisjointUnion ==
  ASSUME NEW S, IsFiniteSet(S), NEW T, IsFiniteSet(T), S \cap T = {}
  PROVE  /\ IsFiniteSet(S \cup T) /\ Cardinality(S \cup T) = Cardinality(S) + Cardinality(T)
         /\ Cardinality(S) \in Nat /\ Cardinality(T) \in Nat
<1>1. Cardinality(S) \in Nat /\ Cardinality(T) \in Nat
  BY FS_CardinalityType
<1>2. Cardinality(S \cap T) = 0
  BY FS_EmptySet
<1>3. IsFiniteSet(S \cup T)
      /\ Cardinality(S \cup T) = Cardinality(S) + Cardinality(T) - Cardinality(S \cap T)
  BY FS_Union
<1> QED BY <1>1, <1>2, <1>3

Over(W, e)  == {x \in W : e \in SegmentCells(x[2])}
Split(V, e) == {x \in V : e \in SplitCells(x[2])}
Whole(V, e) == {x \in V : SplitCells(x[2]) = {e}}

LEMMA DemandOfIs ==
  ASSUME NEW W, NEW V, NEW e, IsFiniteSet(W), IsFiniteSet(V)
  PROVE  /\ DemandOf(W, V, e) = 2 * Cardinality(Over(W, e)) + Cardinality(Split(V, e))
                                + Cardinality(Whole(V, e))
         /\ Cardinality(Over(W, e)) \in Nat /\ IsFiniteSet(Over(W, e))
         /\ Cardinality(Split(V, e)) \in Nat /\ IsFiniteSet(Split(V, e))
         /\ Cardinality(Whole(V, e)) \in Nat /\ IsFiniteSet(Whole(V, e))
         /\ DemandOf(W, V, e) \in Nat
<1>1. Over(W, e) \in SUBSET W /\ Split(V, e) \in SUBSET V /\ Whole(V, e) \in SUBSET V
  BY DEF Over, Split, Whole
<1>2. IsFiniteSet(Over(W, e)) /\ IsFiniteSet(Split(V, e)) /\ IsFiniteSet(Whole(V, e))
  BY <1>1, FS_Subset
<1>3. /\ Cardinality(Over(W, e)) \in Nat /\ Cardinality(Split(V, e)) \in Nat
      /\ Cardinality(Whole(V, e)) \in Nat
  BY <1>2, FS_CardinalityType
<1>4. DemandOf(W, V, e) = 2 * Cardinality(Over(W, e)) + Cardinality(Split(V, e))
                          + Cardinality(Whole(V, e))
  BY DEF DemandOf, Over, Split, Whole
<1> QED BY <1>2, <1>3, <1>4

LEMMA MoreWires ==
  ASSUME NEW W, NEW V, NEW T, NEW e, IsFiniteSet(W), IsFiniteSet(V), IsFiniteSet(T), W \cap T = {}
  PROVE  /\ DemandOf(W \cup T, V, e) = DemandOf(W, V, e) + 2 * Cardinality(Over(T, e))
         /\ DemandOf(W, V, e) \in Nat /\ Cardinality(Over(T, e)) \in Nat
<1>1. Over(W \cup T, e) = Over(W, e) \cup Over(T, e) /\ Over(W, e) \cap Over(T, e) = {}
  BY DEF Over
<1>2. IsFiniteSet(W \cup T)
  BY FS_Union
<1>3. /\ Cardinality(Over(T, e)) \in Nat /\ IsFiniteSet(Over(T, e))
      /\ Cardinality(Over(W, e)) \in Nat /\ IsFiniteSet(Over(W, e))
  BY DemandOfIs
<1>4. Cardinality(Over(W \cup T, e)) = Cardinality(Over(W, e)) + Cardinality(Over(T, e))
  BY <1>1, <1>3, DisjointUnion
<1>5. /\ DemandOf(W \cup T, V, e) = 2 * Cardinality(Over(W \cup T, e)) + Cardinality(Split(V, e))
                                + Cardinality(Whole(V, e))
      /\ DemandOf(W, V, e) = 2 * Cardinality(Over(W, e)) + Cardinality(Split(V, e))
                                + Cardinality(Whole(V, e))
      /\ Cardinality(Split(V, e)) \in Nat /\ Cardinality(Whole(V, e)) \in Nat
      /\ DemandOf(W, V, e) \in Nat
  BY <1>2, DemandOfIs
<1> QED BY <1>3, <1>4, <1>5

LEMMA OneMoreWire ==
  ASSUME NEW W, NEW V, NEW x, NEW e, IsFiniteSet(W), IsFiniteSet(V), x \notin W
  PROVE  /\ DemandOf(W \cup {x}, V, e) =
              DemandOf(W, V, e) + (IF e \in SegmentCells(x[2]) THEN 2 ELSE 0)
         /\ DemandOf(W, V, e) \in Nat
<1>1. IsFiniteSet({x}) /\ Cardinality({x}) = 1 /\ W \cap {x} = {}
  BY FS_Singleton
<1>2. Cardinality(Over({x}, e)) = IF e \in SegmentCells(x[2]) THEN 1 ELSE 0
  <2>1. Over({x}, e) = IF e \in SegmentCells(x[2]) THEN {x} ELSE {}
    BY DEF Over
  <2> QED BY <1>1, <2>1, FS_EmptySet
<1>3. /\ DemandOf(W \cup {x}, V, e) = DemandOf(W, V, e) + 2 * Cardinality(Over({x}, e))
      /\ DemandOf(W, V, e) \in Nat
  BY <1>1, MoreWires
<1> QED BY <1>2, <1>3

(* The half units of a via are its edges and the one it does not share.       *)
LEMMA HalvesAre ==
  ASSUME NEW c \in Cell, NEW e
  PROVE  ViaHalves(c, e) = (IF e \in SplitCells(c) THEN 1 ELSE 0)
                           + (IF SplitCells(c) = {e} THEN 1 ELSE 0)
<1>1. c[1] \in Track /\ c[2] \in 0 .. Len1 /\ Len1 \in Nat /\ c = <<c[1], c[2]>>
  BY CellParts
<1>2. ASSUME NEW d, ViaSeq(c) = <<d>>
      PROVE  ViaHalves(c, e) = (IF e \in SplitCells(c) THEN 1 ELSE 0)
                               + (IF SplitCells(c) = {e} THEN 1 ELSE 0)
  <2>1. SplitCells(c) = {d} /\ Len(ViaSeq(c)) = 1
    BY <1>2 DEF SplitCells
  <2>2. 2 \div 1 = 2
    OBVIOUS
  <2> QED BY <2>1, <2>2 DEF ViaHalves
<1>3. CASE c[2] = 0 \/ c[2] = Len1
  BY <1>2, <1>3 DEF ViaSeq
<1>4. CASE c[2] # 0 /\ c[2] # Len1
  <2> DEFINE d == <<c[1], c[2] - 1>>
  <2>1. ViaSeq(c) = <<d, c>> /\ d # c
    BY <1>1, <1>4 DEF ViaSeq
  <2> HIDE DEF d
  <2>2. SplitCells(c) = {d, c} /\ Len(ViaSeq(c)) = 2
    BY <2>1 DEF SplitCells
  <2>3. 2 \div 2 = 1
    OBVIOUS
  <2>4. SplitCells(c) # {e}
    BY <2>1, <2>2
  <2> QED BY <2>2, <2>3, <2>4 DEF ViaHalves
<1> QED BY <1>3, <1>4

LEMMA OneMoreVia ==
  ASSUME NEW W, NEW V, NEW x, NEW e, IsFiniteSet(W), IsFiniteSet(V), x \notin V, x[2] \in Cell
  PROVE  /\ DemandOf(W, V \cup {x}, e) = DemandOf(W, V, e) + ViaHalves(x[2], e)
         /\ DemandOf(W, V, e) \in Nat /\ ViaHalves(x[2], e) \in Nat
<1> DEFINE s == IF e \in SplitCells(x[2]) THEN 1 ELSE 0
           h == IF SplitCells(x[2]) = {e} THEN 1 ELSE 0
<1>1. Split(V \cup {x}, e) = IF e \in SplitCells(x[2]) THEN Split(V, e) \cup {x} ELSE Split(V, e)
  BY DEF Split
<1>2. Whole(V \cup {x}, e) = IF SplitCells(x[2]) = {e} THEN Whole(V, e) \cup {x} ELSE Whole(V, e)
  BY DEF Whole
<1>3. x \notin Split(V, e) /\ x \notin Whole(V, e)
  BY DEF Split, Whole
<1>4. /\ DemandOf(W, V, e) = 2 * Cardinality(Over(W, e)) + Cardinality(Split(V, e))
                                + Cardinality(Whole(V, e))
      /\ Cardinality(Over(W, e)) \in Nat
      /\ Cardinality(Split(V, e)) \in Nat /\ IsFiniteSet(Split(V, e))
      /\ Cardinality(Whole(V, e)) \in Nat /\ IsFiniteSet(Whole(V, e))
      /\ DemandOf(W, V, e) \in Nat
  BY DemandOfIs
<1>5. IsFiniteSet(V \cup {x})
  BY FS_AddElement
<1>6. DemandOf(W, V \cup {x}, e) = 2 * Cardinality(Over(W, e)) + Cardinality(Split(V \cup {x}, e))
                                   + Cardinality(Whole(V \cup {x}, e))
  BY <1>5, DemandOfIs
<1>7. Cardinality(Split(V \cup {x}, e)) = Cardinality(Split(V, e)) + s
  <2>1. Cardinality(Split(V, e) \cup {x}) = Cardinality(Split(V, e)) + 1
    BY <1>3, <1>4, FS_AddElement
  <2>2. CASE e \in SplitCells(x[2])
    BY <1>1, <2>1, <2>2
  <2>3. CASE ~ (e \in SplitCells(x[2]))
    BY <1>1, <1>4, <2>3
  <2> QED BY <2>2, <2>3
<1>8. Cardinality(Whole(V \cup {x}, e)) = Cardinality(Whole(V, e)) + h
  <2>1. Cardinality(Whole(V, e) \cup {x}) = Cardinality(Whole(V, e)) + 1
    BY <1>3, <1>4, FS_AddElement
  <2>2. CASE SplitCells(x[2]) = {e}
    BY <1>2, <2>1, <2>2
  <2>3. CASE ~ (SplitCells(x[2]) = {e})
    BY <1>2, <1>4, <2>3
  <2> QED BY <2>2, <2>3
<1>9. ViaHalves(x[2], e) = s + h
  BY HalvesAre
<1>10. s \in Nat /\ h \in Nat
  OBVIOUS
<1> HIDE DEF s, h
<1> QED BY <1>4, <1>6, <1>7, <1>8, <1>9, <1>10

-----------------------------------------------------------------------------
(* The scratch grid: the ends of the wires, and the wires they add up to.     *)
StartsAt(W, c) == {x \in W : <<x[2][1], x[2][2]>> = c}
EndsAt(W, c)   == {x \in W : <<x[2][1], x[2][3]>> = c}
Delta(W, c)    == Cardinality(StartsAt(W, c)) - Cardinality(EndsAt(W, c))
Passing(W, c)  == Cardinality(Over(W, <<c[1], c[2] - 1>>))

LEMMA InSegment ==
  ASSUME NEW w \in AllWires, NEW t, NEW i \in Int
  PROVE  <<t, i>> \in SegmentCells(w) <=> w[1] = t /\ w[2] <= i /\ i < w[3]
<1>1. w[2] \in Nat /\ w[3] \in Nat
  BY WireParts, CellParts
<1>2. i \in w[2] .. w[3] - 1 <=> w[2] <= i /\ i < w[3]
  BY <1>1
<1>3. <<t, i>> \in SegmentCells(w) <=> w[1] = t /\ i \in w[2] .. w[3] - 1
  BY DEF SegmentCells
<1> QED BY <1>2, <1>3

(* One cell further: the wires that start there come in, those that end       *)
(* there go.                                                                  *)
LEMMA OneCellOn ==
  ASSUME NEW W, IsFiniteSet(W), \A x \in W : x[2] \in AllWires, NEW t, NEW i \in Int
  PROVE  /\ Cardinality(Over(W, <<t, i>>)) =
              Cardinality(Over(W, <<t, i - 1>>)) + Delta(W, <<t, i>>)
         /\ Cardinality(Over(W, <<t, i - 1>>)) \in Nat /\ Delta(W, <<t, i>>) \in Int
<1> DEFINE A == Over(W, <<t, i - 1>>)
           B == Over(W, <<t, i>>)
           S == StartsAt(W, <<t, i>>)
           E == EndsAt(W, <<t, i>>)
<1>1. ASSUME NEW x \in W
      PROVE  /\ x \in A <=> x[2][1] = t /\ x[2][2] <= i - 1 /\ i - 1 < x[2][3]
             /\ x \in B <=> x[2][1] = t /\ x[2][2] <= i /\ i < x[2][3]
             /\ x \in S <=> x[2][1] = t /\ x[2][2] = i
             /\ x \in E <=> x[2][1] = t /\ x[2][3] = i
             /\ x[2][2] \in Nat /\ x[2][3] \in Nat /\ x[2][2] < x[2][3]
  <2>1. x[2] \in AllWires /\ i - 1 \in Int
    OBVIOUS
  <2>2. /\ x \in A <=> x[2][1] = t /\ x[2][2] <= i - 1 /\ i - 1 < x[2][3]
        /\ x \in B <=> x[2][1] = t /\ x[2][2] <= i /\ i < x[2][3]
    BY <2>1, InSegment DEF Over
  <2>3. /\ x \in S <=> x[2][1] = t /\ x[2][2] = i
        /\ x \in E <=> x[2][1] = t /\ x[2][3] = i
    BY DEF StartsAt, EndsAt
  <2>4. x[2][2] \in Nat /\ x[2][3] \in Nat /\ x[2][2] < x[2][3]
    BY <2>1, WireParts, CellParts
  <2> QED BY <2>2, <2>3, <2>4
<1>2. A \in SUBSET W /\ B \in SUBSET W /\ S \in SUBSET W /\ E \in SUBSET W
  BY DEF Over, StartsAt, EndsAt
<1>3. IsFiniteSet(A) /\ IsFiniteSet(B) /\ IsFiniteSet(S) /\ IsFiniteSet(E)
  BY <1>2, FS_Subset
<1>4. Delta(W, <<t, i>>) = Cardinality(S) - Cardinality(E)
  BY DEF Delta
<1> HIDE DEF A, B, S, E
<1>5. A \cap S = {} /\ B \cap E = {}
  <2>1. \A x \in W : ~ (x \in A /\ x \in S) /\ ~ (x \in B /\ x \in E)
    <3> SUFFICES ASSUME NEW x \in W PROVE ~ (x \in A /\ x \in S) /\ ~ (x \in B /\ x \in E)
      OBVIOUS
    <3> QED BY <1>1
  <2> QED BY <1>2, <2>1
<1>6. A \cup S = B \cup E
  <2>1. \A x \in W : x \in A \/ x \in S <=> x \in B \/ x \in E
    <3> SUFFICES ASSUME NEW x \in W PROVE x \in A \/ x \in S <=> x \in B \/ x \in E
      OBVIOUS
    <3> QED BY <1>1
  <2> QED BY <1>2, <2>1
<1>7. /\ Cardinality(A \cup S) = Cardinality(A) + Cardinality(S)
      /\ Cardinality(B \cup E) = Cardinality(B) + Cardinality(E)
      /\ Cardinality(A) \in Nat /\ Cardinality(S) \in Nat
      /\ Cardinality(B) \in Nat /\ Cardinality(E) \in Nat
  BY <1>3, <1>5, DisjointUnion
<1>8. Cardinality(B) = Cardinality(A) + (Cardinality(S) - Cardinality(E))
  <2> DEFINE a == Cardinality(A)
             b == Cardinality(B)
             p == Cardinality(S)
             q == Cardinality(E)
  <2>1. a + p = b + q
    BY <1>6, <1>7
  <2>2. a \in Nat /\ b \in Nat /\ p \in Nat /\ q \in Nat
    BY <1>7
  <2> HIDE DEF a, b, p, q
  <2>3. b = a + (p - q)
    BY <2>1, <2>2
  <2> QED BY <2>3 DEF a, b, p, q
<1> QED BY <1>4, <1>7, <1>8 DEF A, B, S, E

LEMMA NothingBefore ==
  ASSUME NEW W, \A x \in W : x[2] \in AllWires, NEW t
  PROVE  Cardinality(Over(W, <<t, 0 - 1>>)) = 0
<1>1. ASSUME NEW x \in W PROVE <<t, 0 - 1>> \notin SegmentCells(x[2])
  <2>1. x[2] \in AllWires /\ 0 - 1 \in Int /\ x[2][2] \in Nat
    BY WireParts, CellParts
  <2> QED BY <2>1, InSegment
<1>2. Over(W, <<t, 0 - 1>>) = {}
  BY <1>1 DEF Over
<1> QED BY <1>2, FS_EmptySet

(* compute_presum_general turns the ends of the wires into the wires that     *)
(* pass, for every length of the track.                                       *)
LEMMA SumsAre ==
  ASSUME NEW W, IsFiniteSet(W), \A x \in W : x[2] \in AllWires, NEW t \in Track,
         \A i \in 0 .. Len1 : pre_demand[<<t, i>>] = Delta(W, <<t, i>>)
  PROVE  \A i \in 0 .. Len1 : Sums(t)[i] = Cardinality(Over(W, <<t, i - 1>>))
<1> DEFINE Before(i) == Cardinality(Over(W, <<t, i - 1>>))
           Rule(g) == g = [i \in 0 .. Len1 |->
                             IF i = 0 THEN 0 ELSE g[i - 1] + pre_demand[<<t, i - 1>>]]
           f == [i \in 0 .. Len1 |-> Before(i)]
<1>1. Len1 \in Nat
  BY CellParts
<1>2. Before(0) = 0
  BY NothingBefore
<1>3. \A i \in 0 .. Len1 : i # 0 =>
         /\ Before(i) = Before(i - 1) + pre_demand[<<t, i - 1>>]
         /\ i - 1 \in 0 .. Len1 /\ Before(i - 1) \in Int
  <2> SUFFICES ASSUME NEW i \in 0 .. Len1, i # 0
               PROVE  /\ Before(i) = Before(i - 1) + pre_demand[<<t, i - 1>>]
                      /\ i - 1 \in 0 .. Len1 /\ Before(i - 1) \in Int
    OBVIOUS
  <2>1. i - 1 \in 0 .. Len1 /\ i - 1 \in Int
    BY <1>1
  <2> DEFINE j == i - 1
  <2> HIDE DEF Before
  <2>2. j \in 0 .. Len1 /\ j \in Int
    BY <2>1
  <2>3. /\ Cardinality(Over(W, <<t, j>>)) = Cardinality(Over(W, <<t, j - 1>>)) + Delta(W, <<t, j>>)
        /\ Cardinality(Over(W, <<t, j - 1>>)) \in Nat
    BY <2>2, OneCellOn
  <2>4. pre_demand[<<t, j>>] = Delta(W, <<t, j>>)
    BY <2>2
  <2>5. Before(i) = Cardinality(Over(W, <<t, j>>)) /\ Before(j) = Cardinality(Over(W, <<t, j - 1>>))
    BY DEF Before
  <2> QED BY <2>1, <2>3, <2>4, <2>5
<1> HIDE DEF Before
<1>4. Rule(f)
  BY <1>2, <1>3
<1>5. Sums(t) = CHOOSE g : Rule(g)
  BY DEF Sums
<1>6. Rule(Sums(t))
  BY <1>4, <1>5
<1> DEFINE g == Sums(t)
           Bad == {i \in 0 .. Len1 : g[i] # Before(i)}
<1>7. \A i \in 0 .. Len1 : g[i] = IF i = 0 THEN 0 ELSE g[i - 1] + pre_demand[<<t, i - 1>>]
  BY <1>6
<1> HIDE DEF g
<1>8. Bad = {}
  <2> SUFFICES ASSUME Bad # {} PROVE FALSE
    OBVIOUS
  <2>1. Bad \in SUBSET Nat
    BY <1>1
  <2>2. IsWellFoundedOn(OpToRel(<, Nat), Nat)
    BY NatLessThanWellFounded
  <2>3. PICK m \in Bad : \A k \in Bad : ~ (<<k, m>> \in OpToRel(<, Nat))
    BY <2>1, <2>2, WFMin
  <2>4. \A k \in Bad : ~ (k < m)
    BY <2>1, <2>3 DEF OpToRel
  <2>5. m \in 0 .. Len1 /\ g[m] # Before(m) /\ m \in Nat
    BY <2>1
  <2>6. m # 0
    BY <1>2, <1>7, <2>5
  <2>7. m - 1 \in 0 .. Len1 /\ m - 1 < m
    BY <1>1, <2>5, <2>6
  <2>8. g[m - 1] = Before(m - 1)
    BY <2>4, <2>7
  <2>9. g[m] = g[m - 1] + pre_demand[<<t, m - 1>>]
    BY <1>7, <2>5, <2>6
  <2>10. Before(m) = Before(m - 1) + pre_demand[<<t, m - 1>>]
    BY <1>3, <2>5, <2>6
  <2> QED BY <2>5, <2>8, <2>9, <2>10
<1>9. \A i \in 0 .. Len1 : g[i] = Before(i)
  BY <1>8
<1> QED BY <1>9 DEF g, Before

-----------------------------------------------------------------------------
(* The invariant: which wires and via cells the demand counts in each kernel  *)
(* (those of Rest always; those of the batch as far as they are not yet       *)
(* ripped up or already committed), what the scratch grid holds, and which    *)
(* cells carry the stamp.                                                     *)
Rest == Nets \ batch

Counts(d, W, V) == \A e \in Cell : Uncrossed(e) => d[e] = DemandOf(W, V, e)

DemandInv ==
  /\ pc = "idle" => Counts(demand, Segments(Nets), OwnVias(Nets))
  /\ pc = "ripup_wires" => Counts(demand, Segments(Rest) \cup todo, OwnVias(Nets))
  /\ pc = "ripup_vias" =>
       Counts(demand, Segments(Rest), OwnVias(Rest) \cup (OwnVias(batch) \cap todo))
  /\ pc \in {"update", "presum", "finish", "route", "scan"} =>
       Counts(demand, Segments(Rest), OwnVias(Rest))
  /\ pc = "commit" =>
       Counts(demand, Segments(Rest) \cup {x \in Segments(batch) : x[2][1] \notin todo},
              OwnVias(Rest))
  /\ pc = "vias" => Counts(demand, Segments(Nets), OwnVias(Nets) \ todo)

(* A net has no route before stage 1 gives it one.                            *)
PlanInv ==
  /\ stage = 1 => \A n \in waiting : routes[n] = NoRoute /\ n \notin batch
  /\ pc = "ripup_wires" => todo \subseteq Segments(batch)
  /\ pc \in {"ripup_vias", "vias"} => todo \subseteq ViaCells(batch)
  /\ pc = "route" => todo \subseteq batch

FlagOK(t, W) == pre_flag[t] \/ ~ incr.commit \/ \A x \in W : x[2][1] # t

PreInv ==
  /\ pc = "route" =>
       /\ \A c \in Cell : pre_demand[c] = Delta(Segments(batch \ todo), c)
       /\ \A t \in Track : FlagOK(t, Segments(batch \ todo))
  /\ pc = "scan" =>
       /\ \A c \in Cell : pre_demand[c] = IF c[1] \in todo THEN Delta(Segments(batch), c)
                                          ELSE Passing(Segments(batch), c)
       /\ \A t \in Track : FlagOK(t, Segments(batch))
  /\ pc = "commit" =>
       /\ \A c \in Cell : c[1] \in todo => pre_demand[c] = Passing(Segments(batch), c)
       /\ \A t \in todo : FlagOK(t, Segments(batch))

Passed(W) == UNION {Stamps(x[2]) : x \in W}
Inner(W)  == UNION {SegmentCells(x[2]) : x \in W}
Tails(W)  == {<<x[2][1], x[2][3]>> : x \in W}

StampInv ==
  /\ pc = "ripup_wires" => stamped = Passed(Segments(batch) \ todo)
  /\ pc \in {"ripup_vias", "vias"} => stamped = Passed(Segments(batch))
  /\ pc \in {"update", "presum", "finish"} => stamped = {}
  /\ pc = "route" => stamped = Tails(Segments(batch \ todo))
  /\ pc = "scan" => stamped = Tails(Segments(batch))
  /\ pc = "commit" => stamped = Tails(Segments(batch))
                        \cup Inner({x \in Segments(batch) : x[2][1] \notin todo})

BatchInv == PlanInv /\ PreInv /\ StampInv /\ DemandInv
-----------------------------------------------------------------------------
LEMMA NamedNext ==
  ASSUME NEW S
  PROVE  /\ Segments(S)' = WiresIn(routes', S) /\ ViaCells(S)' = CellsIn(routes', S)
         /\ OwnVias(S)' = OwnIn(routes', S)
  BY DEF Segments, ViaCells, OwnVias, WiresIn, CellsIn, OwnIn

LEMMA SameRoutes ==
  ASSUME UNCHANGED <<routes, batch>>
  PROVE  /\ Segments(Nets)' = Segments(Nets) /\ OwnVias(Nets)' = OwnVias(Nets)
         /\ Segments(Rest)' = Segments(Rest) /\ OwnVias(Rest)' = OwnVias(Rest)
         /\ Segments(batch)' = Segments(batch) /\ OwnVias(batch)' = OwnVias(batch)
         /\ ViaCells(batch)' = ViaCells(batch)
<1>1. /\ Segments(Nets)' = Segments(Nets) /\ Segments(Rest)' = Segments(Rest)
      /\ Segments(batch)' = Segments(batch)
  BY DEF Segments, Rest
<1>2. ViaCells(batch)' = ViaCells(batch)
  BY DEF ViaCells
<1>3. /\ OwnVias(Nets)' = OwnVias(Nets) /\ OwnVias(Rest)' = OwnVias(Rest)
      /\ OwnVias(batch)' = OwnVias(batch)
  BY DEF OwnVias, ViaCells, Rest
<1> QED BY <1>1, <1>2, <1>3

(* All nets are the batch and the rest.                                       *)
LEMMA NetsSplit ==
  ASSUME TypeOK
  PROVE  /\ Segments(Nets) = Segments(Rest) \cup Segments(batch)
         /\ Segments(Rest) \cap Segments(batch) = {}
         /\ OwnVias(Nets) = OwnVias(Rest) \cup OwnVias(batch)
         /\ OwnVias(Rest) \cap ViaCells(batch) = {} /\ OwnVias(batch) \in SUBSET ViaCells(batch)
         /\ IsFiniteSet(Segments(Nets)) /\ IsFiniteSet(Segments(Rest))
         /\ IsFiniteSet(Segments(batch)) /\ IsFiniteSet(OwnVias(Nets))
         /\ IsFiniteSet(OwnVias(Rest)) /\ IsFiniteSet(OwnVias(batch))
<1>1. /\ routes \in AllRoutes /\ batch \in SUBSET Nets /\ Rest \in SUBSET Nets
      /\ Rest \cup batch = Nets /\ Rest \cap batch = {} /\ Nets \in SUBSET Nets
  BY DEF TypeOK, AllRoutes, Rest
<1>2. \A S : /\ Segments(S) = WiresIn(routes, S) /\ ViaCells(S) = CellsIn(routes, S)
             /\ OwnVias(S) = OwnIn(routes, S)
  BY Named
<1>3. /\ WiresIn(routes, Nets) = WiresIn(routes, Rest) \cup WiresIn(routes, batch)
      /\ OwnIn(routes, Nets) = OwnIn(routes, Rest) \cup OwnIn(routes, batch)
      /\ WiresIn(routes, Rest) \cap WiresIn(routes, batch) = {}
      /\ CellsIn(routes, Rest) \cap CellsIn(routes, batch) = {}
  <2>1. Nets = Rest \cup batch
    BY <1>1
  <2>2. /\ WiresIn(routes, Nets) = WiresIn(routes, Rest) \cup WiresIn(routes, batch)
        /\ OwnIn(routes, Nets) = OwnIn(routes, Rest) \cup OwnIn(routes, batch)
    BY <2>1, PartsJoin
  <2>3. /\ WiresIn(routes, Rest) \cap WiresIn(routes, batch) = {}
        /\ CellsIn(routes, Rest) \cap CellsIn(routes, batch) = {}
    BY <1>1, PartsApart
  <2> QED BY <2>2, <2>3
<1>4. OwnIn(routes, Rest) \in SUBSET CellsIn(routes, Rest)
      /\ OwnIn(routes, batch) \in SUBSET CellsIn(routes, batch)
  BY <1>1, CellsAre
<1>5. /\ IsFiniteSet(WiresIn(routes, Nets)) /\ IsFiniteSet(WiresIn(routes, Rest))
      /\ IsFiniteSet(WiresIn(routes, batch))
  BY <1>1, WiresAre
<1>6. /\ IsFiniteSet(OwnIn(routes, Nets)) /\ IsFiniteSet(OwnIn(routes, Rest))
      /\ IsFiniteSet(OwnIn(routes, batch))
  BY <1>1, CellsAre
<1> QED BY <1>1, <1>2, <1>3, <1>4, <1>5, <1>6

LEMMA SegmentParts ==
  ASSUME TypeOK, NEW S \in SUBSET Nets
  PROVE  /\ IsFiniteSet(Segments(S))
         /\ \A x \in Segments(S) : /\ x = <<x[1], x[2]>> /\ x[1] \in S
                                   /\ x[2] \in routes[x[1]].wires /\ x[2] \in AllWires
         /\ \A n \in S : \A w \in routes[n].wires : <<n, w>> \in Segments(S)
<1>1. routes \in AllRoutes
  BY DEF TypeOK, AllRoutes
<1> QED BY <1>1, WiresAre, Named

LEMMA ViaParts ==
  ASSUME TypeOK, NEW S \in SUBSET Nets
  PROVE  \A x \in ViaCells(S) : /\ x = <<x[1], x[2]>> /\ x[1] \in S
                                /\ x[2] \in routes[x[1]].vias /\ x[2] \in Cell
<1>1. routes \in AllRoutes
  BY DEF TypeOK, AllRoutes
<1> QED BY <1>1, CellsAre, Named
-----------------------------------------------------------------------------
(* Who has a route, and whose items a kernel handles.                         *)
LEMMA PlanStep == TypeOK /\ PlanInv /\ [Next]_vars => PlanInv'
<1> SUFFICES ASSUME TypeOK, PlanInv, [Next]_vars PROVE PlanInv'
  OBVIOUS
<1>1. CASE StartBatch
  <2>1. PICK m \in SUBSET waiting : batch' = m /\ waiting' = waiting \ m
    BY <1>1 DEF StartBatch
  <2>2. stage' = stage /\ routes' = routes /\ pc = "idle"
        /\ \/ pc' = "update"
           \/ pc' = "ripup_wires" /\ todo' = Segments(batch')
    BY <1>1 DEF StartBatch
  <2>3. Segments(batch)' = Segments(batch')
    BY <2>2 DEF Segments
  <2> QED BY <2>1, <2>2, <2>3 DEF PlanInv
<1>2. CASE StartStage2
  BY <1>2 DEF StartStage2, PlanInv
<1>3. CASE NextKernel
  <2>1. UNCHANGED <<stage, waiting, routes, batch>>
    BY <1>3 DEF NextKernel, plan
  <2>2. \/ pc' \in {"ripup_vias", "vias"} /\ todo' = ViaCells(batch)
        \/ pc' \in {"update", "scan", "commit", "idle"}
    BY <1>3 DEF NextKernel
  <2> QED BY <2>1, <2>2, SameRoutes DEF PlanInv
<1>4. ASSUME NEW item \in todo, \/ pc = "ripup_wires" /\ RipupWire(item[1], item[2])
                                \/ pc \in {"ripup_vias", "vias"} /\ ViaCell(item[1], item[2])
      PROVE  PlanInv'
  <2>1. UNCHANGED <<stage, waiting, routes, batch, pc>> /\ todo' \subseteq todo
        /\ pc \in {"ripup_wires", "ripup_vias", "vias"}
    BY <1>4 DEF RipupWire, ViaCell, plan
  <2> QED BY <2>1, SameRoutes DEF PlanInv
<1>5. CASE UpdateCost \/ ComputePresum \/ FinishRefresh
  <2>1. UNCHANGED <<stage, waiting, routes, batch>>
        /\ pc' \in {"presum", "finish", "route"} /\ (pc' = "route" => todo' = batch)
    BY <1>5 DEF UpdateCost, ComputePresum, FinishRefresh, plan
  <2> QED BY <2>1 DEF PlanInv
<1>6. ASSUME NEW n \in Nets, NEW r \in Routes, RouteNet(n, r)
      PROVE  PlanInv'
  <2>1. UNCHANGED <<stage, waiting, batch, pc>> /\ pc = "route" /\ n \in todo
        /\ todo' = todo \ {n} /\ routes' = [routes EXCEPT ![n] = r]
    BY <1>6 DEF RouteNet, plan
  <2>2. n \in batch
    BY <2>1 DEF PlanInv
  <2>3. \A m \in Nets : m # n => routes'[m] = routes[m]
    BY <2>1 DEF TypeOK
  <2>4. waiting \subseteq Nets
    BY DEF TypeOK
  <2> QED BY <2>1, <2>2, <2>3, <2>4 DEF PlanInv
<1>7. ASSUME NEW t \in Track, ScanTrack(t) \/ CommitTrack(t)
      PROVE  PlanInv'
  <2>1. UNCHANGED <<stage, waiting, batch, pc, routes>> /\ pc \in {"scan", "commit"}
    BY <1>7 DEF ScanTrack, CommitTrack, plan
  <2> QED BY <2>1 DEF PlanInv
<1>8. CASE UNCHANGED vars
  <2>1. UNCHANGED <<stage, waiting, batch, pc, routes, todo>>
    BY <1>8 DEF vars, plan
  <2> QED BY <2>1, SameRoutes DEF PlanInv
<1> QED BY <1>1, <1>2, <1>3, <1>4, <1>5, <1>6, <1>7, <1>8 DEF Next

-----------------------------------------------------------------------------
(* The traceback of one net adds its wires to those of the nets before it.    *)
LEMMA RoutedNext ==
  ASSUME TypeOK, PlanInv, NEW n \in Nets, NEW r \in Routes, RouteNet(n, r)
  PROVE  /\ Segments(batch \ todo)' =
              Segments(batch \ todo) \cup {<<n, w>> : w \in r.wires}
         /\ Segments(batch \ todo) \cap {<<n, w>> : w \in r.wires} = {}
         /\ Segments(Rest)' = Segments(Rest) /\ OwnVias(Rest)' = OwnVias(Rest)
         /\ routes' \in AllRoutes
<1>1. /\ pc = "route" /\ n \in todo /\ todo' = todo \ {n} /\ batch' = batch
      /\ routes' = [routes EXCEPT ![n] = r]
  BY DEF RouteNet, plan
<1>2. routes \in AllRoutes /\ batch \subseteq Nets /\ todo \subseteq batch
  BY <1>1 DEF TypeOK, AllRoutes, PlanInv
<1>3. routes' \in AllRoutes /\ routes'[n] = r /\ \A m \in Nets : m # n => routes'[m] = routes[m]
  BY <1>1, <1>2 DEF AllRoutes
<1> DEFINE M == batch \ todo
<1>4. PICK f : f = routes'
  OBVIOUS
<1>5. M \in SUBSET Nets /\ n \notin M /\ (batch \ todo)' = M \cup {n} /\ {n} \in SUBSET Nets
  BY <1>1, <1>2
<1>6. Segments(batch \ todo)' = WiresIn(f, M \cup {n}) /\ Segments(batch \ todo) = WiresIn(routes, M)
  <2>1. Segments(batch \ todo)' = UNION {{<<m, w>> : w \in f[m].wires} : m \in M \cup {n}}
    BY <1>4, <1>5 DEF Segments
  <2>2. Segments(batch \ todo) = WiresIn(routes, M)
    BY Named
  <2> QED BY <2>1, <2>2 DEF WiresIn
<1> HIDE DEF M
<1>7. WiresIn(f, M \cup {n}) = WiresIn(f, M) \cup WiresIn(f, {n})
      /\ WiresIn(f, M) \cap WiresIn(f, {n}) = {}
  <2>1. M \cap {n} = {} /\ M \in SUBSET Nets /\ {n} \in SUBSET Nets
    BY <1>5
  <2>2. f \in AllRoutes
    BY <1>3, <1>4
  <2>3. WiresIn(f, M \cup {n}) = WiresIn(f, M) \cup WiresIn(f, {n})
    BY DEF WiresIn
  <2>4. WiresIn(f, M) \cap WiresIn(f, {n}) = {}
    BY <2>1, <2>2, PartsApart
  <2> QED BY <2>3, <2>4
<1>8. WiresIn(f, M) = WiresIn(routes, M)
  <2>1. \A m \in M : f[m] = routes[m]
    BY <1>3, <1>4, <1>5
  <2> QED BY <2>1, PartsAgree
<1>9. WiresIn(f, {n}) = {<<n, w>> : w \in r.wires}
  BY <1>3, <1>4 DEF WiresIn
<1>10. Segments(Rest)' = WiresIn(f, Rest) /\ OwnVias(Rest)' = OwnIn(f, Rest)
  BY <1>1, <1>4 DEF Segments, WiresIn, OwnVias, OwnIn, ViaCells, CellsIn, Rest
<1>11. WiresIn(f, Rest) = WiresIn(routes, Rest) /\ OwnIn(f, Rest) = OwnIn(routes, Rest)
  <2>1. \A m \in Rest : f[m] = routes[m]
    BY <1>1, <1>2, <1>3, <1>4 DEF Rest
  <2> QED BY <2>1, PartsAgree
<1>12. WiresIn(routes, Rest) = Segments(Rest) /\ OwnIn(routes, Rest) = OwnVias(Rest)
  BY Named
<1> QED BY <1>3, <1>6, <1>7, <1>8, <1>9, <1>10, <1>11, <1>12

(* The edges commit_dirty_tracks finds used are those the batch's wires run   *)
(* along, and it adds two halves for each of these wires.                     *)
LEMMA UsedAre ==
  ASSUME TypeOK, PreInv, pc = "commit", NEW t \in todo
  PROVE  /\ t \in Track
         /\ \A i \in 0 .. Len1 : i \in UsedEdges(t) <=> Over(Segments(batch), <<t, i>>) # {}
         /\ \A i \in UsedEdges(t) :
              pre_demand[<<t, i + 1>>] = Cardinality(Over(Segments(batch), <<t, i>>))
<1> DEFINE W == Segments(batch)
           used == UsedEdges(t)
<1>1. /\ t \in Track /\ Len1 \in Nat
      /\ \A c \in Cell : c[1] \in todo => pre_demand[c] = Passing(W, c)
  BY CellParts DEF TypeOK, TodoOK, PreInv
<1>2. IsFiniteSet(W) /\ \A x \in W : x[2] \in AllWires
  <2>1. batch \in SUBSET Nets
    BY DEF TypeOK
  <2> QED BY <2>1, SegmentParts
<1> HIDE DEF W
<1>3. ASSUME NEW i \in 0 .. Len1 - 1
      PROVE  /\ pre_demand[<<t, i + 1>>] = Cardinality(Over(W, <<t, i>>))
             /\ pre_demand[<<t, i + 1>>] > 0 <=> Over(W, <<t, i>>) # {}
  <2>1. i + 1 \in 0 .. Len1 /\ (i + 1) - 1 = i
    BY <1>1
  <2>2. <<t, i + 1>> \in Cell
    BY <1>1, <2>1, CellParts
  <2>3. pre_demand[<<t, i + 1>>] = Passing(W, <<t, i + 1>>)
    BY <1>1, <2>2
  <2>4. Passing(W, <<t, i + 1>>) = Cardinality(Over(W, <<t, i>>))
    BY <2>1 DEF Passing
  <2>5. Over(W, <<t, i>>) \in SUBSET W
    BY DEF Over
  <2>6. IsFiniteSet(Over(W, <<t, i>>))
    BY <1>2, <2>5, FS_Subset
  <2>7. Cardinality(Over(W, <<t, i>>)) \in Nat
        /\ (Cardinality(Over(W, <<t, i>>)) = 0 <=> Over(W, <<t, i>>) = {})
    BY <2>6, FS_CardinalityType, FS_EmptySet
  <2> QED BY <2>3, <2>4, <2>7
<1>4. Over(W, <<t, Len1>>) = {}
  <2>1. ASSUME NEW x \in W PROVE <<t, Len1>> \notin SegmentCells(x[2])
    <3>1. x[2] \in AllWires /\ x[2][3] \in 0 .. Len1 /\ Len1 \in Int
      BY <1>1, <1>2, WireParts
    <3>2. ~ (Len1 < x[2][3])
      BY <3>1
    <3> QED BY <3>1, <3>2, InSegment
  <2> QED BY <2>1 DEF Over
<1>5. used = {i \in 0 .. Len1 - 1 : pre_demand[<<t, i + 1>>] > 0}
  BY DEF UsedEdges
<1> HIDE DEF used
<1>6. ASSUME NEW i \in 0 .. Len1 PROVE i \in used <=> Over(W, <<t, i>>) # {}
  <2>1. CASE i = Len1
    <3>1. i \notin 0 .. Len1 - 1
      BY <1>1, <2>1
    <3> QED BY <1>4, <1>5, <2>1, <3>1
  <2>2. CASE i # Len1
    <3>1. i \in 0 .. Len1 - 1
      BY <1>1, <2>2
    <3> QED BY <1>3, <1>5, <3>1
  <2> QED BY <2>1, <2>2
<1>7. \A i \in used : pre_demand[<<t, i + 1>>] = Cardinality(Over(W, <<t, i>>))
  BY <1>3, <1>5
<1> QED BY <1>1, <1>6, <1>7 DEF W, used

(* A track without a flag has none of the batch's wires.                      *)
LEMMA Skipped ==
  ASSUME PreInv, pc = "commit", NEW t \in todo, incr.commit, ~ pre_flag[t]
  PROVE  \A x \in Segments(batch) : x[2][1] # t
  BY DEF PreInv, FlagOK
-----------------------------------------------------------------------------
(* The stamps.                                                                *)
LEMMA StampsOf ==
  ASSUME NEW w \in AllWires
  PROVE  Stamps(w) = SegmentCells(w) \cup {<<w[1], w[3]>>}
<1>1. w[2] \in Nat /\ w[3] \in Nat /\ w[2] < w[3]
  BY WireParts, CellParts
<1>2. \A i : i \in w[2] .. w[3] <=> i \in w[2] .. w[3] - 1 \/ i = w[3]
  BY <1>1
<1> QED BY <1>2 DEF Stamps, SegmentCells

LEMMA PassedParts ==
  ASSUME NEW W, \A x \in W : x[2] \in AllWires
  PROVE  /\ Passed(W) = Tails(W) \cup Inner(W)
         /\ \A x : Passed(W \cup {x}) = Passed(W) \cup Stamps(x[2])
         /\ \A T : Tails(W \cup T) = Tails(W) \cup Tails(T)
         /\ \A T : Inner(W \cup T) = Inner(W) \cup Inner(T)
<1>1. Passed(W) = Tails(W) \cup Inner(W)
  <2>1. \A c : c \in Passed(W) <=> \E x \in W : c \in Stamps(x[2])
    BY DEF Passed
  <2>2. \A c : c \in Tails(W) <=> \E x \in W : c = <<x[2][1], x[2][3]>>
    BY DEF Tails
  <2>3. \A c : c \in Inner(W) <=> \E x \in W : c \in SegmentCells(x[2])
    BY DEF Inner
  <2>4. \A x \in W : \A c : c \in Stamps(x[2]) <=> c \in SegmentCells(x[2]) \/ c = <<x[2][1], x[2][3]>>
    BY StampsOf
  <2>5. \A c : c \in Passed(W) <=> c \in Tails(W) \/ c \in Inner(W)
    BY <2>1, <2>2, <2>3, <2>4
  <2> QED BY <2>5
<1>2. \A x : Passed(W \cup {x}) = Passed(W) \cup Stamps(x[2])
  BY DEF Passed
<1>3. \A T : Tails(W \cup T) = Tails(W) \cup Tails(T)
  BY DEF Tails
<1>4. \A T : Inner(W \cup T) = Inner(W) \cup Inner(T)
  BY DEF Inner
<1> QED BY <1>1, <1>2, <1>3, <1>4

LEMMA Unstamped == Passed({}) = {} /\ Tails({}) = {} /\ Inner({}) = {} /\ Segments({}) = {}
  BY DEF Passed, Tails, Inner, Segments

LEMMA CommitStamps ==
  ASSUME TypeOK, PreInv, StampInv, NEW t \in Track, CommitTrack(t)
  PROVE  stamped' = Tails(Segments(batch))
                      \cup Inner({x \in Segments(batch) : x[2][1] \notin todo'})
<1> DEFINE W == Segments(batch)
           D == {x \in W : x[2][1] \notin todo}
           N == {x \in W : x[2][1] \notin todo'}
           T == {x \in W : x[2][1] = t}
<1>1. pc = "commit" /\ t \in todo /\ todo' = todo \ {t}
  BY DEF CommitTrack
<1>2. stamped = Tails(W) \cup Inner(D)
  BY <1>1 DEF StampInv
<1>3. N = D \cup T
  BY <1>1
<1>4. CASE incr.commit /\ ~ pre_flag[t]
  <2>1. T = {}
    BY <1>1, <1>4, Skipped
  <2>2. stamped' = stamped
    BY <1>4 DEF CommitTrack
  <2>3. N = D
    BY <1>3, <2>1
  <2> HIDE DEF W, D, N, T
  <2>4. stamped' = Tails(W) \cup Inner(N)
    BY <1>2, <2>2, <2>3
  <2> QED BY <2>4 DEF W, N
<1>5. CASE ~ (incr.commit /\ ~ pre_flag[t])
  <2> DEFINE used == UsedEdges(t)
  <2>1. stamped' = stamped \cup {<<t, i>> : i \in used}
    BY <1>5 DEF CommitTrack
  <2>2. batch \in SUBSET Nets
    BY DEF TypeOK
  <2>3. \A x \in W : x[2] \in AllWires
    BY <2>2, SegmentParts
  <2>4. \A i \in 0 .. Len1 : i \in used <=> Over(W, <<t, i>>) # {}
    BY <1>1, UsedAre
  <2>5. \A i \in used : i \in 0 .. Len1
    BY CellParts DEF UsedEdges
  <2> HIDE DEF W, used
  <2>6. ASSUME NEW c PROVE c \in Inner(T) <=> c \in {<<t, i>> : i \in used}
    <3>1. ASSUME c \in Inner(T) PROVE c \in {<<t, i>> : i \in used}
      <4>1. PICK x \in T : c \in SegmentCells(x[2])
        BY <3>1 DEF Inner
      <4>2. x \in W /\ x[2] \in AllWires /\ x[2][1] = t
        BY <2>3, <4>1
      <4>3. PICK i \in x[2][2] .. x[2][3] - 1 : c = <<t, i>>
        BY <4>1, <4>2 DEF SegmentCells
      <4>4. i \in 0 .. Len1
        BY <4>2, <4>3, WireParts, CellParts
      <4>5. x \in Over(W, <<t, i>>)
        BY <4>1, <4>2, <4>3 DEF Over
      <4> QED BY <2>4, <4>3, <4>4, <4>5
    <3>2. ASSUME c \in {<<t, i>> : i \in used} PROVE c \in Inner(T)
      <4>1. PICK i \in used : c = <<t, i>>
        BY <3>2
      <4>2. PICK x \in W : <<t, i>> \in SegmentCells(x[2])
        BY <2>4, <2>5, <4>1 DEF Over
      <4>3. x[2] \in AllWires /\ i \in Int
        BY <2>3, <2>5, <4>1, CellParts
      <4>4. x[2][1] = t
        BY <4>2, <4>3, InSegment
      <4> QED BY <4>1, <4>2, <4>4 DEF Inner
    <3> QED BY <3>1, <3>2
  <2>7. Inner(T) = {<<t, i>> : i \in used}
    BY <2>6
  <2>8. \A x \in D : x[2] \in AllWires
    BY <2>3
  <2> HIDE DEF D, T, N
  <2>9. Inner(N) = Inner(D) \cup Inner(T)
    BY <1>3, <2>8, PassedParts
  <2>10. stamped' = Tails(W) \cup Inner(N)
    BY <1>2, <2>1, <2>7, <2>9
  <2> QED BY <2>10 DEF W, N
<1> QED BY <1>4, <1>5

LEMMA StampStep == TypeOK /\ PlanInv /\ PreInv /\ StampInv /\ [Next]_vars => StampInv'
<1> SUFFICES ASSUME TypeOK, PlanInv, PreInv, StampInv, [Next]_vars PROVE StampInv'
  OBVIOUS
<1>1. batch \in SUBSET Nets /\ \A x \in Segments(batch) : x[2] \in AllWires
  <2>1. batch \in SUBSET Nets
    BY DEF TypeOK
  <2> QED BY <2>1, SegmentParts
<1>2. CASE StartBatch
  <2>1. routes' = routes /\ stamped' = {} /\ \/ pc' = "update"
                                             \/ pc' = "ripup_wires" /\ todo' = Segments(batch')
    BY <1>2 DEF StartBatch
  <2>2. Segments(batch)' = Segments(batch')
    BY <2>1 DEF Segments
  <2>3. pc' = "ripup_wires" => Segments(batch)' \ todo' = {}
    BY <2>1, <2>2
  <2> QED BY <2>1, <2>3, Unstamped DEF StampInv
<1>3. CASE StartStage2
  BY <1>3 DEF StartStage2, StampInv
<1>4. CASE NextKernel
  <2>1. UNCHANGED <<routes, batch>> /\ todo = {}
    BY <1>4 DEF NextKernel, plan
  <2>2. Segments(batch)' = Segments(batch)
    BY <2>1, SameRoutes
  <2>3. CASE pc = "ripup_wires" /\ pc' = "ripup_vias" /\ stamped' = stamped
    <3>1. Segments(batch) \ todo = Segments(batch)
      BY <2>1
    <3> QED BY <2>2, <2>3, <3>1 DEF StampInv, Passed
  <2>4. CASE pc' = "update" /\ stamped' = {}
    BY <2>4 DEF StampInv
  <2>5. CASE pc = "route" /\ pc' = "scan" /\ stamped' = stamped
    <3>1. batch \ todo = batch
      BY <2>1
    <3> QED BY <2>2, <2>5, <3>1 DEF StampInv, Tails
  <2>6. CASE pc = "scan" /\ pc' = "commit" /\ todo' = Track /\ stamped' = stamped
    <3>1. {x \in Segments(batch) : x[2][1] \notin Track} = {}
      BY <1>1, WireParts
    <3>2. Inner({x \in Segments(batch) : x[2][1] \notin Track}) = {}
      BY <3>1, Unstamped
    <3>3. stamped' = Tails(Segments(batch)) \cup Inner({x \in Segments(batch) : x[2][1] \notin todo'})
      BY <2>6, <3>2 DEF StampInv
    <3> QED BY <2>2, <2>6, <3>3 DEF StampInv, Tails, Inner
  <2>7. CASE pc = "commit" /\ pc' = "vias" /\ stamped' = stamped
    <3>1. {x \in Segments(batch) : x[2][1] \notin todo} = Segments(batch)
      BY <2>1
    <3>2. stamped = Passed(Segments(batch))
      BY <1>1, <2>7, <3>1, PassedParts DEF StampInv
    <3> QED BY <2>2, <2>7, <3>2 DEF StampInv, Passed
  <2>8. CASE pc' = "idle"
    BY <2>8 DEF StampInv
  <2> QED BY <1>4, <2>3, <2>4, <2>5, <2>6, <2>7, <2>8 DEF NextKernel
<1>5. ASSUME NEW item \in todo, pc = "ripup_wires", RipupWire(item[1], item[2])
      PROVE  StampInv'
  <2> DEFINE x == <<item[1], item[2]>>
             D == Segments(batch) \ todo
             N == Segments(batch) \ todo'
  <2>1. UNCHANGED <<routes, batch, pc>> /\ x \in todo /\ todo' = todo \ {x}
        /\ stamped' = stamped \cup Stamps(item[2])
    BY <1>5 DEF RipupWire, plan
  <2>2. N = D \cup {x}
    BY <1>5, <2>1 DEF PlanInv
  <2>3. stamped = Passed(D)
    BY <1>5 DEF StampInv
  <2>4. x[2] = item[2] /\ \A y \in D : y[2] \in AllWires
    BY <1>1
  <2> HIDE DEF D, x
  <2>5. Passed(N) = Passed(D) \cup Stamps(x[2])
    BY <2>2, <2>4, PassedParts
  <2>6. stamped' = Passed(N)
    BY <2>1, <2>3, <2>4, <2>5
  <2>7. Segments(batch)' \ todo' = N
    BY <2>1, SameRoutes
  <2> HIDE DEF N
  <2>8. (pc = "ripup_wires")' /\ stamped' = Passed(Segments(batch)' \ todo')
    BY <1>5, <2>1, <2>6, <2>7
  <2> QED BY <2>8 DEF StampInv, Passed
<1>6. ASSUME NEW item \in todo, pc \in {"ripup_vias", "vias"}, ViaCell(item[1], item[2])
      PROVE  StampInv'
  <2>1. UNCHANGED <<routes, batch, pc, stamped>>
    BY <1>6 DEF ViaCell, plan
  <2>2. stamped' = Passed(Segments(batch)')
    BY <1>6, <2>1, SameRoutes DEF StampInv
  <2> QED BY <1>6, <2>1, <2>2 DEF StampInv, Passed
<1>7. CASE UpdateCost \/ ComputePresum
  BY <1>7 DEF UpdateCost, ComputePresum, StampInv
<1>8. CASE FinishRefresh
  <2>1. pc' = "route" /\ todo' = batch' /\ stamped' = {}
    BY <1>8 DEF FinishRefresh, plan, StampInv
  <2>2. (batch \ todo)' = {}
    BY <2>1
  <2>3. Segments(batch \ todo)' = {}
    BY <2>2 DEF Segments
  <2>4. Tails(Segments(batch \ todo))' = {}
    BY <2>3 DEF Tails
  <2> QED BY <2>1, <2>4 DEF StampInv
<1>9. ASSUME NEW n \in Nets, NEW r \in Routes, RouteNet(n, r)
      PROVE  StampInv'
  <2> DEFINE T == {<<n, w>> : w \in r.wires}
             W == Segments(batch \ todo)
  <2>1. pc = "route" /\ pc' = "route" /\ stamped' = stamped \cup {<<w[1], w[3]>> : w \in r.wires}
    BY <1>9 DEF RouteNet
  <2>2. W' = W \cup T
    BY <1>9, RoutedNext
  <2>3. stamped = Tails(W)
    BY <2>1 DEF StampInv
  <2>4. Tails(T) = {<<w[1], w[3]>> : w \in r.wires}
    <3>1. \A w \in r.wires : <<n, w>> \in T /\ <<n, w>>[2] = w
      OBVIOUS
    <3>2. \A x \in T : x[2] \in r.wires
      OBVIOUS
    <3> HIDE DEF T
    <3>3. \A c : (\E x \in T : c = <<x[2][1], x[2][3]>>) <=> \E w \in r.wires : c = <<w[1], w[3]>>
      <4> SUFFICES ASSUME NEW c
                   PROVE  (\E x \in T : c = <<x[2][1], x[2][3]>>)
                            <=> \E w \in r.wires : c = <<w[1], w[3]>>
        OBVIOUS
      <4>1. ASSUME NEW x \in T, c = <<x[2][1], x[2][3]>>
            PROVE  \E w \in r.wires : c = <<w[1], w[3]>>
        BY <3>2, <4>1
      <4>2. ASSUME NEW w \in r.wires, c = <<w[1], w[3]>>
            PROVE  \E x \in T : c = <<x[2][1], x[2][3]>>
        <5>1. <<n, w>> \in T /\ <<n, w>>[2] = w
          BY <3>1
        <5> QED BY <4>2, <5>1
      <4> QED BY <4>1, <4>2
    <3> QED BY <3>3 DEF Tails
  <2>5. Tails(W \cup T) = Tails(W) \cup Tails(T)
    BY DEF Tails
  <2>6. stamped' = Tails(W \cup T)
    BY <2>1, <2>3, <2>4, <2>5
  <2>7. Tails(W)' = Tails(W \cup T)
    BY <2>2 DEF Tails
  <2> QED BY <2>1, <2>6, <2>7 DEF StampInv
<1>10. ASSUME NEW t \in Track, ScanTrack(t)
       PROVE  StampInv'
  <2>1. UNCHANGED <<routes, batch, pc, stamped>> /\ pc = "scan"
    BY <1>10 DEF ScanTrack, plan
  <2>2. stamped' = Tails(Segments(batch)')
    BY <2>1, SameRoutes DEF StampInv
  <2> QED BY <2>1, <2>2 DEF StampInv, Tails
<1>11. ASSUME NEW t \in Track, CommitTrack(t)
       PROVE  StampInv'
  <2>1. UNCHANGED <<routes, batch, pc>> /\ pc = "commit"
    BY <1>11 DEF CommitTrack, plan
  <2>2. Segments(batch)' = Segments(batch)
    BY <2>1, SameRoutes
  <2>3. stamped' = Tails(Segments(batch))
                     \cup Inner({x \in Segments(batch) : x[2][1] \notin todo'})
    BY <1>11, CommitStamps
  <2>4. stamped' = (Tails(Segments(batch))
                     \cup Inner({x \in Segments(batch) : x[2][1] \notin todo}))'
    BY <2>2, <2>3 DEF Tails, Inner
  <2> QED BY <2>1, <2>4 DEF StampInv
<1>12. CASE UNCHANGED vars
  <2>1. UNCHANGED <<batch, pc, routes, todo, stamped>>
    BY <1>12 DEF vars, plan
  <2>2. Segments(batch)' = Segments(batch) /\ Segments(batch \ todo)' = Segments(batch \ todo)
    BY <2>1 DEF Segments
  <2>3. /\ Passed(Segments(batch) \ todo)' = Passed(Segments(batch) \ todo)
        /\ Passed(Segments(batch))' = Passed(Segments(batch))
    BY <2>1, <2>2 DEF Passed
  <2>4. /\ Tails(Segments(batch \ todo))' = Tails(Segments(batch \ todo))
        /\ Tails(Segments(batch))' = Tails(Segments(batch))
    BY <2>2 DEF Tails
  <2>5. Inner({x \in Segments(batch) : x[2][1] \notin todo})' =
          Inner({x \in Segments(batch) : x[2][1] \notin todo})
    BY <2>1, <2>2 DEF Inner
  <2> QED BY <2>1, <2>3, <2>4, <2>5 DEF StampInv
<1> QED BY <1>2, <1>3, <1>4, <1>5, <1>6, <1>7, <1>8, <1>9, <1>10, <1>11, <1>12 DEF Next

-----------------------------------------------------------------------------
(* The scratch grid.                                                          *)
LEMMA DeltaOfSome ==
  ASSUME NEW W, NEW c, IsFiniteSet(W)
  PROVE  /\ IsFiniteSet(StartsAt(W, c)) /\ IsFiniteSet(EndsAt(W, c))
         /\ Delta(W, c) \in Int
<1>1. StartsAt(W, c) \in SUBSET W /\ EndsAt(W, c) \in SUBSET W
  BY DEF StartsAt, EndsAt
<1>2. IsFiniteSet(StartsAt(W, c)) /\ IsFiniteSet(EndsAt(W, c))
  BY <1>1, FS_Subset
<1>3. Cardinality(StartsAt(W, c)) \in Nat /\ Cardinality(EndsAt(W, c)) \in Nat
  BY <1>2, FS_CardinalityType
<1> QED BY <1>2, <1>3 DEF Delta

LEMMA DeltaOfMore ==
  ASSUME NEW W, NEW T, NEW c, IsFiniteSet(W), IsFiniteSet(T), W \cap T = {}
  PROVE  Delta(W \cup T, c) = Delta(W, c) + Delta(T, c)
<1>1. /\ StartsAt(W \cup T, c) = StartsAt(W, c) \cup StartsAt(T, c)
      /\ EndsAt(W \cup T, c) = EndsAt(W, c) \cup EndsAt(T, c)
      /\ StartsAt(W, c) \cap StartsAt(T, c) = {} /\ EndsAt(W, c) \cap EndsAt(T, c) = {}
  BY DEF StartsAt, EndsAt
<1>2. /\ IsFiniteSet(StartsAt(W, c)) /\ IsFiniteSet(StartsAt(T, c))
      /\ IsFiniteSet(EndsAt(W, c)) /\ IsFiniteSet(EndsAt(T, c))
  BY DeltaOfSome
<1> DEFINE sw == Cardinality(StartsAt(W, c))
           st == Cardinality(StartsAt(T, c))
           ew == Cardinality(EndsAt(W, c))
           et == Cardinality(EndsAt(T, c))
<1>3. Cardinality(StartsAt(W \cup T, c)) = sw + st /\ sw \in Nat /\ st \in Nat
  BY <1>1, <1>2, DisjointUnion
<1>4. Cardinality(EndsAt(W \cup T, c)) = ew + et /\ ew \in Nat /\ et \in Nat
  BY <1>1, <1>2, DisjointUnion
<1>5. /\ Delta(W \cup T, c) = (sw + st) - (ew + et)
      /\ Delta(W, c) = sw - ew /\ Delta(T, c) = st - et
  BY <1>3, <1>4 DEF Delta
<1> HIDE DEF sw, st, ew, et
<1> QED BY <1>3, <1>4, <1>5

LEMMA DeltaOfRoute ==
  ASSUME NEW n, NEW r, NEW c, IsFiniteSet(r.wires)
  PROVE  Delta({<<n, w>> : w \in r.wires}, c) = Ends(r, c)
<1> DEFINE T == {<<n, w>> : w \in r.wires}
           S == {w \in r.wires : <<w[1], w[2]>> = c}
           E == {w \in r.wires : <<w[1], w[3]>> = c}
<1>1. StartsAt(T, c) = {<<n, w>> : w \in S} /\ EndsAt(T, c) = {<<n, w>> : w \in E}
  BY DEF StartsAt, EndsAt
<1>2. S \in SUBSET r.wires /\ E \in SUBSET r.wires
  OBVIOUS
<1>3. IsFiniteSet(S) /\ IsFiniteSet(E)
  BY <1>2, FS_Subset
<1>4. Ends(r, c) = Cardinality(S) - Cardinality(E)
  BY DEF Ends
<1> HIDE DEF S, E, T
<1>5. Cardinality(StartsAt(T, c)) = Cardinality(S) /\ Cardinality(EndsAt(T, c)) = Cardinality(E)
  <2>1. Cardinality({<<n, w>> : w \in S}) = Cardinality(S)
    BY <1>3, TaggedIsFinite
  <2>2. Cardinality({<<n, w>> : w \in E}) = Cardinality(E)
    BY <1>3, TaggedIsFinite
  <2> QED BY <1>1, <2>1, <2>2
<1> QED BY <1>4, <1>5 DEF Delta, T

(* A track none of the wires runs on.                                         *)
LEMMA NoWiresHere ==
  ASSUME NEW W, \A x \in W : x[2] \in AllWires, NEW c \in Cell, \A x \in W : x[2][1] # c[1]
  PROVE  Delta(W, c) = 0 /\ Passing(W, c) = 0
<1>1. c[2] - 1 \in Int /\ c = <<c[1], c[2]>>
  BY CellParts
<1>2. StartsAt(W, c) = {} /\ EndsAt(W, c) = {}
  BY <1>1 DEF StartsAt, EndsAt
<1>3. Over(W, <<c[1], c[2] - 1>>) = {}
  <2>1. ASSUME NEW x \in W PROVE <<c[1], c[2] - 1>> \notin SegmentCells(x[2])
    <3>1. x[2] \in AllWires
      OBVIOUS
    <3> QED BY <1>1, <3>1, InSegment
  <2> QED BY <2>1 DEF Over
<1>4. Cardinality({}) = 0
  BY FS_EmptySet
<1>5. Delta(W, c) = 0
  BY <1>2, <1>4 DEF Delta
<1>6. Passing(W, c) = 0
  BY <1>3, <1>4 DEF Passing
<1> QED BY <1>5, <1>6

LEMMA DeltaOfNone == \A c : Delta({}, c) = 0
<1>1. \A c : StartsAt({}, c) = {} /\ EndsAt({}, c) = {}
  BY DEF StartsAt, EndsAt
<1>2. Cardinality({}) = 0
  BY FS_EmptySet
<1> QED BY <1>1, <1>2 DEF Delta

LEMMA RouteNetKeepsPre ==
  ASSUME TypeOK, PlanInv, PreInv, NEW n \in Nets, NEW r \in Routes, RouteNet(n, r)
  PROVE  PreInv'
<1> DEFINE W == Segments(batch \ todo)
           T == {<<n, w>> : w \in r.wires}
<1>1. /\ pc = "route" /\ pc' = "route" /\ pre_flag' = FlagPre(r) /\ incr' = incr
      /\ pre_demand' = [c \in Cell |-> pre_demand[c] + Ends(r, c)]
  BY DEF RouteNet, plan
<1>2. W' = W \cup T /\ W \cap T = {}
  BY RoutedNext
<1>3. IsFiniteSet(W)
  <2>1. batch \ todo \in SUBSET Nets
    BY DEF TypeOK
  <2> QED BY <2>1, SegmentParts
<1>4. IsFiniteSet(T) /\ IsFiniteSet(r.wires)
  BY CostAssumption, TaggedIsFinite
<1>5. /\ \A c \in Cell : pre_demand[c] = Delta(W, c)
      /\ \A t \in Track : FlagOK(t, W)
  BY <1>1 DEF PreInv
<1>6. ASSUME NEW c \in Cell PROVE pre_demand'[c] = Delta(W \cup T, c)
  <2>1. Delta(T, c) = Ends(r, c)
    BY <1>4, DeltaOfRoute
  <2> HIDE DEF W, T
  <2>2. Delta(W \cup T, c) = Delta(W, c) + Delta(T, c)
    BY <1>2, <1>3, <1>4, DeltaOfMore
  <2>3. pre_demand'[c] = pre_demand[c] + Ends(r, c)
    BY <1>1
  <2> QED BY <1>5, <2>1, <2>2, <2>3
<1>7. ASSUME NEW t \in Track
      PROVE  pre_flag'[t] \/ ~ incr.commit \/ \A x \in W \cup T : x[2][1] # t
  <2>1. FlagOK(t, W)
    BY <1>5
  <2>2. pre_flag'[t] \/ (~ pre_flag[t] /\ \A w \in r.wires : w[1] # t)
    BY <1>1 DEF FlagPre
  <2>3. (\A w \in r.wires : w[1] # t) => \A x \in T : x[2][1] # t
    OBVIOUS
  <2> HIDE DEF W, T
  <2> QED BY <2>1, <2>2, <2>3 DEF FlagOK
<1> HIDE DEF W
<1>8. \A c \in Cell : pre_demand'[c] = Delta(W', c)
  BY <1>2, <1>6
<1>9. \A t \in Track : pre_flag'[t] \/ ~ incr'.commit \/ \A x \in W' : x[2][1] # t
  BY <1>1, <1>2, <1>7
<1> QED BY <1>1, <1>8, <1>9 DEF PreInv, FlagOK, W

LEMMA ScanKeepsPre ==
  ASSUME TypeOK, PreInv, NEW t \in Track, ScanTrack(t)
  PROVE  PreInv'
<1> DEFINE W == Segments(batch)
<1>1. /\ pc = "scan" /\ pc' = "scan" /\ t \in todo /\ todo' = todo \ {t}
      /\ UNCHANGED <<routes, batch, pre_flag, incr>>
  BY DEF ScanTrack, plan
<1>2. Segments(batch)' = W
  BY <1>1, SameRoutes
<1>3. IsFiniteSet(W) /\ \A x \in W : x[2] \in AllWires
  <2>1. batch \in SUBSET Nets
    BY DEF TypeOK
  <2> QED BY <2>1, SegmentParts
<1> HIDE DEF W
<1>4. /\ \A c \in Cell : pre_demand[c] = IF c[1] \in todo THEN Delta(W, c) ELSE Passing(W, c)
      /\ \A u \in Track : FlagOK(u, W)
  BY <1>1 DEF PreInv, W
<1>5. \A u \in Track : pre_flag'[u] \/ ~ incr'.commit \/ \A x \in W : x[2][1] # u
  BY <1>1, <1>4 DEF FlagOK
<1>6. ASSUME NEW c \in Cell
      PROVE  pre_demand'[c] = IF c[1] \in todo' THEN Delta(W, c) ELSE Passing(W, c)
  <2>1. CASE incr.commit /\ ~ pre_flag[t]
    <3>1. pre_demand' = pre_demand
      BY <2>1 DEF ScanTrack
    <3>2. CASE c[1] = t
      <4>1. Delta(W, c) = 0 /\ Passing(W, c) = 0
        BY <1>3, <1>4, <2>1, <3>2, NoWiresHere DEF FlagOK
      <4> QED BY <1>4, <3>1, <4>1
    <3>3. CASE c[1] # t
      BY <1>1, <1>4, <3>1, <3>3
    <3> QED BY <3>2, <3>3
  <2>2. CASE ~ (incr.commit /\ ~ pre_flag[t])
    <3>1. pre_demand'[c] = IF c[1] # t THEN pre_demand[c] ELSE Sums(t)[c[2]]
      BY <2>2 DEF ScanTrack
    <3>2. CASE c[1] = t
      <4>1. c[2] \in 0 .. Len1 /\ c = <<t, c[2]>>
        BY <3>2, CellParts
      <4>2. \A i \in 0 .. Len1 : pre_demand[<<t, i>>] = Delta(W, <<t, i>>)
        <5> SUFFICES ASSUME NEW i \in 0 .. Len1 PROVE pre_demand[<<t, i>>] = Delta(W, <<t, i>>)
          OBVIOUS
        <5>1. <<t, i>> \in Cell /\ <<t, i>>[1] = t
          BY CellParts
        <5> QED BY <1>1, <1>4, <5>1
      <4>3. Sums(t)[c[2]] = Cardinality(Over(W, <<t, c[2] - 1>>))
        BY <1>3, <4>1, <4>2, SumsAre
      <4>4. Sums(t)[c[2]] = Passing(W, c)
        BY <3>2, <4>3 DEF Passing
      <4> QED BY <1>1, <3>1, <3>2, <4>4
    <3>3. CASE c[1] # t
      BY <1>1, <1>4, <3>1, <3>3
    <3> QED BY <3>2, <3>3
  <2> QED BY <2>1, <2>2
<1> QED BY <1>1, <1>2, <1>5, <1>6 DEF PreInv, FlagOK

LEMMA CommitKeepsPre ==
  ASSUME TypeOK, PreInv, NEW t \in Track, CommitTrack(t)
  PROVE  PreInv'
<1> DEFINE W == Segments(batch)
<1>1. /\ pc = "commit" /\ pc' = "commit" /\ t \in todo /\ todo' = todo \ {t}
      /\ UNCHANGED <<routes, batch, incr>>
  BY DEF CommitTrack, plan
<1>2. Segments(batch)' = W
  BY <1>1, SameRoutes
<1> HIDE DEF W
<1>3. /\ \A c \in Cell : c[1] \in todo => pre_demand[c] = Passing(W, c)
      /\ \A u \in todo : FlagOK(u, W)
  BY <1>1 DEF PreInv, W
<1>4. \A c \in Cell : c[1] # t => pre_demand'[c] = pre_demand[c]
  <2>1. CASE incr.commit /\ ~ pre_flag[t]
    BY <2>1 DEF CommitTrack
  <2>2. CASE ~ (incr.commit /\ ~ pre_flag[t])
    <3>1. pre_demand' = [c \in Cell |-> IF c[1] = t THEN 0 ELSE pre_demand[c]]
      BY <2>2 DEF CommitTrack
    <3> QED BY <3>1
  <2> QED BY <2>1, <2>2
<1>5. \A u \in Track : u # t => pre_flag'[u] = pre_flag[u]
  <2>1. CASE incr.commit /\ ~ pre_flag[t]
    BY <2>1 DEF CommitTrack
  <2>2. CASE ~ (incr.commit /\ ~ pre_flag[t])
    <3>1. pre_flag' = IF incr.commit THEN [pre_flag EXCEPT ![t] = FALSE] ELSE pre_flag
      BY <2>2 DEF CommitTrack
    <3> QED BY <3>1 DEF TypeOK
  <2> QED BY <2>1, <2>2
<1>6. todo \subseteq Track
  BY <1>1 DEF TypeOK, TodoOK
<1>7. \A u \in todo' : pre_flag'[u] \/ ~ incr'.commit \/ \A x \in W : x[2][1] # u
  BY <1>1, <1>3, <1>5, <1>6 DEF FlagOK
<1>8. \A c \in Cell : c[1] \in todo' => pre_demand'[c] = Passing(W, c)
  BY <1>1, <1>3, <1>4
<1> QED BY <1>1, <1>2, <1>7, <1>8 DEF PreInv, FlagOK

LEMMA PreStep == TypeOK /\ PlanInv /\ ScratchInv /\ PreInv /\ [Next]_vars => PreInv'
<1> SUFFICES ASSUME TypeOK, PlanInv, ScratchInv, PreInv, [Next]_vars PROVE PreInv'
  OBVIOUS
<1>1. CASE StartBatch \/ StartStage2 \/ UpdateCost \/ ComputePresum
  <2>1. pc' \in {"update", "ripup_wires", "presum", "finish", "idle"}
    BY <1>1 DEF StartBatch, StartStage2, UpdateCost, ComputePresum
  <2> QED BY <2>1 DEF PreInv
<1>2. CASE FinishRefresh
  <2>1. pc = "finish" /\ pc' = "route" /\ todo' = batch'
        /\ UNCHANGED <<pre_demand, pre_flag, routes, incr>>
    BY <1>2 DEF FinishRefresh, plan
  <2>2. (batch \ todo)' = {}
    BY <2>1
  <2>3. Segments(batch \ todo)' = {}
    BY <2>2 DEF Segments
  <2>4. \A t \in Track : TrackIsClear(t)
    BY <2>1 DEF ScratchInv
  <2>5. ASSUME NEW c \in Cell PROVE pre_demand'[c] = 0
    <3>1. c[1] \in Track /\ c[2] \in 0 .. Len1 /\ c = <<c[1], c[2]>>
      BY CellParts
    <3>2. pre_demand[<<c[1], c[2]>>] = 0
      BY <2>4, <3>1 DEF TrackIsClear
    <3> QED BY <2>1, <3>1, <3>2
  <2>6. \A c \in Cell : pre_demand'[c] = Delta(Segments(batch \ todo)', c)
    BY <2>3, <2>5, DeltaOfNone
  <2>7. \A t \in Track :
          pre_flag'[t] \/ ~ incr'.commit \/ \A x \in Segments(batch \ todo)' : x[2][1] # t
    BY <2>3
  <2> QED BY <2>1, <2>6, <2>7 DEF PreInv, FlagOK
<1>3. CASE NextKernel
  <2>1. UNCHANGED <<routes, batch, pre_demand, pre_flag, incr>> /\ todo = {}
    BY <1>3 DEF NextKernel, plan
  <2>2. Segments(batch)' = Segments(batch) /\ Segments(batch \ todo) = Segments(batch)
    <3>1. batch \ todo = batch
      BY <2>1
    <3> QED BY <2>1, <3>1, SameRoutes
  <2>3. \A c \in Cell : c[1] \in Track
    BY CellParts
  <2> DEFINE W == Segments(batch)
  <2>4. /\ pc = "route" => /\ \A c \in Cell : pre_demand[c] = Delta(W, c)
                           /\ \A t \in Track : FlagOK(t, W)
        /\ pc = "scan" => /\ \A c \in Cell : pre_demand[c] = Passing(W, c)
                          /\ \A t \in Track : FlagOK(t, W)
    BY <2>1, <2>2 DEF PreInv
  <2> HIDE DEF W
  <2>5. \A t \in Track : FlagOK(t, W) => pre_flag'[t] \/ ~ incr'.commit \/ \A x \in W : x[2][1] # t
    BY <2>1 DEF FlagOK
  <2>6. Segments(batch)' = W
    BY <2>2 DEF W
  <2>7. CASE pc = "route" /\ pc' = "scan" /\ todo' = Track
    BY <2>1, <2>3, <2>4, <2>5, <2>6, <2>7 DEF PreInv, FlagOK
  <2>8. CASE pc = "scan" /\ pc' = "commit" /\ todo' = Track
    BY <2>1, <2>3, <2>4, <2>5, <2>6, <2>8 DEF PreInv, FlagOK
  <2>9. CASE pc' \in {"ripup_vias", "update", "vias", "idle"}
    BY <2>9 DEF PreInv
  <2> QED BY <1>3, <2>7, <2>8, <2>9 DEF NextKernel
<1>4. ASSUME NEW item \in todo, \/ pc = "ripup_wires" /\ RipupWire(item[1], item[2])
                                \/ pc \in {"ripup_vias", "vias"} /\ ViaCell(item[1], item[2])
      PROVE  PreInv'
  <2>1. pc' = pc /\ pc \in {"ripup_wires", "ripup_vias", "vias"}
    BY <1>4 DEF RipupWire, ViaCell
  <2> QED BY <2>1 DEF PreInv
<1>5. ASSUME NEW n \in Nets, NEW r \in Routes, RouteNet(n, r) PROVE PreInv'
  BY <1>5, RouteNetKeepsPre
<1>6. ASSUME NEW t \in Track, ScanTrack(t) \/ CommitTrack(t) PROVE PreInv'
  BY <1>6, ScanKeepsPre, CommitKeepsPre
<1>7. CASE UNCHANGED vars
  <2>1. UNCHANGED <<batch, pc, routes, todo, pre_demand, pre_flag, incr>>
    BY <1>7 DEF vars, plan
  <2>2. Segments(batch)' = Segments(batch) /\ Segments(batch \ todo)' = Segments(batch \ todo)
    BY <2>1 DEF Segments
  <2> QED BY <2>1, <2>2 DEF PreInv, FlagOK
<1> QED BY <1>1, <1>2, <1>3, <1>4, <1>5, <1>6, <1>7 DEF Next

-----------------------------------------------------------------------------
(* The demand: one wire or one via cell goes, a via cell or a track's wires   *)
(* come.                                                                      *)
LEMMA WireGoes ==
  ASSUME NEW d, NEW d2, NEW W, NEW V, NEW x, IsFiniteSet(W), IsFiniteSet(V), x \notin W,
         Counts(d, W \cup {x}, V),
         \A e \in Cell : d2[e] = IF e \in SegmentCells(x[2]) THEN d[e] + 2 * (-1) ELSE d[e]
  PROVE  Counts(d2, W, V)
<1> SUFFICES ASSUME NEW e \in Cell, Uncrossed(e) PROVE d2[e] = DemandOf(W, V, e)
  BY DEF Counts
<1>1. /\ DemandOf(W \cup {x}, V, e) =
           DemandOf(W, V, e) + (IF e \in SegmentCells(x[2]) THEN 2 ELSE 0)
      /\ DemandOf(W, V, e) \in Nat
  BY OneMoreWire
<1>2. d[e] = DemandOf(W \cup {x}, V, e)
  BY DEF Counts
<1>3. d2[e] = IF e \in SegmentCells(x[2]) THEN d[e] + 2 * (-1) ELSE d[e]
  OBVIOUS
<1> QED BY <1>1, <1>2, <1>3

LEMMA ViaGoes ==
  ASSUME NEW d, NEW d2, NEW W, NEW V, NEW x, IsFiniteSet(W), IsFiniteSet(V), x \notin V,
         x[2] \in Cell, Counts(d, W, V \cup {x}),
         \A e \in Cell : Uncrossed(e) => d2[e] = d[e] - ViaHalves(x[2], e)
  PROVE  Counts(d2, W, V)
<1> SUFFICES ASSUME NEW e \in Cell, Uncrossed(e) PROVE d2[e] = DemandOf(W, V, e)
  BY DEF Counts
<1>1. /\ DemandOf(W, V \cup {x}, e) = DemandOf(W, V, e) + ViaHalves(x[2], e)
      /\ DemandOf(W, V, e) \in Nat /\ ViaHalves(x[2], e) \in Nat
  BY OneMoreVia
<1>2. d[e] = DemandOf(W, V \cup {x}, e) /\ d2[e] = d[e] - ViaHalves(x[2], e)
  BY DEF Counts
<1> QED BY <1>1, <1>2

LEMMA ViaComes ==
  ASSUME NEW d, NEW d2, NEW W, NEW V, NEW x, IsFiniteSet(W), IsFiniteSet(V), x \notin V,
         x[2] \in Cell, Counts(d, W, V),
         \A e \in Cell : Uncrossed(e) => d2[e] = d[e] + ViaHalves(x[2], e)
  PROVE  Counts(d2, W, V \cup {x})
<1> SUFFICES ASSUME NEW e \in Cell, Uncrossed(e) PROVE d2[e] = DemandOf(W, V \cup {x}, e)
  BY DEF Counts
<1>1. DemandOf(W, V \cup {x}, e) = DemandOf(W, V, e) + ViaHalves(x[2], e)
  BY OneMoreVia
<1>2. d[e] = DemandOf(W, V, e) /\ d2[e] = d[e] + ViaHalves(x[2], e)
  BY DEF Counts
<1> QED BY <1>1, <1>2

LEMMA WiresCome ==
  ASSUME NEW d, NEW d2, NEW W, NEW T, NEW V, IsFiniteSet(W), IsFiniteSet(T), IsFiniteSet(V),
         W \cap T = {}, Counts(d, W, V),
         \A e \in Cell : Uncrossed(e) => d2[e] = d[e] + 2 * Cardinality(Over(T, e))
  PROVE  Counts(d2, W \cup T, V)
<1> SUFFICES ASSUME NEW e \in Cell, Uncrossed(e) PROVE d2[e] = DemandOf(W \cup T, V, e)
  BY DEF Counts
<1>1. DemandOf(W \cup T, V, e) = DemandOf(W, V, e) + 2 * Cardinality(Over(T, e))
  BY MoreWires
<1>2. d[e] = DemandOf(W, V, e) /\ d2[e] = d[e] + 2 * Cardinality(Over(T, e))
  BY DEF Counts
<1> QED BY <1>1, <1>2

LEMMA RipupWireCounts ==
  ASSUME TypeOK, PlanInv, DemandInv, NEW item \in todo, pc = "ripup_wires",
         RipupWire(item[1], item[2])
  PROVE  DemandInv'
<1> DEFINE x == <<item[1], item[2]>>
           W == Segments(Rest) \cup todo'
           V == OwnVias(Nets)
<1>1. /\ UNCHANGED <<routes, batch, pc>> /\ x \in todo /\ todo' = todo \ {x}
      /\ demand' = AddSegment(item[2], -1)
  BY DEF RipupWire, plan
<1>2. todo \subseteq Segments(batch)
  BY DEF PlanInv
<1>3. x \notin W /\ Segments(Rest) \cup todo = W \cup {x}
  BY <1>1, <1>2, NetsSplit
<1>4. IsFiniteSet(W) /\ IsFiniteSet(V)
  <2>1. W \in SUBSET Segments(Nets)
    BY <1>1, <1>2, NetsSplit
  <2>2. IsFiniteSet(Segments(Nets)) /\ IsFiniteSet(V)
    BY NetsSplit
  <2> QED BY <2>1, <2>2, FS_Subset
<1>5. Counts(demand, W \cup {x}, V)
  BY <1>3 DEF DemandInv
<1>6. \A e \in Cell : demand'[e] = IF e \in SegmentCells(x[2]) THEN demand[e] + 2 * (-1) ELSE demand[e]
  BY <1>1 DEF AddSegment
<1> HIDE DEF W, V, x
<1>7. Counts(demand', W, V)
  BY <1>3, <1>4, <1>5, <1>6, WireGoes
<1>8. W = Segments(Rest)' \cup todo' /\ V = OwnVias(Nets)'
  BY <1>1, SameRoutes DEF W, V
<1> QED BY <1>1, <1>7, <1>8 DEF DemandInv, Counts

(* A via cell of the batch that its own wires leave to it is stamped only by  *)
(* another net's wire, and one they pass is stamped by them.                  *)
LEMMA OwnOrStamped ==
  ASSUME TypeOK, PlanInv, StampInv, pc \in {"ripup_vias", "vias"}, NEW x \in todo
  PROVE  /\ x \in ViaCells(batch) /\ x = <<x[1], x[2]>> /\ x[2] \in Cell
         /\ x \notin OwnVias(batch) => x[2] \in stamped
         /\ \A e : x \in OwnVias(batch) /\ x[2] \in stamped /\ e \in SplitCells(x[2])
                     => ~ Uncrossed(e)
<1>1. batch \in SUBSET Nets /\ stamped = Passed(Segments(batch)) /\ x \in ViaCells(batch)
  BY DEF TypeOK, PlanInv, StampInv
<1>2. x = <<x[1], x[2]>> /\ x[1] \in batch /\ x[2] \in routes[x[1]].vias /\ x[2] \in Cell
  BY <1>1, ViaParts
<1>3. \A y \in Segments(batch) : y[1] \in batch /\ y[2] \in routes[y[1]].wires
  BY <1>1, SegmentParts
<1>4. \A n \in batch : \A w \in routes[n].wires : <<n, w>> \in Segments(batch)
  BY <1>1, SegmentParts
<1>5. ASSUME x \notin OwnVias(batch) PROVE x[2] \in stamped
  <2>1. x[2] \in Wired(routes[x[1]])
    BY <1>1, <1>5 DEF OwnVias
  <2>2. PICK w \in routes[x[1]].wires : x[2] \in Stamps(w)
    BY <2>1 DEF Wired
  <2>3. <<x[1], w>> \in Segments(batch) /\ <<x[1], w>>[2] = w
    BY <1>2, <1>4
  <2> QED BY <1>1, <2>2, <2>3 DEF Passed
<1>6. ASSUME NEW e, x \in OwnVias(batch), x[2] \in stamped, e \in SplitCells(x[2])
      PROVE  ~ Uncrossed(e)
  <2>1. PICK y \in Segments(batch) : x[2] \in Stamps(y[2])
    BY <1>1, <1>6 DEF Passed
  <2>2. x[2] \in Wired(routes[y[1]]) /\ routes[y[1]].wires # {}
    BY <1>3, <2>1 DEF Wired
  <2>3. x[2] \notin Wired(routes[x[1]])
    BY <1>6 DEF OwnVias
  <2>4. routes \in AllRoutes /\ x[1] \in Nets /\ y[1] \in Nets
    BY <1>1, <1>2, <1>3, <2>1 DEF TypeOK, AllRoutes
  <2>5. routes[x[1]] \in Routes /\ routes[y[1]] \in Routes
    <3>1. routes[x[1]].vias # {}
      BY <1>2
    <3> QED BY <2>2, <2>4, <3>1, PartsOfNets
  <2> QED BY <1>2, <1>6, <2>2, <2>3, <2>5 DEF Uncrossed
<1> QED BY <1>1, <1>2, <1>5, <1>6

LEMMA CountsAreNat ==
  ASSUME NEW d, NEW W, NEW V, IsFiniteSet(W), IsFiniteSet(V), Counts(d, W, V)
  PROVE  \A e \in Cell : Uncrossed(e) => d[e] \in Nat
  BY DemandOfIs DEF Counts

LEMMA NoHalves ==
  ASSUME NEW c \in Cell, NEW e
  PROVE  /\ e \notin SplitCells(c) => ViaHalves(c, e) = 0
         /\ ViaHalves(c, e) \in Nat
<1>1. e \notin SplitCells(c) => ViaHalves(c, e) = 0
  BY DEF ViaHalves
<1>2. ViaHalves(c, e) = (IF e \in SplitCells(c) THEN 1 ELSE 0) + (IF SplitCells(c) = {e} THEN 1 ELSE 0)
  BY HalvesAre
<1> QED BY <1>1, <1>2

LEMMA RipupViaCounts ==
  ASSUME TypeOK, PlanInv, StampInv, DemandInv, NEW item \in todo, pc = "ripup_vias",
         ViaCell(item[1], item[2])
  PROVE  DemandInv'
<1> DEFINE x == <<item[1], item[2]>>
           W == Segments(Rest)
           V == OwnVias(Rest) \cup (OwnVias(batch) \cap todo')
           U == OwnVias(Rest) \cup (OwnVias(batch) \cap todo)
<1>1. /\ UNCHANGED <<routes, batch, pc>> /\ x \in todo /\ todo' = todo \ {x}
      /\ IF item[2] \in stamped THEN demand' = demand ELSE demand' = AddVia(item[2], -1)
  BY DEF ViaCell, plan
<1>2. x[2] = item[2]
  OBVIOUS
<1> HIDE DEF x
<1>3. /\ x \in ViaCells(batch) /\ x[2] \in Cell
      /\ x \notin OwnVias(batch) => x[2] \in stamped
      /\ \A e : x \in OwnVias(batch) /\ x[2] \in stamped /\ e \in SplitCells(x[2])
                  => ~ Uncrossed(e)
  BY <1>1, OwnOrStamped
<1>4. x \notin V
  BY <1>1, <1>3, NetsSplit
<1>5. IsFiniteSet(W) /\ IsFiniteSet(V) /\ IsFiniteSet(U)
  <2>1. V \in SUBSET OwnVias(Nets) /\ U \in SUBSET OwnVias(Nets)
    BY NetsSplit
  <2>2. IsFiniteSet(W) /\ IsFiniteSet(OwnVias(Nets))
    BY NetsSplit
  <2> QED BY <2>1, <2>2, FS_Subset
<1>6. Counts(demand, W, U)
  BY DEF DemandInv
<1>7. CASE x \in OwnVias(batch)
  <2>1. U = V \cup {x}
    BY <1>1, <1>7
  <2> HIDE DEF U, V, W
  <2>2. \A e \in Cell : Uncrossed(e) => demand[e] \in Nat
    BY <1>5, <1>6, CountsAreNat
  <2>3. ASSUME NEW e \in Cell, Uncrossed(e)
        PROVE  demand'[e] = demand[e] - ViaHalves(x[2], e)
    <3>1. demand[e] \in Nat /\ ViaHalves(x[2], e) \in Nat
          /\ (e \notin SplitCells(x[2]) => ViaHalves(x[2], e) = 0)
      BY <1>3, <2>2, <2>3, NoHalves
    <3>2. CASE x[2] \in stamped
      <4>1. e \notin SplitCells(x[2]) /\ demand' = demand
        BY <1>1, <1>2, <1>3, <1>7, <2>3, <3>2
      <4> QED BY <3>1, <4>1
    <3>3. CASE x[2] \notin stamped
      <4>1. demand'[e] = IF e \in SplitCells(x[2]) THEN demand[e] + (-1) * ViaHalves(x[2], e)
                         ELSE demand[e]
        BY <1>1, <1>2, <3>3 DEF AddVia
      <4> DEFINE h == ViaHalves(x[2], e)
      <4>2. h \in Nat
        BY <3>1
      <4> HIDE DEF h
      <4>3. (-1) * h = - h
        BY <4>2
      <4> QED BY <3>1, <4>1, <4>3 DEF h
    <3> QED BY <3>2, <3>3
  <2>4. Counts(demand', W, V)
    BY <1>3, <1>4, <1>5, <1>6, <2>1, <2>3, ViaGoes
  <2>5. W = Segments(Rest)' /\ V = OwnVias(Rest)' \cup (OwnVias(batch)' \cap todo')
    BY <1>1, SameRoutes DEF W, V
  <2> QED BY <1>1, <2>4, <2>5 DEF DemandInv, Counts
<1>8. CASE x \notin OwnVias(batch)
  <2>1. U = V /\ demand' = demand
    BY <1>1, <1>2, <1>3, <1>8
  <2> HIDE DEF U, V, W
  <2>2. Counts(demand', W, V)
    BY <1>6, <2>1
  <2>3. W = Segments(Rest)' /\ V = OwnVias(Rest)' \cup (OwnVias(batch)' \cap todo')
    BY <1>1, SameRoutes DEF W, V
  <2> QED BY <1>1, <2>2, <2>3 DEF DemandInv, Counts
<1> QED BY <1>7, <1>8

LEMMA CommitViaCounts ==
  ASSUME TypeOK, PlanInv, StampInv, DemandInv, NEW item \in todo, pc = "vias",
         ViaCell(item[1], item[2])
  PROVE  DemandInv'
<1> DEFINE x == <<item[1], item[2]>>
           W == Segments(Nets)
           V == OwnVias(Nets) \ todo
           U == OwnVias(Nets) \ todo'
<1>1. /\ UNCHANGED <<routes, batch, pc>> /\ x \in todo /\ todo' = todo \ {x}
      /\ IF item[2] \in stamped THEN demand' = demand ELSE demand' = AddVia(item[2], 1)
  BY DEF ViaCell, plan
<1>2. x[2] = item[2]
  OBVIOUS
<1> HIDE DEF x
<1>3. /\ x \in ViaCells(batch) /\ x[2] \in Cell
      /\ x \notin OwnVias(batch) => x[2] \in stamped
      /\ \A e : x \in OwnVias(batch) /\ x[2] \in stamped /\ e \in SplitCells(x[2])
                  => ~ Uncrossed(e)
  BY <1>1, OwnOrStamped
<1>4. x \notin V /\ (x \in OwnVias(Nets) <=> x \in OwnVias(batch))
  BY <1>1, <1>3, NetsSplit
<1>5. IsFiniteSet(W) /\ IsFiniteSet(V)
  <2>1. V \in SUBSET OwnVias(Nets)
    OBVIOUS
  <2>2. IsFiniteSet(W) /\ IsFiniteSet(OwnVias(Nets))
    BY NetsSplit
  <2> QED BY <2>1, <2>2, FS_Subset
<1>6. Counts(demand, W, V)
  BY DEF DemandInv
<1>7. CASE x \in OwnVias(batch)
  <2>1. U = V \cup {x}
    BY <1>1, <1>4, <1>7
  <2> HIDE DEF U, V, W
  <2>2. \A e \in Cell : Uncrossed(e) => demand[e] \in Nat
    BY <1>5, <1>6, CountsAreNat
  <2>3. ASSUME NEW e \in Cell, Uncrossed(e)
        PROVE  demand'[e] = demand[e] + ViaHalves(x[2], e)
    <3>1. demand[e] \in Nat /\ ViaHalves(x[2], e) \in Nat
          /\ (e \notin SplitCells(x[2]) => ViaHalves(x[2], e) = 0)
      BY <1>3, <2>2, <2>3, NoHalves
    <3>2. CASE x[2] \in stamped
      <4>1. e \notin SplitCells(x[2]) /\ demand' = demand
        BY <1>1, <1>2, <1>3, <1>7, <2>3, <3>2
      <4> QED BY <3>1, <4>1
    <3>3. CASE x[2] \notin stamped
      <4>1. demand'[e] = IF e \in SplitCells(x[2]) THEN demand[e] + 1 * ViaHalves(x[2], e)
                         ELSE demand[e]
        BY <1>1, <1>2, <3>3 DEF AddVia
      <4> QED BY <3>1, <4>1
    <3> QED BY <3>2, <3>3
  <2>4. Counts(demand', W, U)
    BY <1>3, <1>4, <1>5, <1>6, <2>1, <2>3, ViaComes
  <2>5. W = Segments(Nets)' /\ U = OwnVias(Nets)' \ todo'
    BY <1>1, SameRoutes DEF W, U
  <2> QED BY <1>1, <2>4, <2>5 DEF DemandInv, Counts
<1>8. CASE x \notin OwnVias(batch)
  <2>1. U = V /\ demand' = demand
    BY <1>1, <1>2, <1>3, <1>4, <1>8
  <2> HIDE DEF U, V, W
  <2>2. Counts(demand', W, U)
    BY <1>6, <2>1
  <2>3. W = Segments(Nets)' /\ U = OwnVias(Nets)' \ todo'
    BY <1>1, SameRoutes DEF W, U
  <2> QED BY <1>1, <2>2, <2>3 DEF DemandInv, Counts
<1> QED BY <1>7, <1>8

LEMMA CommitTrackCounts ==
  ASSUME TypeOK, PreInv, DemandInv, NEW t \in Track, CommitTrack(t)
  PROVE  DemandInv'
<1> DEFINE B == Segments(batch)
           D == {x \in B : x[2][1] \notin todo}
           N == {x \in B : x[2][1] \notin todo'}
           T == {x \in B : x[2][1] = t}
           W == Segments(Rest) \cup D
           V == OwnVias(Rest)
<1>1. /\ pc = "commit" /\ pc' = "commit" /\ t \in todo /\ todo' = todo \ {t}
      /\ UNCHANGED <<routes, batch>>
  BY DEF CommitTrack, plan
<1>2. IsFiniteSet(B) /\ \A x \in B : x[2] \in AllWires
  <2>1. batch \in SUBSET Nets
    BY DEF TypeOK
  <2> QED BY <2>1, SegmentParts
<1>3. Counts(demand, W, V)
  BY <1>1 DEF DemandInv
<1>4. D \in SUBSET B /\ T \in SUBSET B /\ D \cap T = {} /\ N = D \cup T
  BY <1>1
<1>5. IsFiniteSet(W) /\ IsFiniteSet(T) /\ IsFiniteSet(V) /\ W \cap T = {}
  <2>1. IsFiniteSet(Segments(Rest)) /\ IsFiniteSet(V) /\ Segments(Rest) \cap B = {}
    BY NetsSplit
  <2>2. IsFiniteSet(D) /\ IsFiniteSet(T)
    BY <1>2, <1>4, FS_Subset
  <2>3. IsFiniteSet(W)
    BY <2>1, <2>2, FS_Union
  <2> QED BY <1>4, <2>1, <2>2, <2>3
<1>6. \A e \in Cell : Uncrossed(e) => demand[e] \in Nat
  <2> HIDE DEF W, V
  <2> QED BY <1>3, <1>5, CountsAreNat
<1>7. ASSUME NEW e \in Cell
      PROVE  /\ e[1] = t => Over(T, e) = Over(B, e)
             /\ e[1] # t => Over(T, e) = {}
  <2>1. ASSUME NEW x \in B, e \in SegmentCells(x[2]) PROVE x[2][1] = e[1]
    <3>1. x[2] \in AllWires
      BY <1>2
    <3> QED BY <2>1, <3>1, SegmentIsListed
  <2> QED BY <2>1 DEF Over
<1>8. ASSUME NEW e \in Cell, Uncrossed(e)
      PROVE  demand'[e] = demand[e] + 2 * Cardinality(Over(T, e))
  <2>1. demand[e] \in Nat /\ Cardinality({}) = 0 /\ e[1] \in Track /\ e[2] \in 0 .. Len1
        /\ e = <<e[1], e[2]>>
    BY <1>6, <1>8, CellParts, FS_EmptySet
  <2>2. CASE incr.commit /\ ~ pre_flag[t]
    <3>1. T = {} /\ demand' = demand
      <4>1. \A x \in B : x[2][1] # t
        BY <1>1, <2>2, Skipped
      <4> QED BY <2>2, <4>1 DEF CommitTrack
    <3>2. Over(T, e) = {}
      BY <3>1 DEF Over
    <3> HIDE DEF T, B
    <3>3. Cardinality(Over(T, e)) = 0
      BY <2>1, <3>2
    <3>4. demand'[e] = demand[e]
      BY <3>1
    <3> QED BY <2>1, <3>3, <3>4
  <2>3. CASE ~ (incr.commit /\ ~ pre_flag[t])
    <3> DEFINE used == UsedEdges(t)
    <3>1. demand'[e] = IF e[1] = t /\ e[2] \in used
                       THEN demand[e] + 2 * pre_demand[<<t, e[2] + 1>>] ELSE demand[e]
      BY <2>3 DEF CommitTrack
    <3>2. /\ \A i \in 0 .. Len1 : i \in used <=> Over(B, <<t, i>>) # {}
          /\ \A i \in used : pre_demand[<<t, i + 1>>] = Cardinality(Over(B, <<t, i>>))
      BY <1>1, UsedAre
    <3> HIDE DEF used, B, T
    <3>3. CASE e[1] # t
      <4>1. Cardinality(Over(T, e)) = 0
        BY <1>7, <2>1, <3>3
      <4>2. demand'[e] = demand[e]
        BY <3>1, <3>3
      <4> QED BY <2>1, <4>1, <4>2
    <3>4. CASE e[1] = t /\ e[2] \in used
      <4>1. pre_demand[<<t, e[2] + 1>>] = Cardinality(Over(B, <<t, e[2]>>))
        BY <3>2, <3>4
      <4>2. Over(T, e) = Over(B, <<t, e[2]>>)
        BY <1>7, <2>1, <3>4
      <4> QED BY <3>1, <3>4, <4>1, <4>2
    <3>5. CASE e[1] = t /\ e[2] \notin used
      <4>1. Over(B, <<t, e[2]>>) = {}
        BY <2>1, <3>2, <3>5
      <4>2. Over(T, e) = {}
        BY <1>7, <2>1, <3>5, <4>1
      <4>3. Cardinality(Over(T, e)) = 0
        BY <2>1, <4>2
      <4>4. demand'[e] = demand[e]
        BY <3>1, <3>5
      <4> QED BY <2>1, <4>3, <4>4
    <3> QED BY <3>3, <3>4, <3>5
  <2> QED BY <2>2, <2>3
<1>9. Segments(Rest) \cup N = W \cup T
  BY <1>4
<1>10. Segments(batch)' = B /\ Segments(Rest)' = Segments(Rest) /\ OwnVias(Rest)' = V
  BY <1>1, SameRoutes
<1>11. Counts(demand', W \cup T, V)
  <2> HIDE DEF W, V, T
  <2> QED BY <1>3, <1>5, <1>8, WiresCome
<1>12. Counts(demand', Segments(Rest)' \cup {x \in Segments(batch)' : x[2][1] \notin todo'},
              OwnVias(Rest)')
  BY <1>9, <1>10, <1>11
<1> QED BY <1>1, <1>12 DEF DemandInv, Counts

LEMMA NextKernelCounts ==
  ASSUME TypeOK, PlanInv, DemandInv, NextKernel
  PROVE  DemandInv'
<1>1. UNCHANGED <<routes, batch, demand>> /\ todo = {}
  BY DEF NextKernel, plan
<1>2. /\ Segments(Nets)' = Segments(Nets) /\ OwnVias(Nets)' = OwnVias(Nets)
      /\ Segments(Rest)' = Segments(Rest) /\ OwnVias(Rest)' = OwnVias(Rest)
      /\ Segments(batch)' = Segments(batch) /\ OwnVias(batch)' = OwnVias(batch)
  BY <1>1, SameRoutes
<1>3. /\ Segments(Nets) = Segments(Rest) \cup Segments(batch)
      /\ OwnVias(Nets) = OwnVias(Rest) \cup OwnVias(batch)
      /\ OwnVias(Rest) \cap ViaCells(batch) = {} /\ OwnVias(batch) \in SUBSET ViaCells(batch)
  BY NetsSplit
<1>4. CASE pc = "ripup_wires" /\ pc' = "ripup_vias" /\ todo' = ViaCells(batch)
  <2>1. /\ Segments(Rest) \cup todo = Segments(Rest)
        /\ OwnVias(Rest) \cup (OwnVias(batch) \cap todo') = OwnVias(Nets)
    BY <1>1, <1>3, <1>4
  <2>2. Counts(demand', Segments(Rest)', OwnVias(Rest)' \cup (OwnVias(batch)' \cap todo'))
    BY <1>1, <1>2, <1>4, <2>1 DEF DemandInv
  <2> QED BY <1>4, <2>2 DEF DemandInv, Counts
<1>5. CASE pc = "ripup_vias" /\ pc' = "update"
  <2>1. OwnVias(Rest) \cup (OwnVias(batch) \cap todo) = OwnVias(Rest)
    BY <1>1
  <2>2. Counts(demand', Segments(Rest)', OwnVias(Rest)')
    BY <1>1, <1>2, <1>5, <2>1 DEF DemandInv
  <2> QED BY <1>5, <2>2 DEF DemandInv, Counts
<1>6. CASE pc = "route" /\ pc' = "scan"
  <2>1. Counts(demand', Segments(Rest)', OwnVias(Rest)')
    BY <1>1, <1>2, <1>6 DEF DemandInv
  <2> QED BY <1>6, <2>1 DEF DemandInv, Counts
<1>7. CASE pc = "scan" /\ pc' = "commit" /\ todo' = Track
  <2>1. Segments(Rest) \cup {x \in Segments(batch) : x[2][1] \notin todo'} = Segments(Rest)
    <3>1. batch \in SUBSET Nets
      BY DEF TypeOK
    <3>2. \A x \in Segments(batch) : x[2][1] \in Track
      BY <3>1, SegmentParts, WireParts
    <3> QED BY <1>7, <3>2
  <2>2. Counts(demand', Segments(Rest)' \cup {x \in Segments(batch)' : x[2][1] \notin todo'},
               OwnVias(Rest)')
    BY <1>1, <1>2, <1>7, <2>1 DEF DemandInv
  <2> QED BY <1>7, <2>2 DEF DemandInv, Counts
<1>8. CASE pc = "commit" /\ pc' = "vias" /\ todo' = ViaCells(batch)
  <2>1. /\ Segments(Rest) \cup {x \in Segments(batch) : x[2][1] \notin todo} = Segments(Nets)
        /\ OwnVias(Nets) \ todo' = OwnVias(Rest)
    BY <1>1, <1>3, <1>8
  <2>2. Counts(demand', Segments(Nets)', OwnVias(Nets)' \ todo')
    BY <1>1, <1>2, <1>8, <2>1 DEF DemandInv
  <2> QED BY <1>8, <2>2 DEF DemandInv, Counts
<1>9. CASE pc = "vias" /\ pc' = "idle"
  <2>1. OwnVias(Nets) \ todo = OwnVias(Nets)
    BY <1>1
  <2>2. Counts(demand', Segments(Nets)', OwnVias(Nets)')
    BY <1>1, <1>2, <1>9, <2>1 DEF DemandInv
  <2> QED BY <1>9, <2>2 DEF DemandInv, Counts
<1> QED BY <1>4, <1>5, <1>6, <1>7, <1>8, <1>9 DEF NextKernel

LEMMA StartBatchCounts ==
  ASSUME TypeOK, TypeOK', PlanInv, DemandInv, StartBatch
  PROVE  DemandInv'
<1>1. UNCHANGED <<routes, demand, stage>> /\ pc = "idle" /\ batch' \in SUBSET waiting
  BY DEF StartBatch
<1>2. PICK m : m = batch'
  OBVIOUS
<1>3. m \in SUBSET Nets /\ m \in SUBSET waiting /\ routes \in AllRoutes
  BY <1>1, <1>2 DEF TypeOK, AllRoutes
<1> DEFINE R == Nets \ m
<1>4. /\ Segments(Nets)' = Segments(Nets) /\ Segments(Rest)' = Segments(R)
      /\ Segments(batch)' = Segments(m)
  BY <1>1, <1>2 DEF Segments, Rest
<1>5. OwnVias(Nets)' = OwnVias(Nets) /\ OwnVias(Rest)' = OwnVias(R)
  BY <1>1, <1>2 DEF OwnVias, ViaCells, Rest
<1>6. /\ Segments(Nets) = Segments(R) \cup Segments(m)
      /\ OwnVias(Nets) = OwnVias(R) \cup OwnVias(m)
  <2>1. Nets = R \cup m
    BY <1>3
  <2> HIDE DEF R
  <2>2. Segments(Nets) = Segments(R) \cup Segments(m)
    BY <2>1 DEF Segments
  <2>3. ViaCells(Nets) = ViaCells(R) \cup ViaCells(m)
    BY <2>1 DEF ViaCells
  <2> QED BY <2>2, <2>3 DEF OwnVias
<1>7. Counts(demand, Segments(Nets), OwnVias(Nets))
  BY <1>1 DEF DemandInv
<1> HIDE DEF R
<1>8. CASE stage = 1
  <2>1. \A n \in m : routes[n] = NoRoute
    BY <1>3, <1>8 DEF PlanInv
  <2>2. Segments(m) = {} /\ OwnVias(m) = {}
    BY <2>1, NoParts, Named
  <2>3. Segments(Nets) = Segments(R) /\ OwnVias(Nets) = OwnVias(R)
    BY <1>6, <2>2
  <2>4. Counts(demand', Segments(Rest)', OwnVias(Rest)')
    BY <1>1, <1>4, <1>5, <1>7, <2>3
  <2>5. pc' = "update"
    BY <1>8 DEF StartBatch
  <2> QED BY <2>4, <2>5 DEF DemandInv, Counts
<1>9. CASE stage # 1
  <2>1. pc' = "ripup_wires" /\ todo' = Segments(m)
    BY <1>2, <1>9 DEF StartBatch
  <2>2. Counts(demand', Segments(Rest)' \cup todo', OwnVias(Nets)')
    BY <1>1, <1>4, <1>5, <1>6, <1>7, <2>1
  <2> QED BY <2>1, <2>2 DEF DemandInv, Counts
<1> QED BY <1>8, <1>9

LEMMA DemandStep ==
  TypeOK /\ TypeOK' /\ PlanInv /\ PreInv /\ StampInv /\ DemandInv /\ [Next]_vars => DemandInv'
<1> SUFFICES ASSUME TypeOK, TypeOK', PlanInv, PreInv, StampInv, DemandInv, [Next]_vars
             PROVE  DemandInv'
  OBVIOUS
<1>1. CASE StartBatch
  BY <1>1, StartBatchCounts
<1>2. CASE NextKernel
  BY <1>2, NextKernelCounts
<1>3. CASE StartStage2
  <2>1. UNCHANGED <<routes, batch, demand, pc>> /\ pc = "idle"
    BY <1>3 DEF StartStage2
  <2>2. Counts(demand', Segments(Nets)', OwnVias(Nets)')
    BY <2>1, SameRoutes DEF DemandInv
  <2> QED BY <2>1, <2>2 DEF DemandInv, Counts
<1>4. CASE UpdateCost \/ ComputePresum \/ FinishRefresh \/ \E t \in Track : ScanTrack(t)
  <2>1. UNCHANGED <<routes, batch, demand>>
        /\ pc \in {"update", "presum", "finish", "scan"}
        /\ pc' \in {"presum", "finish", "route", "scan"}
    BY <1>4 DEF UpdateCost, ComputePresum, FinishRefresh, ScanTrack, plan
  <2>2. Counts(demand', Segments(Rest)', OwnVias(Rest)')
    BY <2>1, SameRoutes DEF DemandInv
  <2> QED BY <2>1, <2>2 DEF DemandInv, Counts
<1>5. ASSUME NEW item \in todo, pc = "ripup_wires" /\ RipupWire(item[1], item[2]) PROVE DemandInv'
  BY <1>5, RipupWireCounts
<1>6. ASSUME NEW item \in todo, pc \in {"ripup_vias", "vias"} /\ ViaCell(item[1], item[2])
      PROVE  DemandInv'
  BY <1>6, RipupViaCounts, CommitViaCounts
<1>7. ASSUME NEW n \in Nets, NEW r \in Routes, RouteNet(n, r) PROVE DemandInv'
  <2>1. pc = "route" /\ pc' = "route" /\ demand' = demand
    BY <1>7 DEF RouteNet
  <2>2. Counts(demand', Segments(Rest)', OwnVias(Rest)')
    BY <1>7, <2>1, RoutedNext DEF DemandInv
  <2> QED BY <2>1, <2>2 DEF DemandInv, Counts
<1>8. ASSUME NEW t \in Track, CommitTrack(t) PROVE DemandInv'
  BY <1>8, CommitTrackCounts
<1>9. CASE UNCHANGED vars
  <2>1. UNCHANGED <<routes, batch, demand, pc, todo>>
    BY <1>9 DEF vars, plan
  <2>2. /\ Segments(Nets)' = Segments(Nets) /\ OwnVias(Nets)' = OwnVias(Nets)
        /\ Segments(Rest)' = Segments(Rest) /\ OwnVias(Rest)' = OwnVias(Rest)
        /\ Segments(batch)' = Segments(batch) /\ OwnVias(batch)' = OwnVias(batch)
    BY <2>1, SameRoutes
  <2> QED BY <2>1, <2>2 DEF DemandInv, Counts
<1> QED BY <1>1, <1>2, <1>3, <1>4, <1>5, <1>6, <1>7, <1>8, <1>9 DEF Next

LEMMA BatchInit == Init => BatchInv
<1> SUFFICES ASSUME Init PROVE BatchInv
  OBVIOUS
<1>1. pc = "idle" /\ batch = {} /\ \A n \in Nets : routes[n] = NoRoute
  BY DEF Init
<1>2. Segments(Nets) = {} /\ OwnVias(Nets) = {}
  BY <1>1, NoParts, Named
<1>3. \A e \in Cell : DemandOf({}, {}, e) = 0
  <2>1. \A e : /\ {x \in {} : e \in SegmentCells(x[2])} = {}
               /\ {x \in {} : e \in SplitCells(x[2])} = {}
               /\ {x \in {} : SplitCells(x[2]) = {e}} = {}
    OBVIOUS
  <2>2. Cardinality({}) = 0
    BY FS_EmptySet
  <2> QED BY <2>1, <2>2 DEF DemandOf
<1>4. DemandInv
  BY <1>1, <1>2, <1>3 DEF Init, DemandInv, Counts
<1>5. PlanInv /\ PreInv /\ StampInv
  BY <1>1 DEF Init, PlanInv, PreInv, StampInv
<1> QED BY <1>4, <1>5 DEF BatchInv

(* What the demand counts at every point of a batch: the wires and via cells  *)
(* of the nets outside it, and of its own those not yet ripped up or already  *)
(* committed; with it what the scratch grid and the stamps hold.              *)
THEOREM BatchInvariance == Spec => [](CostInv /\ ScratchInv /\ BatchInv)
<1>1. Init => CostInv /\ ScratchInv /\ BatchInv
  BY CostInit, BatchInit
<1>2. CostInv /\ ScratchInv /\ BatchInv /\ [Next]_vars => (CostInv /\ ScratchInv /\ BatchInv)'
  <2> SUFFICES ASSUME CostInv, ScratchInv, BatchInv, [Next]_vars
               PROVE  (CostInv /\ ScratchInv /\ BatchInv)'
    OBVIOUS
  <2>1. CostInv' /\ ScratchInv'
    BY CostStep, ScratchStep
  <2>2. TypeOK /\ TypeOK' /\ PlanInv /\ PreInv /\ StampInv /\ DemandInv
    BY <2>1 DEF CostInv, BatchInv
  <2>3. PlanInv' /\ PreInv' /\ StampInv' /\ DemandInv'
    BY <2>2, PlanStep, PreStep, StampStep, DemandStep
  <2> QED BY <2>1, <2>3 DEF BatchInv
<1> QED BY <1>1, <1>2, PTL DEF Spec

LEMMA BatchInvGives == CostInv /\ ScratchInv /\ BatchInv => DemandMatchesRoutes
<1> SUFFICES ASSUME CostInv, ScratchInv, BatchInv, pc = "idle"
             PROVE  /\ \A e \in Cell :
                         /\ Uncrossed(e) => demand[e] = DemandOf(Segments(Nets), OwnVias(Nets), e)
                         /\ pre_demand[e] = 0
                    /\ incr.commit => \A t \in Track : ~ pre_flag[t]
  BY DEF DemandMatchesRoutes
<1>1. Counts(demand, Segments(Nets), OwnVias(Nets))
  BY DEF BatchInv, DemandInv
<1>2. \A t \in Track : TrackIsClear(t) /\ (incr.commit => ~ pre_flag[t])
  BY DEF ScratchInv
<1>3. ASSUME NEW c \in Cell PROVE pre_demand[c] = 0
  <2>1. c[1] \in Track /\ c[2] \in 0 .. Len1 /\ c = <<c[1], c[2]>>
    BY CellParts
  <2>2. pre_demand[<<c[1], c[2]>>] = 0
    BY <1>2, <2>1 DEF TrackIsClear
  <2> QED BY <2>1, <2>2
<1> QED BY <1>1, <1>2, <1>3 DEF Counts

(* Between batches of either stage the demand of every edge on which no via   *)
(* stands on another route's wire is what the current routes put there, and   *)
(* the scratch grid is zero and unflagged: a rip-up takes back exactly what   *)
(* the commit of an earlier batch added, for every number of nets, tracks and *)
(* routes and in whatever order the kernels' items run (DemandMatchesRoutes). *)
THEOREM DemandIsConserved == Spec => []DemandMatchesRoutes
  BY BatchInvariance, BatchInvGives, PTL

(* Not in the middle of a rip-up either does such an edge's demand go below   *)
(* zero: DemandNonNegative, which cost_refresh_drift violates, fails only     *)
(* where a via stands on another route's wire.                                *)
THEOREM UncrossedNonNegative ==
  ASSUME \A e \in Cell : Uncrossed(e)
  PROVE  Spec => []DemandNonNegative
<1>1. CostInv /\ ScratchInv /\ BatchInv => DemandNonNegative
  <2> SUFFICES ASSUME TypeOK, PlanInv, DemandInv, NEW e \in Cell PROVE demand[e] >= 0
    BY DEF CostInv, BatchInv, DemandNonNegative
  <2>1. PICK W, V : IsFiniteSet(W) /\ IsFiniteSet(V) /\ Counts(demand, W, V)
    <3> DEFINE B == Segments(batch)
               N == Segments(Nets)
               O == OwnVias(Nets)
    <3>1. /\ IsFiniteSet(N) /\ IsFiniteSet(O)
          /\ N = Segments(Rest) \cup B /\ O = OwnVias(Rest) \cup OwnVias(batch)
      BY NetsSplit
    <3>2. \A S : S \subseteq N => IsFiniteSet(S)
      BY <3>1, FS_Subset
    <3>3. \A S : S \subseteq O => IsFiniteSet(S)
      BY <3>1, FS_Subset
    <3>4. CASE pc \in {"idle", "vias"}
      <4>1. O \ todo \subseteq O
        OBVIOUS
      <4> QED BY <3>1, <3>3, <3>4, <4>1 DEF DemandInv
    <3>5. CASE pc = "ripup_wires"
      <4>1. Segments(Rest) \cup todo \subseteq N
        BY <3>1, <3>5 DEF PlanInv
      <4> QED BY <3>1, <3>2, <3>5, <4>1 DEF DemandInv
    <3>6. CASE pc = "ripup_vias"
      <4>1. Segments(Rest) \subseteq N /\ OwnVias(Rest) \cup (OwnVias(batch) \cap todo) \subseteq O
        BY <3>1
      <4> QED BY <3>2, <3>3, <3>6, <4>1 DEF DemandInv
    <3>7. CASE pc \in {"update", "presum", "finish", "route", "scan"}
      <4>1. Segments(Rest) \subseteq N /\ OwnVias(Rest) \subseteq O
        BY <3>1
      <4> QED BY <3>2, <3>3, <3>7, <4>1 DEF DemandInv
    <3>8. CASE pc = "commit"
      <4>1. /\ Segments(Rest) \cup {x \in B : x[2][1] \notin todo} \subseteq N
            /\ OwnVias(Rest) \subseteq O
        BY <3>1
      <4> QED BY <3>2, <3>3, <3>8, <4>1 DEF DemandInv
    <3> QED BY <3>4, <3>5, <3>6, <3>7, <3>8 DEF TypeOK, Kernels
  <2>2. demand[e] \in Nat
    BY <2>1, CountsAreNat
  <2> QED BY <2>2
<1> QED BY <1>1, BatchInvariance, PTL
=============================================================================
