---------------------------- MODULE BatchGen_proofs ----------------------------
(***************************************************************************)
(* Proofs about BatchGen: type correctness and conflict-freedom, every     *)
(* round places a net, no batch is too large or empty, placement is first  *)
(* fit, and the kernels implement BatchPartition, for every number of      *)
(* nets, grid, footprints, ring size and wavefront bounds.                 *)
(***************************************************************************)
EXTENDS BatchGen, FiniteSetTheorems, WellFoundedInduction, TLAPS

(* Two batches open at the same time never share a ring slot: the batch       *)
(* number modulo the ring size indexes slot_maps and slot_size.               *)
LEMMA SlotType == ASSUME NEW b \in Nat PROVE Slot(b) \in 0 .. Ring - 1
  BY SizesAssumption DEF Slot

LEMMA SlotInjective ==
  ASSUME NEW a \in Nat, NEW b \in Nat, a < b, b < a + Ring
  PROVE  Slot(a) # Slot(b)
<1> DEFINE q == b \div Ring - a \div Ring
<1>1. a = Ring * (a \div Ring) + (a % Ring) /\ a \div Ring \in Int
  BY SizesAssumption
<1>2. b = Ring * (b \div Ring) + (b % Ring) /\ b \div Ring \in Int
  BY SizesAssumption
<1>3. SUFFICES ASSUME a % Ring = b % Ring PROVE FALSE
  BY DEF Slot
<1>4. q \in Int /\ b - a = Ring * q
  BY <1>1, <1>2, <1>3, SizesAssumption
<1>5. q <= 0 => Ring * q <= 0
  BY <1>4, SizesAssumption
<1>6. q >= 1 => Ring * q >= Ring
  BY <1>4, SizesAssumption
<1> QED BY <1>4, <1>5, <1>6, SizesAssumption

(* The wavefront is a prefix of the list it is cut from.                      *)
LEMMA PrefixIsPrefix ==
  ASSUME NEW S \in SUBSET Net, NEW k \in Nat
  PROVE  /\ Prefix(S, k) \subseteq S
         /\ \A m \in S, n \in Prefix(S, k) : m < n => m \in Prefix(S, k)
<1>1. Prefix(S, k) \subseteq S
  BY DEF Prefix
<1>2. ASSUME NEW m \in S, NEW n \in Prefix(S, k), m < n
      PROVE  m \in Prefix(S, k)
  <2> DEFINE Before(i) == {j \in S : j < i}
  <2>1. IsFiniteSet(Net)
    BY FS_Interval, SizesAssumption DEF Net
  <2>2. IsFiniteSet(Before(n))
    BY <2>1, FS_Subset
  <2>3. Before(m) \subseteq Before(n)
    <3>1. \A i \in S : i \in Int
      BY SizesAssumption DEF Net
    <3>2. n \in S /\ m \in S
      BY <1>1, <1>2
    <3>3. ASSUME NEW j \in S, j < m PROVE j < n
      BY <1>2, <3>1, <3>2, <3>3
    <3> QED BY <3>3
  <2>4. Cardinality(Before(m)) <= Cardinality(Before(n))
    BY <2>2, <2>3, FS_Subset
  <2>5. Cardinality(Before(m)) \in Nat /\ Cardinality(Before(n)) \in Nat
    BY <2>2, <2>3, FS_Subset, FS_CardinalityType
  <2>6. Cardinality(Before(n)) < k
    BY <1>2 DEF Prefix
  <2> QED BY <2>4, <2>5, <2>6 DEF Prefix
<1> QED BY <1>1, <1>2
-----------------------------------------------------------------------------
(* The initial state.                                                         *)
LEMMA InitInv == Init => KernelInv
<1> SUFFICES ASSUME Init PROVE KernelInv
  OBVIOUS
<1>1. wavefront \in Nat \ {0}
  BY SizesAssumption DEF Init, MinOf
<1>2. /\ active \subseteq Net
      /\ \A m \in Net, n \in active : m < n => m \in active
  BY <1>1, PrefixIsPrefix DEF Init
<1>3. TypeOK
  BY <1>1, <1>2, SizesAssumption DEF Init, TypeOK, NextKernel, kEmpty, Net
<1>4. \A n \in Net : ~Placed(n)
  BY DEF Init, Placed
<1>5. WavefrontIsPrefix
  BY <1>2, <1>4 DEF Init, WavefrontIsPrefix
<1>6. StatusAgrees
  BY <1>2, <1>4 DEF Init, StatusAgrees
<1>7. PicksAreFree
  BY <1>4 DEF Init, PicksAreFree, Handled
<1>8. OwnersAreBest
  BY DEF Init, OwnersAreBest
<1>9. MarksAreStamped /\ NoOvertaking /\ ConflictFree
  BY <1>4 DEF MarksAreStamped, NoOvertaking, ConflictFree
<1> QED BY <1>3, <1>5, <1>6, <1>7, <1>8, <1>9 DEF KernelInv

-----------------------------------------------------------------------------
(* The kernels.                                                               *)
LEMMA PickPreserves ==
  ASSUME KernelInv, NEW n \in Net, PickNet(n)
  PROVE  KernelInv'
<1>1. /\ pc = "pick" /\ n \in todo /\ todo' = todo \ {n}
      /\ UNCHANGED <<footprint, pc, pending, active, wavefront, slot_base, live_cnt,
                     stalled, batch_count, slot_maps, slot_size, owner, batch_of_net,
                     status>>
  BY DEF PickNet, host
<1>2. TypeOK
  BY DEF KernelInv
<1>3. slot_base \in Nat /\ live_cnt \in Nat /\ Newest \in Int /\ Newest + 1 \in Nat
  BY <1>2, SizesAssumption DEF TypeOK, Newest
<1>4. \A b \in Acceptable(n) :
        b \in Nat /\ b \in Live /\ Points(n) \cap slot_maps[Slot(b)] = {}
  BY <1>2, <1>3 DEF Acceptable, Fits, MaxOf, Live, TypeOK
<1>5. PICK b \in Nat \cup {-1}, from \in Nat :
        /\ pick' = [pick EXCEPT ![n] = b] /\ scan_from' = [scan_from EXCEPT ![n] = from]
        /\ b = -1 \/ (b \in Live /\ Points(n) \cap slot_maps[Slot(b)] = {})
  <2>1. CASE Acceptable(n) = {}
    BY <2>1, <1>3 DEF PickNet
  <2>2. CASE Acceptable(n) # {}
    BY <2>2, <1>4 DEF PickNet
  <2> QED BY <2>1, <2>2
<1>6. TypeOK'
  BY <1>1, <1>2, <1>5 DEF TypeOK
<1>7. WavefrontIsPrefix'
  BY <1>1 DEF KernelInv, WavefrontIsPrefix, Placed
<1>8. StatusAgrees'
  BY <1>1 DEF KernelInv, StatusAgrees, Placed
<1>9. PicksAreFree'
  BY <1>1, <1>2, <1>5
     DEF KernelInv, PicksAreFree, Placed, Newest, Live, Points, Handled, TypeOK
<1>10. OwnersAreBest'
  BY <1>1 DEF KernelInv, OwnersAreBest
<1>11. MarksAreStamped'
  BY <1>1 DEF KernelInv, MarksAreStamped, Placed, Live, Newest, Marks
<1>12. NoOvertaking' /\ ConflictFree'
  BY <1>1 DEF KernelInv, NoOvertaking, ConflictFree, Placed, Marks, Points
<1> QED BY <1>6, <1>7, <1>8, <1>9, <1>10, <1>11, <1>12 DEF KernelInv

LEMMA CommitPreserves ==
  ASSUME KernelInv, NEW n \in Net, CommitNet(n)
  PROVE  KernelInv'
<1>1. /\ pc = "commit" /\ n \in todo /\ todo' = todo \ {n}
      /\ owner' = [p \in Cell |-> IF p \in Marks(n) THEN MinOf(owner[p], n) ELSE owner[p]]
      /\ UNCHANGED <<footprint, pc, pending, active, wavefront, slot_base, live_cnt,
                     stalled, batch_count, slot_maps, slot_size, batch_of_net,
                     scan_from, pick, status>>
  BY DEF CommitNet, host
<1>2. TypeOK
  BY DEF KernelInv
<1>3. \A m \in Net : Marks(m) \subseteq Cell
  BY <1>2, FootprintAssumption DEF TypeOK, Marks
<1>4. TypeOK'
  BY <1>1, <1>2 DEF TypeOK, MinOf
<1>5. WavefrontIsPrefix' /\ StatusAgrees'
  BY <1>1 DEF KernelInv, WavefrontIsPrefix, StatusAgrees, Placed
<1>6. PicksAreFree'
  BY <1>1 DEF KernelInv, PicksAreFree, Placed, Newest, Live, Points
<1>7. OwnersAreBest'
  <2> SUFFICES ASSUME NEW m \in active, m \in Handled', NEW p \in Marks(m)
               PROVE  owner'[p] <= m
    BY <1>1 DEF OwnersAreBest, Marks
  <2>1. m \in Net /\ p \in Cell /\ owner[p] \in Int /\ owner'[p] = IF p \in Marks(n) THEN MinOf(owner[p], n) ELSE owner[p]
    BY <1>1, <1>2, <1>3, SizesAssumption DEF TypeOK, Net, kEmpty
  <2>2. CASE m = n
    BY <2>1, <2>2 DEF MinOf, Net
  <2>3. CASE m # n
    <3>1. owner[p] <= m
      BY <1>1, <2>3 DEF KernelInv, OwnersAreBest, Handled
    <3> QED BY <3>1, <2>1 DEF MinOf, Net
  <2> QED BY <2>2, <2>3
<1>8. MarksAreStamped'
  BY <1>1 DEF KernelInv, MarksAreStamped, Placed, Live, Newest, Marks
<1>9. NoOvertaking' /\ ConflictFree'
  BY <1>1 DEF KernelInv, NoOvertaking, ConflictFree, Placed, Marks, Points
<1> QED BY <1>4, <1>5, <1>6, <1>7, <1>8, <1>9 DEF KernelInv
(* The step that places a net.  A net that owns its points meets no mark of a  *)
(* better net in flight; better unplaced nets are all in flight; and the bitmap*)
(* the pick tested holds the marks of every member from earlier rounds.        *)
LEMMA CheckPreserves ==
  ASSUME KernelInv, NEW n \in Net, CheckNet(n)
  PROVE  KernelInv'
<1> DEFINE slot   == Slot(pick[n])
           clean  == OwnsItsPoints(n) /\ pick[n] >= 0
           placed == clean /\ HasRoom(slot)
<1>1. /\ pc = "check" /\ n \in todo /\ todo' = todo \ {n}
      /\ slot_size' = IF clean THEN [slot_size EXCEPT ![slot] = @ + 1] ELSE slot_size
      /\ batch_of_net' = IF placed THEN [batch_of_net EXCEPT ![n] = pick[n]]
                                   ELSE batch_of_net
      /\ status' = [status EXCEPT ![n] = IF placed THEN "assigned" ELSE "active"]
      /\ UNCHANGED <<footprint, pc, pending, active, wavefront, slot_base, live_cnt,
                     stalled, batch_count, slot_maps, owner, scan_from, pick>>
  BY DEF CheckNet, host
<1> HIDE DEF slot, clean, placed
<1>2. TypeOK
  BY DEF KernelInv
<1>3. n \in active /\ n \in pending /\ pick[n] \in Int /\ batch_of_net \in [Net -> Int]
  BY <1>1, <1>2 DEF TypeOK
<1>4. ~Placed(n)
  BY <1>1, <1>3 DEF KernelInv, StatusAgrees
<1>5. placed => /\ \A p \in Points(n) : owner[p] = n
                /\ pick[n] >= 0 /\ pick[n] \in Live
                /\ Points(n) \cap slot_maps[Slot(pick[n])] = {}
  BY <1>1, <1>3 DEF placed, clean, OwnsItsPoints, KernelInv, PicksAreFree
<1>6. \A m \in Net : /\ m # n => batch_of_net'[m] = batch_of_net[m] /\ status'[m] = status[m]
                     /\ placed => batch_of_net'[n] = pick[n] /\ status'[n] = "assigned"
                     /\ ~placed => batch_of_net'[n] = batch_of_net[n] /\ status'[n] = "active"
  BY <1>1, <1>2, <1>3 DEF TypeOK
<1>7. \A m \in Net : m # n => (Placed(m)' <=> Placed(m))
  BY <1>6 DEF Placed
<1>8. Placed(n)' <=> placed
  BY <1>4, <1>5, <1>6 DEF Placed
<1>9. \A a \in active : \A p \in Marks(a) : owner[p] <= a
  BY <1>1 DEF KernelInv, OwnersAreBest
<1>10. ASSUME placed, NEW a \in active, a < n
       PROVE  Marks(a) \cap Points(n) = {}
  <2>1. a \in Int /\ n \in Int
    BY <1>2 DEF TypeOK, Net
  <2>2. ASSUME NEW p \in Marks(a), p \in Points(n) PROVE FALSE
    <3>1. owner[p] = n
      BY <1>5, <1>10, <2>2
    <3>2. owner[p] <= a
      BY <1>9, <2>2
    <3> QED BY <1>10, <2>1, <3>1, <3>2
  <2> QED BY <2>2
<1>11. TypeOK'
  <2>1. slot_size' \in [0 .. Ring - 1 -> Nat]
    <3>1. slot_size \in [0 .. Ring - 1 -> Nat]
      BY <1>2 DEF TypeOK
    <3>2. CASE clean
      <4>1. slot \in 0 .. Ring - 1
        BY <3>2, <1>3, SlotType DEF slot, clean
      <4>2. slot_size' = [slot_size EXCEPT ![slot] = slot_size[slot] + 1]
        BY <3>2, <1>1
      <4>3. slot_size[slot] + 1 \in Nat
        BY <3>1, <4>1
      <4> QED BY <3>1, <4>1, <4>2, <4>3
    <3>3. CASE ~clean
      BY <3>1, <3>3, <1>1
    <3> QED BY <3>2, <3>3
  <2> QED BY <1>1, <1>2, <1>3, <2>1 DEF TypeOK
<1>12. WavefrontIsPrefix'
  BY <1>1, <1>3, <1>7, <1>2 DEF KernelInv, WavefrontIsPrefix, TypeOK
<1>13. StatusAgrees'
  <2> SUFFICES ASSUME NEW m \in active
               PROVE /\ m \in todo' => ~Placed(m)'
                     /\ m \in Handled' => /\ Placed(m)' <=> status'[m] = "assigned"
                                          /\ Placed(m)' => batch_of_net'[m] = pick[m]
    BY <1>1 DEF StatusAgrees
  <2>1. CASE m = n
    BY <2>1, <1>1, <1>3, <1>6, <1>8
  <2>2. CASE m # n
    BY <2>2, <1>1, <1>2, <1>6, <1>7 DEF KernelInv, StatusAgrees, Handled, TypeOK
  <2> QED BY <2>1, <2>2
<1>14. PicksAreFree'
  <2>1. \A m \in Net : Placed(m)' => batch_of_net'[m] <= Newest'
    <3> SUFFICES ASSUME NEW m \in Net, Placed(m)' PROVE batch_of_net'[m] <= Newest'
      OBVIOUS
    <3>1. CASE m = n
      BY <3>1, <1>1, <1>3, <1>5, <1>6, <1>8, <1>2 DEF Live, Newest, TypeOK
    <3>2. CASE m # n
      BY <3>2, <1>1, <1>6, <1>7 DEF KernelInv, PicksAreFree, Newest
    <3> QED BY <3>1, <3>2
  <2>2. \A m \in active : m \in todo' =>
          pick[m] = -1 \/ (pick[m] \in Live /\ Points(m) \cap slot_maps[Slot(pick[m])] = {})
    BY <1>1 DEF KernelInv, PicksAreFree
  <2> QED BY <2>1, <2>2, <1>1 DEF PicksAreFree, Live, Newest, Points
<1>15. OwnersAreBest'
  BY <1>1, <1>9 DEF OwnersAreBest, Marks
<1>16. MarksAreStamped'
  BY <1>1, <1>3, <1>6, <1>7 DEF KernelInv, MarksAreStamped, Live, Newest, Marks
<1>17. NoOvertaking'
  <2> SUFFICES ASSUME NEW a \in Net, NEW c \in Net, a < c, ~Placed(a)', Placed(c)'
               PROVE  Marks(a) \cap Points(c) = {}
    BY <1>1 DEF NoOvertaking, Marks, Points
  <2>1. ~Placed(a)
    BY <1>4, <1>7
  <2>2. CASE c = n
    <3>1. a \in active
      BY <2>1, <2>2, <1>3 DEF KernelInv, WavefrontIsPrefix
    <3> QED BY <3>1, <2>2, <1>8, <1>10
  <2>3. CASE c # n
    BY <2>1, <2>3, <1>7 DEF KernelInv, NoOvertaking
  <2> QED BY <2>2, <2>3
<1>18. ConflictFree'
  <2> SUFFICES ASSUME NEW a \in Net, NEW c \in Net, a < c, Placed(a)',
                      batch_of_net'[a] = batch_of_net'[c]
               PROVE  Marks(a) \cap Points(c) = {}
    BY <1>1 DEF ConflictFree, Marks, Points
  <2>1. Placed(c)' /\ a # c
    BY DEF Placed, Net
  <2>2. CASE a # n /\ c # n
    BY <2>2, <1>6, <1>7 DEF KernelInv, ConflictFree
  <2>3. CASE a = n
    BY <2>1, <2>3, <1>4, <1>7 DEF KernelInv, NoOvertaking
  <2>4. CASE c = n
    <3>1. placed /\ Placed(a) /\ batch_of_net[a] = pick[n]
      BY <2>1, <2>4, <1>6, <1>7, <1>8
    <3>2. CASE a \in active
      BY <3>1, <3>2, <2>4, <1>10
    <3>3. CASE a \notin active
      <4>1. Marks(a) \subseteq slot_maps[Slot(pick[n])]
        BY <3>1, <3>3, <1>5 DEF KernelInv, MarksAreStamped
      <4> QED BY <4>1, <3>1, <2>4, <1>5
    <3> QED BY <3>2, <3>3
  <2> QED BY <2>2, <2>3, <2>4
<1> QED BY <1>11, <1>12, <1>13, <1>14, <1>15, <1>16, <1>17, <1>18 DEF KernelInv

LEMMA StampPreserves ==
  ASSUME KernelInv, NEW n \in Net, StampNet(n)
  PROVE  KernelInv'
<1>1. /\ pc = "stamp" /\ n \in todo /\ todo' = todo \ {n}
      /\ slot_maps' = IF status[n] = "assigned"
                      THEN [slot_maps EXCEPT ![Slot(pick[n])] = @ \cup Marks(n)]
                      ELSE slot_maps
      /\ UNCHANGED <<footprint, pc, pending, active, wavefront, slot_base, live_cnt,
                     stalled, batch_count, slot_size, owner, batch_of_net, scan_from,
                     pick, status>>
  BY DEF StampNet, host
<1>2. TypeOK
  BY DEF KernelInv
<1>3. n \in active
  BY <1>1, <1>2 DEF TypeOK
<1>4. \A m \in Net : Marks(m) \subseteq Cell
  BY <1>2, FootprintAssumption DEF TypeOK, Marks
<1>5. TypeOK'
  <2>1. slot_maps' \in [0 .. Ring - 1 -> SUBSET Cell]
    BY <1>1, <1>2, <1>4 DEF TypeOK
  <2> QED BY <1>1, <1>2, <2>1 DEF TypeOK
<1>6. WavefrontIsPrefix' /\ StatusAgrees'
  BY <1>1, <1>2 DEF KernelInv, WavefrontIsPrefix, StatusAgrees, Placed, Handled
<1>7. PicksAreFree' /\ OwnersAreBest'
  BY <1>1 DEF KernelInv, PicksAreFree, OwnersAreBest, Placed, Newest
<1>8. MarksAreStamped'
  <2> SUFFICES ASSUME NEW m \in Net, Placed(m), batch_of_net[m] \in Live,
                      m \notin active \/ m \in Handled'
               PROVE  Marks(m) \subseteq slot_maps'[Slot(batch_of_net[m])]
    BY <1>1 DEF MarksAreStamped, Placed, Live, Newest, Marks
  <2>1. Slot(batch_of_net[m]) \in 0 .. Ring - 1
    BY <1>2, SlotType DEF Live, TypeOK
  <2>2. slot_maps[Slot(batch_of_net[m])] \subseteq slot_maps'[Slot(batch_of_net[m])]
    BY <1>1, <1>2, <2>1 DEF TypeOK
  <2>3. CASE m = n
    <3>1. status[n] = "assigned" /\ batch_of_net[n] = pick[n]
      BY <1>1, <1>3, <2>3 DEF KernelInv, StatusAgrees
    <3> QED BY <1>1, <1>2, <2>1, <2>3, <3>1 DEF TypeOK
  <2>4. CASE m # n
    <3>1. Marks(m) \subseteq slot_maps[Slot(batch_of_net[m])]
      BY <1>1, <2>4 DEF KernelInv, MarksAreStamped, Handled
    <3> QED BY <2>2, <3>1
  <2> QED BY <2>3, <2>4
<1>9. NoOvertaking' /\ ConflictFree'
  BY <1>1 DEF KernelInv, NoOvertaking, ConflictFree, Placed, Marks, Points
<1> QED BY <1>5, <1>6, <1>7, <1>8, <1>9 DEF KernelInv

LEMMA ReleasePreserves ==
  ASSUME KernelInv, NEW n \in Net, ReleaseNet(n)
  PROVE  KernelInv'
<1>1. /\ pc = "release" /\ n \in todo /\ todo' = todo \ {n}
      /\ owner' = [p \in Cell |-> IF p \in Marks(n) /\ owner[p] = n
                                  THEN kEmpty ELSE owner[p]]
      /\ UNCHANGED <<footprint, pc, pending, active, wavefront, slot_base, live_cnt,
                     stalled, batch_count, slot_maps, slot_size, batch_of_net,
                     scan_from, pick, status>>
  BY DEF ReleaseNet, host
<1>2. TypeOK'
  BY <1>1 DEF KernelInv, TypeOK
<1>3. WavefrontIsPrefix' /\ StatusAgrees'
  BY <1>1 DEF KernelInv, WavefrontIsPrefix, StatusAgrees, Placed
<1>4. PicksAreFree' /\ OwnersAreBest'
  BY <1>1 DEF KernelInv, PicksAreFree, OwnersAreBest, Placed, Newest
<1>5. MarksAreStamped'
  BY <1>1 DEF KernelInv, MarksAreStamped, Placed, Live, Newest, Marks
<1>6. NoOvertaking' /\ ConflictFree'
  BY <1>1 DEF KernelInv, NoOvertaking, ConflictFree, Placed, Marks, Points
<1> QED BY <1>2, <1>3, <1>4, <1>5, <1>6 DEF KernelInv
-----------------------------------------------------------------------------
(* The barriers between kernels, and the host's end of a round.               *)
LEMMA LaunchPreserves ==
  ASSUME KernelInv, Launch
  PROVE  KernelInv'
<1>1. /\ pc \in {"pick", "commit", "check", "stamp", "release"} /\ todo = {}
      /\ pc' = NextKernel[pc]
      /\ todo' = IF pc = "release" THEN {} ELSE active
      /\ UNCHANGED <<footprint, pending, active, wavefront, slot_base, live_cnt,
                     stalled, batch_count, slot_maps, slot_size, owner, batch_of_net,
                     scan_from, pick, status>>
  BY DEF Launch, device, host, NextKernel
<1>2. /\ pc = "pick" => pc' = "commit"
      /\ pc = "commit" => pc' = "check"
      /\ pc = "check" => pc' = "stamp"
      /\ pc = "stamp" => pc' = "release"
      /\ pc = "release" => pc' = "host"
  BY <1>1 DEF NextKernel
<1>3. TypeOK'
  <2>1. pc' \in (DOMAIN NextKernel) \cup {"host", "done", "failed"}
    BY <1>1, <1>2 DEF NextKernel
  <2>2. todo' \subseteq active'
    BY <1>1
  <2> QED BY <1>1, <2>1, <2>2 DEF KernelInv, TypeOK
<1>4. WavefrontIsPrefix'
  BY <1>1 DEF KernelInv, WavefrontIsPrefix, Placed
<1>5. StatusAgrees'
  BY <1>1, <1>2 DEF KernelInv, StatusAgrees, Placed, Handled
<1>6. PicksAreFree'
  BY <1>1, <1>2 DEF KernelInv, PicksAreFree, Placed, Newest, Live, Points, Handled
<1>7. OwnersAreBest'
  BY <1>1, <1>2 DEF KernelInv, OwnersAreBest, Handled, Marks
<1>8. MarksAreStamped'
  BY <1>1, <1>2 DEF KernelInv, MarksAreStamped, Placed, Live, Newest, Marks, Handled
<1>9. NoOvertaking' /\ ConflictFree'
  BY <1>1 DEF KernelInv, NoOvertaking, ConflictFree, Placed, Marks, Points
<1> QED BY <1>3, <1>4, <1>5, <1>6, <1>7, <1>8, <1>9 DEF KernelInv

(* Opening a batch clears the slot of no batch that stays open.               *)
LEMMA EndRoundPreserves ==
  ASSUME KernelInv, EndRound
  PROVE  KernelInv'
<1> DEFINE kept     == {n \in active : status[n] = "active"}
           assigned == Cardinality(active) - Cardinality(kept)
           rest     == kept \cup (pending \ active)
<1>1. /\ pc = "host"
      /\ stalled' = IF assigned = 0 THEN stalled + 1 ELSE 0
      /\ pending' = rest
      /\ wavefront' = Retune(assigned)
      /\ active' = Prefix(rest, wavefront')
      /\ pc' \in {"failed", "done", "pick"}
      /\ todo' = active'
      /\ \/ OpenBatch
         \/ UNCHANGED <<slot_base, live_cnt, slot_maps, slot_size>>
      /\ batch_count' = IF pc' = "done" THEN BatchTotal ELSE -1
      /\ UNCHANGED <<footprint, owner, batch_of_net, scan_from, pick, status>>
  BY DEF EndRound
<1>2. TypeOK
  BY DEF KernelInv
<1>3. assigned \in Int
  <2>1. IsFiniteSet(Net)
    BY FS_Interval, SizesAssumption DEF Net
  <2>2. active \in SUBSET Net /\ kept \in SUBSET Net
    BY <1>2 DEF TypeOK
  <2>3. IsFiniteSet(active) /\ IsFiniteSet(kept)
    BY <2>1, <2>2, FS_Subset
  <2>4. Cardinality(active) \in Nat /\ Cardinality(kept) \in Nat
    BY <2>3, FS_CardinalityType
  <2> QED BY <2>4
<1>4. \A n \in rest : n \in pending /\ ~Placed(n)
  BY <1>1, <1>2 DEF KernelInv, StatusAgrees, WavefrontIsPrefix, TypeOK
<1>5. \A n \in Net : ~Placed(n) => n \in rest
  BY <1>1 DEF KernelInv, StatusAgrees, WavefrontIsPrefix, TypeOK
<1> HIDE DEF kept, assigned, rest
<1>6. rest \in SUBSET Net
  BY <1>4, <1>2 DEF TypeOK
<1>7. wavefront' \in Nat \ {0}
  <2>1. wavefront \in Nat \ {0} /\ wavefront \div 2 \in Int
    BY <1>2 DEF TypeOK
  <2>2. wavefront_cap \in Nat \ {0}
    BY SizesAssumption DEF wavefront_cap, MinOf
  <2> QED BY <1>1, <1>3, <2>1, <2>2, SizesAssumption DEF Retune, MinOf, MaxOf
<1>8. /\ active' \subseteq rest
      /\ \A m \in rest, n \in active' : m < n => m \in active'
  BY <1>1, <1>6, <1>7, PrefixIsPrefix
<1>9. /\ slot_base' \in Nat /\ live_cnt' \in 1 .. Ring
      /\ slot_base' >= slot_base /\ Newest' >= Newest
      /\ slot_maps' \in [0 .. Ring - 1 -> SUBSET Cell]
      /\ slot_size' \in [0 .. Ring - 1 -> Nat]
  <2>1. CASE OpenBatch
    <3>1. slot_base' \in Nat /\ live_cnt' \in 1 .. Ring
      BY <2>1, <1>2, SizesAssumption DEF TypeOK, OpenBatch
    <3>2. slot_base' >= slot_base /\ Newest' >= Newest
      BY <2>1, <1>2, SizesAssumption DEF TypeOK, OpenBatch, Newest
    <3>3. slot_maps' \in [0 .. Ring - 1 -> SUBSET Cell]
      BY <2>1, <1>2 DEF TypeOK, OpenBatch
    <3>4. slot_size' \in [0 .. Ring - 1 -> Nat]
      BY <2>1, <1>2 DEF TypeOK, OpenBatch
    <3> QED BY <3>1, <3>2, <3>3, <3>4
  <2>2. CASE UNCHANGED <<slot_base, live_cnt, slot_maps, slot_size>>
    <3>1. slot_base \in Nat /\ live_cnt \in 1 .. Ring /\ Newest' = Newest /\ Newest \in Int
      BY <2>2, <1>2, SizesAssumption DEF TypeOK, Newest
    <3> QED BY <2>2, <3>1, <1>2 DEF TypeOK
  <2> QED BY <1>1, <2>1, <2>2
<1>10. TypeOK'
  <2>1. stalled' \in Nat /\ batch_count' \in Int
    <3>1. stalled' \in Nat
      BY <1>1, <1>2 DEF TypeOK
    <3>2. BatchTotal \in Int
      BY <1>2, SizesAssumption DEF TypeOK, BatchTotal
    <3> QED BY <1>1, <3>1, <3>2
  <2>2. pc' \in (DOMAIN NextKernel) \cup {"host", "done", "failed"}
    BY <1>1 DEF NextKernel
  <2>3. todo' \subseteq active' /\ active' \subseteq pending' /\ pending' \subseteq Net
    BY <1>1, <1>6, <1>8
  <2> QED BY <1>1, <1>2, <1>7, <1>9, <2>1, <2>2, <2>3 DEF TypeOK
<1>11. WavefrontIsPrefix'
  BY <1>1, <1>4, <1>5, <1>8 DEF WavefrontIsPrefix, Placed
<1>12. StatusAgrees'
  BY <1>1, <1>4, <1>8 DEF StatusAgrees, Placed
<1>13. PicksAreFree'
  <2>1. \A n \in Net : Placed(n)' => batch_of_net'[n] <= Newest'
    <3>1. Newest \in Int /\ Newest' \in Int
      BY <1>2, <1>9, SizesAssumption DEF TypeOK, Newest
    <3>2. ASSUME NEW n \in Net, Placed(n)'
          PROVE  batch_of_net'[n] <= Newest'
      <4>1. Placed(n) /\ batch_of_net' = batch_of_net
        BY <1>1, <3>2 DEF Placed
      <4>2. batch_of_net[n] <= Newest /\ batch_of_net[n] \in Int
        BY <1>2, <4>1 DEF KernelInv, PicksAreFree, TypeOK
      <4> QED BY <1>9, <3>1, <4>1, <4>2
    <3> QED BY <3>2
  <2> QED BY <1>1, <2>1 DEF PicksAreFree, Handled
<1>14. OwnersAreBest'
  BY <1>1 DEF OwnersAreBest
<1>15. MarksAreStamped'
  <2> SUFFICES ASSUME NEW n \in Net, Placed(n), batch_of_net[n] \in Live'
               PROVE  Marks(n) \subseteq slot_maps'[Slot(batch_of_net[n])]
    BY <1>1 DEF MarksAreStamped, Placed, Marks
  <2>1. batch_of_net[n] \in Live /\ batch_of_net[n] \in Nat
    BY <1>2, <1>9 DEF KernelInv, PicksAreFree, TypeOK, Live, Newest, Placed
  <2>2. Marks(n) \subseteq slot_maps[Slot(batch_of_net[n])]
    BY <1>1, <2>1 DEF KernelInv, MarksAreStamped
  <2>3. CASE OpenBatch
    <3>1. /\ batch_of_net[n] < Newest + 1 /\ Newest + 1 < batch_of_net[n] + Ring
          /\ Newest + 1 \in Nat
      BY <1>2, <2>1, <2>3, SizesAssumption DEF TypeOK, OpenBatch, Live, Newest
    <3>2. Slot(batch_of_net[n]) # Slot(Newest + 1)
      BY <2>1, <3>1, SlotInjective
    <3> QED BY <2>2, <2>3, <3>2, <1>2 DEF OpenBatch, TypeOK
  <2>4. CASE UNCHANGED <<slot_base, live_cnt, slot_maps, slot_size>>
    BY <2>2, <2>4
  <2> QED BY <1>1, <2>3, <2>4
<1>16. NoOvertaking' /\ ConflictFree'
  BY <1>1 DEF KernelInv, NoOvertaking, ConflictFree, Placed, Marks, Points
<1> QED BY <1>10, <1>11, <1>12, <1>13, <1>14, <1>15, <1>16 DEF KernelInv

-----------------------------------------------------------------------------
(* KernelInv is inductive, so it holds in every reachable state.              *)
THEOREM KernelInvariance == Spec => []KernelInv
<1>1. Init => KernelInv
  BY InitInv
<1>2. KernelInv /\ [Next]_vars => KernelInv'
  <2> SUFFICES ASSUME KernelInv, [Next]_vars PROVE KernelInv'
    OBVIOUS
  <2>1. CASE \E n \in Net : PickNet(n) \/ CommitNet(n) \/ CheckNet(n) \/ StampNet(n)
                            \/ ReleaseNet(n)
    BY <2>1, PickPreserves, CommitPreserves, CheckPreserves, StampPreserves,
       ReleasePreserves
  <2>2. CASE Launch
    BY <2>2, LaunchPreserves
  <2>3. CASE EndRound
    BY <2>3, EndRoundPreserves
  <2>4. CASE UNCHANGED vars
    BY <2>4 DEF vars, device, host, KernelInv, TypeOK, WavefrontIsPrefix, StatusAgrees,
         PicksAreFree, OwnersAreBest, MarksAreStamped, NoOvertaking, ConflictFree,
         Placed, Handled, Marks, Points, Live, Newest
  <2> QED BY <2>1, <2>2, <2>3, <2>4 DEF Next
<1> QED BY <1>1, <1>2, PTL DEF Spec

(* Every variable keeps its type, whatever the constants.                     *)
THEOREM TypeCorrect == Spec => []TypeOK
<1>1. KernelInv => TypeOK
  BY DEF KernelInv
<1> QED BY <1>1, KernelInvariance, PTL

(* No net's points are ever covered by the marks of a higher-priority member   *)
(* of its batch: the kernels and the ring keep the invariant that the router   *)
(* and batches_are_conflict_free rely on.                                      *)
THEOREM BatchesAreConflictFree == Spec => []ConflictFree
<1>1. KernelInv => ConflictFree
  BY DEF KernelInv
<1> QED BY <1>1, KernelInvariance, PTL

(* A placed net is never in the way of a better net that is still unplaced.    *)
THEOREM NeverOvertaken == Spec => []NoOvertaking
<1>1. KernelInv => NoOvertaking
  BY DEF KernelInv
<1> QED BY <1>1, KernelInvariance, PTL
-----------------------------------------------------------------------------
(* Placement.                                                                 *)
(* The kernels' argument turns on the best net of the wavefront.              *)
LEMMA MinExists ==
  ASSUME NEW S \in SUBSET Nat, S # {}
  PROVE  \E x \in S : \A y \in S : x <= y
<1>1. IsWellFoundedOn(OpToRel(<, Nat), Nat)
  BY NatLessThanWellFounded
<1>2. PICK x \in S : \A y \in S : ~ (<<y, x>> \in OpToRel(<, Nat))
  BY <1>1, WFMin
<1>3. \A y \in S : ~ (y < x)
  BY <1>2 DEF OpToRel
<1> QED BY <1>3

LEMMA NetsAreFinite ==
  ASSUME NEW S \in SUBSET Net
  PROVE  IsFiniteSet(S) /\ Cardinality(S) \in Nat /\ Cardinality(S) <= NetCnt
<1>1. IsFiniteSet(Net) /\ Cardinality(Net) = NetCnt
  BY FS_Interval, SizesAssumption DEF Net
<1> QED BY <1>1, FS_Subset, FS_CardinalityType

(* A prefix is as long as it may be, unless the list is shorter.              *)
LEMMA PrefixSize ==
  ASSUME NEW S \in SUBSET Net, NEW k \in Nat
  PROVE  Cardinality(Prefix(S, k)) <= k
<1> DEFINE P == Prefix(S, k)
<1>1. P \in SUBSET S /\ P \in SUBSET Net
  BY DEF Prefix
<1>2. CASE P = {}
  BY <1>2, FS_EmptySet
<1>3. CASE P # {}
  <2> DEFINE mirror == {NetCnt - x : x \in P}
  <2>1. mirror \in SUBSET Nat /\ mirror # {}
    BY <1>1, <1>3, SizesAssumption DEF Net
  <2>2. PICK least \in mirror : \A y \in mirror : least <= y
    BY <2>1, MinExists
  <2>3. PICK last \in P : least = NetCnt - last
    OBVIOUS
  <2>4. \A x \in P : x <= last
    BY <1>1, <2>2, <2>3, SizesAssumption DEF Net
  <2> DEFINE before == {m \in S : m < last}
  <2>5. before \in SUBSET Net /\ Cardinality(before) < k
    BY DEF Prefix
  <2>6. P \ {last} \subseteq before
    BY <1>1, <2>3, <2>4 DEF Net
  <2>7. Cardinality(P \ {last}) <= Cardinality(before)
    BY <2>5, <2>6, NetsAreFinite, FS_Subset
  <2>8. Cardinality(P \ {last}) = Cardinality(P) - 1
    BY <1>1, <2>3, NetsAreFinite, FS_RemoveElement
  <2> QED BY <1>1, <2>5, <2>7, <2>8, NetsAreFinite
<1> QED BY <1>2, <1>3

LEMMA PrefixIsNotEmpty ==
  ASSUME NEW S \in SUBSET Net, S # {}, NEW k \in Nat \ {0}
  PROVE  Prefix(S, k) # {}
<1>1. S \in SUBSET Nat
  BY SizesAssumption DEF Net
<1>2. PICK least \in S : \A y \in S : least <= y
  BY <1>1, MinExists
<1>3. {m \in S : m < least} = {}
  <2>1. \A m \in S : ~(m < least)
    BY <1>1, <1>2
  <2> QED BY <2>1
<1>4. Cardinality({m \in S : m < least}) = 0
  BY <1>3, FS_EmptySet
<1> QED BY <1>2, <1>4 DEF Prefix

LEMMA CapIsPositive == cap \in Nat \ {0}
  BY SizesAssumption DEF cap, MinOf

LEMMA MembersAreNets ==
  ASSUME NEW b
  PROVE  /\ Members(b) \in SUBSET Net /\ IsFiniteSet(Members(b))
         /\ Cardinality(Members(b)) \in Nat
         /\ Cardinality(Members(b)) = 0 <=> Members(b) = {}
  BY NetsAreFinite, FS_EmptySet DEF Members

LEMMA LiveBatches ==
  ASSUME TypeOK
  PROVE  /\ slot_base \in Nat /\ live_cnt \in 1 .. Ring /\ Newest \in Nat /\ Newest \in Live
         /\ \A b \in Live : b \in Nat /\ b <= Newest /\ Slot(b) \in 0 .. Ring - 1
         /\ \A b \in Live : \A c \in Live : b # c => Slot(b) # Slot(c)
<1>1. /\ slot_base \in Nat /\ live_cnt \in 1 .. Ring /\ Newest \in Nat /\ Newest \in Live
      /\ \A b \in Live : b \in Nat /\ b <= Newest
  BY SizesAssumption DEF TypeOK, Newest, Live
<1>2. \A b \in Live : \A c \in Live : b < c => Slot(b) # Slot(c)
  BY <1>1, SlotInjective, SizesAssumption DEF Live, Newest
<1>3. \A b \in Live : \A c \in Live : b # c => Slot(b) # Slot(c)
  <2> SUFFICES ASSUME NEW b \in Live, NEW c \in Live, b # c PROVE Slot(b) # Slot(c)
    OBVIOUS
  <2>1. b < c \/ c < b
    BY <1>1
  <2> QED BY <1>2, <2>1
<1> QED BY <1>1, <1>3, SlotType

(* What the scan passes over has no room, now and as members are added.       *)
LEMMA UnfitRefuses ==
  ASSUME IInv, NEW b \in Live, NEW n \in Net, ~Fits(n, Slot(b))
  PROVE  Refuses(b, n)
<1>1. TypeOK /\ CountsAgree /\ BitmapsAreMarks
  BY DEF IInv, KernelInv, PlacementInv
<1>2. slot_size[Slot(b)] \in Nat
  BY <1>1, LiveBatches DEF TypeOK
<1>3. CASE ~HasRoom(Slot(b))
  <2>1. Cardinality(Members(b)) = cap
    BY <1>1, <1>2, <1>3, CapIsPositive DEF CountsAgree, HasRoom, MinOf
  <2> QED BY <2>1, CapIsPositive DEF Refuses
<1>4. CASE Points(n) \cap slot_maps[Slot(b)] # {}
  BY <1>1, <1>4 DEF BitmapsAreMarks, Refuses
<1> QED BY <1>3, <1>4 DEF Fits

LEMMA RefusesForEver ==
  ASSUME NEW b, NEW n, Refuses(b, n), footprint' = footprint, Members(b) \subseteq Members(b)'
  PROVE  Refuses(b, n)'
<1>1. Members(b)' \in SUBSET Net
  BY DEF Members
<1>2. Cardinality(Members(b)) <= Cardinality(Members(b)')
  BY <1>1, NetsAreFinite, FS_Subset
<1>3. Cardinality(Members(b)) \in Nat /\ Cardinality(Members(b)') \in Nat
  BY <1>1, MembersAreNets, NetsAreFinite
<1>4. Cardinality(Members(b)) >= cap => Cardinality(Members(b)') >= cap
  BY <1>2, <1>3, CapIsPositive
<1> QED BY <1>4 DEF Refuses, Points, Marks
-----------------------------------------------------------------------------
(* The initial state.                                                         *)
LEMMA InitPlacement == Init => PlacementInv
<1> SUFFICES ASSUME Init PROVE PlacementInv
  OBVIOUS
<1>1. TypeOK
  BY InitInv DEF KernelInv
<1>2. Newest = 0 /\ Live = {0} /\ Slot(0) = 0 /\ Slot(Newest) = 0
  BY SizesAssumption DEF Init, Newest, Live, Slot
<1>3. \A b \in Nat : Members(b) = {}
  BY DEF Init, Members
<1>4. \A n \in Net : ~Placed(n)
  BY DEF Init, Placed
<1>5. /\ slot_size[0] = 0 /\ slot_maps[0] = {}
      /\ \A n \in Net : scan_from[n] = 0 /\ ~Picked(n)
  BY SizesAssumption DEF Init, Picked, Handled
<1>6. CountsAgree
  <2>1. \A b \in Nat : Cardinality(Members(b)) = 0
    BY <1>3, FS_EmptySet
  <2>2. BatchSizeBound
    BY <1>2, <2>1, CapIsPositive DEF BatchSizeBound
  <2>3. \A b \in Live : Cardinality(Members(b)) = MinOf(slot_size[Slot(b)], cap)
    BY <1>2, <1>5, <2>1, CapIsPositive DEF MinOf
  <2> QED BY <1>2, <1>5, <2>2, <2>3 DEF CountsAgree
<1>7. BitmapsAreMarks
  BY <1>2, <1>5 DEF BitmapsAreMarks
<1>8. ScansAreFinal
  BY <1>2, <1>4, <1>5 DEF ScansAreFinal
<1>9. OwnersInFlight
  BY DEF Init, OwnersInFlight
<1>10. RoomIsLeft
  <2>1. \A n \in Net : ~Picked(n)
    BY <1>5
  <2> QED BY <2>1 DEF RoomIsLeft
<1>11. wavefront \in Nat \ {0} /\ wavefront <= MaxWavefront /\ active \in SUBSET Net
  BY <1>1, SizesAssumption DEF Init, TypeOK, MinOf
<1>12. BestIsPlaced
  <2>1. Net # {}
    BY SizesAssumption DEF Net
  <2>2. active # {}
    BY <1>11, <2>1, PrefixIsNotEmpty DEF Init
  <2> QED BY <2>2 DEF Init, BestIsPlaced
<1>13. EveryRoundPlaces /\ (pc = "done" => pending = {} /\ batch_count = BatchTotal)
  BY DEF Init, EveryRoundPlaces
<1>14. WavefrontFitsBuffers
  <2>1. Cardinality(active) <= wavefront
    BY <1>11, PrefixSize DEF Init
  <2>2. Cardinality(active) <= NetCnt /\ Cardinality(active) \in Nat
    BY <1>11, NetsAreFinite
  <2> QED BY <1>11, <2>1, <2>2, SizesAssumption DEF WavefrontFitsBuffers, wavefront_cap, MinOf
<1> QED BY <1>6, <1>7, <1>8, <1>9, <1>10, <1>11, <1>12, <1>13, <1>14 DEF PlacementInv
-----------------------------------------------------------------------------
(* The kernels.                                                               *)

(* The newest batch is empty, so every scan ends at a batch.                  *)
LEMMA PickPlacement ==
  ASSUME IInv, NEW n \in Net, PickNet(n)
  PROVE  PlacementInv'
<1>1. /\ pc = "pick" /\ n \in todo /\ todo' = todo \ {n}
      /\ UNCHANGED <<footprint, pc, pending, active, wavefront, slot_base, live_cnt,
                     stalled, batch_count, slot_maps, slot_size, owner, batch_of_net,
                     status>>
  BY DEF PickNet, host
<1>2. TypeOK /\ PlacementInv /\ StatusAgrees /\ n \in active
  BY <1>1 DEF IInv, KernelInv, TypeOK
<1>3. /\ CountsAgree /\ BitmapsAreMarks /\ ScansAreFinal /\ OwnersInFlight /\ RoomIsLeft
      /\ BestIsPlaced
  BY <1>2 DEF PlacementInv
<1>4. \A b : Members(b)' = Members(b)
  BY <1>1 DEF Members
<1>5. Live' = Live /\ Newest' = Newest
  BY <1>1 DEF Live, Newest
<1>6. Newest \in Acceptable(n)
  <2>1. slot_size[Slot(Newest)] = 0 /\ HasRoom(Slot(Newest))
    BY <1>1, <1>3, CapIsPositive DEF CountsAgree, HasRoom
  <2>2. Cardinality(Members(Newest)) = 0
    BY <1>2, <1>3, <2>1, LiveBatches, CapIsPositive DEF CountsAgree, MinOf
  <2>3. slot_maps[Slot(Newest)] = {}
    BY <1>2, <1>3, <2>2, LiveBatches, MembersAreNets DEF BitmapsAreMarks
  <2>4. scan_from[n] \in Nat /\ scan_from[n] <= Newest /\ slot_base <= Newest
    BY <1>2, <1>3, LiveBatches DEF TypeOK, ScansAreFinal, Live
  <2> QED BY <1>2, <2>1, <2>3, <2>4, LiveBatches DEF Acceptable, Fits, MaxOf, TypeOK
<1>7. PICK b \in Acceptable(n) :
        /\ \A other \in Acceptable(n) : b <= other
        /\ pick' = [pick EXCEPT ![n] = b] /\ scan_from' = [scan_from EXCEPT ![n] = b]
  BY <1>6 DEF PickNet
<1>8. b \in Live /\ b \in Nat /\ b <= Newest /\ Fits(n, Slot(b))
  <2>1. scan_from[n] \in Nat
    BY <1>2 DEF TypeOK
  <2> QED BY <1>2, <1>7, <2>1, LiveBatches DEF Acceptable, MaxOf, Live
<1>9. \A c \in Live : c < b => Refuses(c, n)
  <2> SUFFICES ASSUME NEW c \in Live, c < b PROVE Refuses(c, n)
    OBVIOUS
  <2>1. c \in Nat /\ scan_from[n] \in Nat /\ slot_base <= c /\ c <= Newest
    BY <1>2, LiveBatches DEF TypeOK, Live
  <2>2. CASE c < scan_from[n]
    BY <1>3, <2>2 DEF ScansAreFinal
  <2>3. CASE scan_from[n] <= c
    <3>1. c \in MaxOf(scan_from[n], slot_base) .. Newest
      BY <1>2, <2>1, <2>3, LiveBatches DEF MaxOf
    <3>2. c \notin Acceptable(n)
      BY <1>7, <1>8, <2>1
    <3>3. ~Fits(n, Slot(c))
      BY <3>1, <3>2 DEF Acceptable
    <3> QED BY <3>3, UnfitRefuses
  <2> QED BY <2>1, <2>2, <2>3
<1>10. \A m \in Net : /\ scan_from'[m] = IF m = n THEN b ELSE scan_from[m]
                      /\ pick'[m] = IF m = n THEN b ELSE pick[m]
                      /\ m # n => (Picked(m)' <=> Picked(m))
  BY <1>1, <1>2, <1>7 DEF TypeOK, Picked, Handled
<1>11. \A c, m : Refuses(c, m)' <=> Refuses(c, m)
  BY <1>1, <1>4 DEF Refuses, Points, Marks
<1>12. ScansAreFinal'
  <2> SUFFICES ASSUME NEW m \in Net
               PROVE  /\ scan_from'[m] <= Newest
                      /\ Placed(m)' => scan_from'[m] = batch_of_net'[m]
                      /\ Picked(m)' => pick'[m] = scan_from'[m] /\ pick'[m] \in Live
                      /\ \A c \in Live : c < scan_from'[m] => Refuses(c, m)
    BY <1>5, <1>11 DEF ScansAreFinal
  <2>1. CASE m = n
    <3>1. ~Placed(m)'
      BY <1>1, <1>2, <2>1 DEF StatusAgrees, Placed
    <3> QED BY <1>8, <1>9, <1>10, <2>1, <3>1
  <2>2. CASE m # n
    BY <1>1, <1>3, <1>10, <2>2 DEF ScansAreFinal, Placed
  <2> QED BY <2>1, <2>2
<1>13. RoomIsLeft'
  <2> SUFFICES ASSUME NEW m \in Net, Picked(m)', \A k \in active : ~Placed(k)
               PROVE  HasRoom(Slot(pick'[m]))
    BY <1>1 DEF RoomIsLeft, Placed, HasRoom
  <2>1. CASE m = n
    BY <1>8, <1>10, <2>1 DEF Fits
  <2>2. CASE m # n
    BY <1>3, <1>10, <2>2 DEF RoomIsLeft
  <2> QED BY <2>1, <2>2
<1>14. CountsAgree' /\ BitmapsAreMarks'
  BY <1>1, <1>3, <1>4, <1>5 DEF CountsAgree, BitmapsAreMarks, BatchSizeBound, Marks
<1>15. OwnersInFlight' /\ BestIsPlaced'
  BY <1>1, <1>3 DEF OwnersInFlight, BestIsPlaced, Placed, Marks
<1> QED BY <1>1, <1>2, <1>12, <1>13, <1>14, <1>15
        DEF PlacementInv, EveryRoundPlaces, WavefrontFitsBuffers

LEMMA CommitPlacement ==
  ASSUME IInv, NEW n \in Net, CommitNet(n)
  PROVE  PlacementInv'
<1>1. /\ pc = "commit" /\ n \in todo /\ todo' = todo \ {n}
      /\ owner' = [p \in Cell |-> IF p \in Marks(n) THEN MinOf(owner[p], n) ELSE owner[p]]
      /\ UNCHANGED <<footprint, pc, pending, active, wavefront, slot_base, live_cnt,
                     stalled, batch_count, slot_maps, slot_size, batch_of_net,
                     scan_from, pick, status>>
  BY DEF CommitNet, host
<1>2. TypeOK /\ PlacementInv /\ n \in active
  BY <1>1 DEF IInv, KernelInv, TypeOK
<1>3. /\ CountsAgree /\ BitmapsAreMarks /\ ScansAreFinal /\ OwnersInFlight /\ RoomIsLeft
      /\ BestIsPlaced
  BY <1>2 DEF PlacementInv
<1>4. \A b : Members(b)' = Members(b)
  BY <1>1 DEF Members
<1>5. Live' = Live /\ Newest' = Newest
  BY <1>1 DEF Live, Newest
<1>6. OwnersInFlight'
  <2> SUFFICES ASSUME NEW p \in Cell, owner'[p] # kEmpty
               PROVE  owner'[p] \in active /\ p \in Marks(owner'[p])
    BY <1>1 DEF OwnersInFlight, Marks
  <2>1. (owner'[p] = n /\ p \in Marks(n)) \/ owner'[p] = owner[p]
    BY <1>1 DEF MinOf
  <2> QED BY <1>2, <1>3, <2>1 DEF OwnersInFlight
<1>7. CountsAgree' /\ BitmapsAreMarks'
  BY <1>1, <1>3, <1>4, <1>5 DEF CountsAgree, BitmapsAreMarks, BatchSizeBound, Marks
<1>8. \A m \in Net : Picked(m)' <=> Picked(m)
  BY <1>1 DEF Picked
<1>9. ScansAreFinal'
  BY <1>1, <1>3, <1>4, <1>5, <1>8 DEF ScansAreFinal, Placed, Refuses, Points, Marks
<1>10. RoomIsLeft' /\ BestIsPlaced'
  BY <1>1, <1>3, <1>8 DEF RoomIsLeft, BestIsPlaced, Placed, HasRoom
<1> QED BY <1>1, <1>2, <1>6, <1>7, <1>9, <1>10
        DEF PlacementInv, EveryRoundPlaces, WavefrontFitsBuffers

(* A net counts against its batch; while the batch has room it becomes a       *)
(* member.  The best net of the wavefront owns its points, so it is refused    *)
(* only if others took the last places, and then these were placed.            *)
LEMMA CheckPlacement ==
  ASSUME IInv, NEW n \in Net, CheckNet(n)
  PROVE  PlacementInv'
<1> DEFINE slot   == Slot(pick[n])
           clean  == OwnsItsPoints(n) /\ pick[n] >= 0
           placed == clean /\ HasRoom(slot)
<1>1. /\ pc = "check" /\ n \in todo /\ todo' = todo \ {n}
      /\ slot_size' = IF clean THEN [slot_size EXCEPT ![slot] = @ + 1] ELSE slot_size
      /\ batch_of_net' = IF placed THEN [batch_of_net EXCEPT ![n] = pick[n]]
                                   ELSE batch_of_net
      /\ UNCHANGED <<footprint, pc, pending, active, wavefront, slot_base, live_cnt,
                     stalled, batch_count, slot_maps, owner, scan_from, pick>>
  BY DEF CheckNet, host
<1> HIDE DEF clean, placed, slot
<1>2. TypeOK /\ PlacementInv /\ StatusAgrees /\ OwnersAreBest /\ n \in active
  BY <1>1 DEF IInv, KernelInv, TypeOK
<1>3. /\ CountsAgree /\ BitmapsAreMarks /\ ScansAreFinal /\ OwnersInFlight /\ RoomIsLeft
      /\ BestIsPlaced
  BY <1>2 DEF PlacementInv
<1>4. Live' = Live /\ Newest' = Newest
  BY <1>1 DEF Live, Newest
<1>5. Picked(n) /\ pick[n] = scan_from[n] /\ pick[n] \in Live /\ ~Placed(n)
  BY <1>1, <1>2, <1>3 DEF Picked, ScansAreFinal, StatusAgrees
<1>6. slot \in 0 .. Ring - 1 /\ slot_size[slot] \in Nat /\ pick[n] \in Nat /\ pick[n] <= Newest
  BY <1>2, <1>5, LiveBatches DEF slot, TypeOK
<1>7. batch_of_net \in [Net -> Int] /\ slot_size \in [0 .. Ring - 1 -> Nat]
  BY <1>2 DEF TypeOK
<1>8. \A m \in Net : batch_of_net'[m] = IF m = n /\ placed THEN pick[n] ELSE batch_of_net[m]
  BY <1>1, <1>7
<1>9. \A m \in Net : Placed(m)' <=> Placed(m) \/ (m = n /\ placed)
  BY <1>5, <1>6, <1>8 DEF Placed
<1>10. \A b \in Nat : Members(b)' = IF b = pick[n] /\ placed THEN Members(b) \cup {n}
                                    ELSE Members(b)
  <2> SUFFICES ASSUME NEW b \in Nat
               PROVE  Members(b)' = IF b = pick[n] /\ placed THEN Members(b) \cup {n}
                                    ELSE Members(b)
    OBVIOUS
  <2>1. batch_of_net[n] # b
    BY <1>5, <1>7 DEF Placed
  <2>2. Members(b)' = {m \in Net : (IF m = n /\ placed THEN pick[n] ELSE batch_of_net[m]) = b}
    BY <1>8 DEF Members
  <2> QED BY <2>1, <2>2 DEF Members
<1>11. n \notin Members(pick[n])
  BY <1>5, <1>6 DEF Members, Placed
<1>12. \A b \in Nat : Members(b) \subseteq Members(b)'
  BY <1>10
<1>13. CountsAgree'
  <2> PICK b0 \in Live : b0 = pick[n] /\ b0 \in Nat
    BY <1>5, <1>6
  <2>1. \A b \in Live : Cardinality(Members(b)) = MinOf(slot_size[Slot(b)], cap)
    BY <1>3 DEF CountsAgree
  <2>2. Cardinality(Members(b0)') = IF placed THEN Cardinality(Members(b0)) + 1
                                         ELSE Cardinality(Members(b0))
    BY <1>6, <1>10, <1>11, MembersAreNets, FS_AddElement
  <2>3. Cardinality(Members(b0)) = MinOf(slot_size[slot], cap)
    BY <1>5, <2>1 DEF slot
  <2>4. slot_size'[slot] = IF clean THEN slot_size[slot] + 1 ELSE slot_size[slot]
    BY <1>1, <1>6, <1>7
  <2>5. placed => clean /\ slot_size[slot] < cap
    BY DEF placed, HasRoom
  <2>6. clean /\ ~placed => ~(slot_size[slot] < cap)
    BY DEF placed, HasRoom
  <2>7. Cardinality(Members(b0)') = MinOf(slot_size'[slot], cap)
    BY <1>6, <2>2, <2>3, <2>4, <2>5, <2>6, CapIsPositive DEF MinOf
  <2>8. Cardinality(Members(b0)') <= cap
    BY <1>6, <2>2, <2>3, <2>5, CapIsPositive DEF MinOf
  <2>9. \A b \in Live : Cardinality(Members(b)') = MinOf(slot_size'[Slot(b)], cap)
    <3> SUFFICES ASSUME NEW b \in Live
                 PROVE  Cardinality(Members(b)') = MinOf(slot_size'[Slot(b)], cap)
      OBVIOUS
    <3>1. CASE b = b0
      BY <2>7, <3>1 DEF slot
    <3>2. CASE b # b0
      <4>1. Slot(b) # slot /\ Slot(b) \in 0 .. Ring - 1 /\ b \in Nat
        BY <1>2, <1>5, <3>2, LiveBatches DEF slot
      <4>2. slot_size'[Slot(b)] = slot_size[Slot(b)]
        BY <1>1, <1>6, <1>7, <4>1
      <4> QED BY <1>10, <2>1, <3>2, <4>1, <4>2
    <3> QED BY <3>1, <3>2
  <2>10. \A b \in 0 .. Newest : Cardinality(Members(b)') <= cap
    <3> SUFFICES ASSUME NEW b \in 0 .. Newest PROVE Cardinality(Members(b)') <= cap
      OBVIOUS
    <3>1. CASE b = b0
      BY <2>8, <3>1
    <3>2. CASE b # b0
      BY <1>3, <1>10, <3>2 DEF CountsAgree, BatchSizeBound
    <3> QED BY <3>1, <3>2
  <2>11. \A b \in 0 .. Newest - 1 : Members(b)' # {}
    BY <1>3, <1>12 DEF CountsAgree
  <2> QED BY <1>1, <1>4, <2>9, <2>10, <2>11 DEF CountsAgree, BatchSizeBound
<1>14. BitmapsAreMarks'
  <2>1. \A b \in Live : b \in Nat
    BY <1>2, LiveBatches
  <2>2. ASSUME NEW b \in Live
        PROVE  slot_maps[Slot(b)] \subseteq UNION {Marks(m) : m \in Members(b)'}
    BY <1>3, <1>12, <2>1 DEF BitmapsAreMarks
  <2> QED BY <1>1, <1>4, <2>2 DEF BitmapsAreMarks, Marks
<1>15. \A m \in Net : Picked(m)' <=> Picked(m)
  BY <1>1 DEF Picked
<1>16. ScansAreFinal'
  <2> SUFFICES ASSUME NEW m \in Net
               PROVE  /\ scan_from[m] <= Newest
                      /\ Placed(m)' => scan_from[m] = batch_of_net'[m]
                      /\ Picked(m) => pick[m] = scan_from[m] /\ pick[m] \in Live
                      /\ \A c \in Live : c < scan_from[m] => Refuses(c, m)'
    BY <1>1, <1>4, <1>15 DEF ScansAreFinal
  <2>1. /\ scan_from[m] <= Newest
        /\ Picked(m) => pick[m] = scan_from[m] /\ pick[m] \in Live
        /\ Placed(m) => scan_from[m] = batch_of_net[m]
        /\ \A c \in Live : c < scan_from[m] => Refuses(c, m)
    BY <1>3 DEF ScansAreFinal
  <2>2. Placed(m)' => scan_from[m] = batch_of_net'[m]
    BY <1>5, <1>8, <1>9, <2>1
  <2>3. ASSUME NEW c \in Live, c < scan_from[m] PROVE Refuses(c, m)'
    <3>1. c \in Nat
      BY <1>2, LiveBatches
    <3> QED BY <1>1, <1>12, <2>1, <2>3, <3>1, RefusesForEver
  <2> QED BY <2>1, <2>2, <2>3
<1>17. (\A k \in active : ~Placed(k)') =>
          ~placed /\ HasRoom(slot) /\ slot_size' = slot_size /\ \A k \in active : ~Placed(k)
  <2> SUFFICES ASSUME \A k \in active : ~Placed(k)'
               PROVE  ~placed /\ HasRoom(slot) /\ slot_size' = slot_size
                      /\ \A k \in active : ~Placed(k)
    OBVIOUS
  <2>1. active \subseteq Net
    BY <1>2 DEF TypeOK
  <2>2. ~placed /\ \A k \in active : ~Placed(k)
    BY <1>2, <1>9, <2>1
  <2>3. HasRoom(slot)
    BY <1>3, <1>5, <2>2 DEF RoomIsLeft, slot
  <2> QED BY <1>1, <2>2, <2>3 DEF placed
<1>18. RoomIsLeft'
  <2> SUFFICES ASSUME NEW m \in Net, Picked(m), \A k \in active : ~Placed(k)'
               PROVE  HasRoom(Slot(pick[m]))'
    BY <1>1, <1>15 DEF RoomIsLeft
  <2>1. HasRoom(Slot(pick[m])) /\ slot_size' = slot_size
    BY <1>3, <1>17 DEF RoomIsLeft
  <2> QED BY <1>1, <2>1 DEF HasRoom, Slot
<1>19. BestIsPlaced'
  <2> SUFFICES ASSUME NEW m \in Handled', \A k \in active : m <= k, \A k \in active : ~Placed(k)'
               PROVE  FALSE
    BY <1>1, <1>3 DEF BestIsPlaced
  <2>1. ~placed /\ HasRoom(slot) /\ \A k \in active : ~Placed(k)
    BY <1>17
  <2>2. CASE m \in Handled
    BY <1>1, <1>3, <2>1, <2>2 DEF BestIsPlaced
  <2>3. CASE m = n
    <3>1. ASSUME NEW p \in Points(n) PROVE owner[p] = n
      <4>1. p \in Marks(n) /\ p \in Cell
        BY <1>2, FootprintAssumption DEF TypeOK, Points, Marks
      <4>2. owner[p] <= n /\ owner[p] \in Net \cup {kEmpty}
        BY <1>1, <1>2, <4>1 DEF OwnersAreBest, TypeOK
      <4>3. owner[p] # kEmpty
        BY <4>2, SizesAssumption DEF Net, kEmpty
      <4>4. n <= owner[p]
        BY <1>3, <2>3, <4>1, <4>3 DEF OwnersInFlight
      <4> QED BY <4>2, <4>3, <4>4, SizesAssumption DEF Net, kEmpty
    <3>2. clean
      BY <1>6, <3>1 DEF clean, OwnsItsPoints
    <3> QED BY <2>1, <3>2 DEF placed
  <2> QED BY <1>1, <2>2, <2>3 DEF Handled
<1>20. OwnersInFlight'
  BY <1>1, <1>3 DEF OwnersInFlight, Marks
<1> QED BY <1>1, <1>2, <1>13, <1>14, <1>16, <1>18, <1>19, <1>20
        DEF PlacementInv, EveryRoundPlaces, WavefrontFitsBuffers

LEMMA StampPlacement ==
  ASSUME IInv, NEW n \in Net, StampNet(n)
  PROVE  PlacementInv'
<1>1. /\ pc = "stamp" /\ n \in todo /\ todo' = todo \ {n}
      /\ slot_maps' = IF status[n] = "assigned"
                      THEN [slot_maps EXCEPT ![Slot(pick[n])] = @ \cup Marks(n)]
                      ELSE slot_maps
      /\ UNCHANGED <<footprint, pc, pending, active, wavefront, slot_base, live_cnt,
                     stalled, batch_count, slot_size, owner, batch_of_net, scan_from,
                     pick, status>>
  BY DEF StampNet, host
<1>2. TypeOK /\ PlacementInv /\ StatusAgrees /\ n \in active
  BY <1>1 DEF IInv, KernelInv, TypeOK
<1>3. /\ CountsAgree /\ BitmapsAreMarks /\ ScansAreFinal /\ OwnersInFlight /\ RoomIsLeft
      /\ BestIsPlaced
  BY <1>2 DEF PlacementInv
<1>4. \A b : Members(b)' = Members(b)
  BY <1>1 DEF Members
<1>5. Live' = Live /\ Newest' = Newest
  BY <1>1 DEF Live, Newest
<1>6. pick[n] \in Live /\ (status[n] = "assigned" => n \in Members(pick[n]))
  BY <1>1, <1>2, <1>3 DEF ScansAreFinal, Picked, StatusAgrees, Members
<1>7. BitmapsAreMarks'
  <2> SUFFICES ASSUME NEW b \in Live
               PROVE  slot_maps'[Slot(b)] \subseteq UNION {Marks(m) : m \in Members(b)}
    BY <1>1, <1>4, <1>5 DEF BitmapsAreMarks, Marks
  <2>1. slot_maps[Slot(b)] \subseteq UNION {Marks(m) : m \in Members(b)}
    BY <1>3 DEF BitmapsAreMarks
  <2>2. /\ Slot(b) \in 0 .. Ring - 1 /\ Slot(pick[n]) \in 0 .. Ring - 1
        /\ b # pick[n] => Slot(b) # Slot(pick[n])
    BY <1>2, <1>6, LiveBatches
  <2>3. slot_maps \in [0 .. Ring - 1 -> SUBSET Cell]
    BY <1>2 DEF TypeOK
  <2>4. CASE status[n] = "assigned" /\ b = pick[n]
    <3>1. slot_maps'[Slot(b)] = slot_maps[Slot(b)] \cup Marks(n)
      BY <1>1, <2>2, <2>3, <2>4
    <3> QED BY <1>6, <2>1, <2>4, <3>1
  <2>5. CASE ~(status[n] = "assigned" /\ b = pick[n])
    <3>1. slot_maps'[Slot(b)] = slot_maps[Slot(b)]
      BY <1>1, <2>2, <2>3, <2>5
    <3> QED BY <2>1, <3>1
  <2> QED BY <2>4, <2>5
<1>8. \A m \in Net : Picked(m)' <=> Picked(m)
  BY <1>1 DEF Picked
<1>9. ScansAreFinal'
  BY <1>1, <1>3, <1>4, <1>5, <1>8 DEF ScansAreFinal, Placed, Refuses, Points, Marks
<1>10. RoomIsLeft' /\ BestIsPlaced' /\ OwnersInFlight'
  BY <1>1, <1>3, <1>8
     DEF RoomIsLeft, BestIsPlaced, OwnersInFlight, Placed, HasRoom, Marks
<1>11. CountsAgree'
  BY <1>1, <1>3, <1>4, <1>5 DEF CountsAgree, BatchSizeBound
<1> QED BY <1>1, <1>2, <1>7, <1>9, <1>10, <1>11
        DEF PlacementInv, EveryRoundPlaces, WavefrontFitsBuffers

LEMMA ReleasePlacement ==
  ASSUME IInv, NEW n \in Net, ReleaseNet(n)
  PROVE  PlacementInv'
<1>1. /\ pc = "release" /\ n \in todo /\ todo' = todo \ {n}
      /\ owner' = [p \in Cell |-> IF p \in Marks(n) /\ owner[p] = n
                                  THEN kEmpty ELSE owner[p]]
      /\ UNCHANGED <<footprint, pc, pending, active, wavefront, slot_base, live_cnt,
                     stalled, batch_count, slot_maps, slot_size, batch_of_net,
                     scan_from, pick, status>>
  BY DEF ReleaseNet, host
<1>2. PlacementInv
  BY DEF IInv
<1>3. /\ CountsAgree /\ BitmapsAreMarks /\ ScansAreFinal /\ OwnersInFlight /\ RoomIsLeft
      /\ BestIsPlaced
  BY <1>2 DEF PlacementInv
<1>4. \A b : Members(b)' = Members(b)
  BY <1>1 DEF Members
<1>5. Live' = Live /\ Newest' = Newest
  BY <1>1 DEF Live, Newest
<1>6. OwnersInFlight'
  <2> SUFFICES ASSUME NEW p \in Cell, owner'[p] # kEmpty
               PROVE  owner'[p] \in active /\ p \in Marks(owner'[p]) /\ owner'[p] \in todo \ {n}
    BY <1>1 DEF OwnersInFlight, Marks
  <2>1. owner'[p] = owner[p] /\ ~(p \in Marks(n) /\ owner[p] = n)
    BY <1>1
  <2> QED BY <1>1, <1>3, <2>1 DEF OwnersInFlight
<1>7. CountsAgree' /\ BitmapsAreMarks'
  BY <1>1, <1>3, <1>4, <1>5 DEF CountsAgree, BitmapsAreMarks, BatchSizeBound, Marks
<1>8. \A m \in Net : Picked(m)' <=> Picked(m)
  BY <1>1 DEF Picked
<1>9. ScansAreFinal'
  BY <1>1, <1>3, <1>4, <1>5, <1>8 DEF ScansAreFinal, Placed, Refuses, Points, Marks
<1>10. RoomIsLeft' /\ BestIsPlaced'
  BY <1>1, <1>3, <1>8 DEF RoomIsLeft, BestIsPlaced, Placed, HasRoom
<1> QED BY <1>1, <1>2, <1>6, <1>7, <1>9, <1>10
        DEF PlacementInv, EveryRoundPlaces, WavefrontFitsBuffers
-----------------------------------------------------------------------------
(* The barriers between kernels, and the host's end of a round.               *)
LEMMA LaunchPlacement ==
  ASSUME IInv, Launch
  PROVE  PlacementInv'
<1>1. /\ pc \in {"pick", "commit", "check", "stamp", "release"} /\ todo = {}
      /\ todo' = IF pc = "release" THEN {} ELSE active
      /\ UNCHANGED <<footprint, pending, active, wavefront, slot_base, live_cnt,
                     stalled, batch_count, slot_maps, slot_size, owner, batch_of_net,
                     scan_from, pick, status>>
  BY DEF Launch, device, host, NextKernel
<1>2. /\ pc = "pick" => pc' = "commit"
      /\ pc = "commit" => pc' = "check"
      /\ pc = "check" => pc' = "stamp"
      /\ pc = "stamp" => pc' = "release"
      /\ pc = "release" => pc' = "host"
  BY <1>1 DEF Launch, NextKernel
<1>3. TypeOK /\ PlacementInv
  BY DEF IInv, KernelInv
<1>4. /\ CountsAgree /\ BitmapsAreMarks /\ ScansAreFinal /\ OwnersInFlight /\ RoomIsLeft
      /\ BestIsPlaced
  BY <1>3 DEF PlacementInv
<1>5. \A b : Members(b)' = Members(b)
  BY <1>1 DEF Members
<1>6. Live' = Live /\ Newest' = Newest
  BY <1>1 DEF Live, Newest
<1>7. CountsAgree' /\ BitmapsAreMarks'
  BY <1>1, <1>2, <1>4, <1>5, <1>6 DEF CountsAgree, BitmapsAreMarks, BatchSizeBound, Marks
<1>8. \A m \in Net : Picked(m)' => Picked(m)
  BY <1>1, <1>2 DEF Picked, Handled
<1>9. ScansAreFinal'
  BY <1>1, <1>4, <1>5, <1>6, <1>8 DEF ScansAreFinal, Placed, Refuses, Points, Marks
<1>10. RoomIsLeft'
  BY <1>1, <1>4, <1>8 DEF RoomIsLeft, Placed, HasRoom
<1>11. OwnersInFlight'
  BY <1>1, <1>2, <1>4 DEF OwnersInFlight, Marks
<1>12. BestIsPlaced'
  <2>1. active # {}
    BY <1>1, <1>4 DEF BestIsPlaced
  <2>2. ASSUME pc = "check" PROVE \E k \in active : Placed(k)
    <3>1. active \in SUBSET Nat
      BY <1>3, SizesAssumption DEF TypeOK, Net
    <3>2. PICK m \in active : \A k \in active : m <= k
      BY <2>1, <3>1, MinExists
    <3> QED BY <1>1, <1>4, <2>2, <3>2 DEF BestIsPlaced, Handled
  <2>3. pc' = "check" => Handled' = {}
    BY <1>1, <1>2 DEF Handled
  <2>4. pc' \in {"stamp", "release", "host"} => \E k \in active : Placed(k)
    BY <1>1, <1>2, <1>4, <2>2 DEF BestIsPlaced
  <2> QED BY <1>1, <2>1, <2>3, <2>4 DEF BestIsPlaced, Placed
<1>13. pc' # "done"
  BY <1>1, <1>2
<1> QED BY <1>1, <1>3, <1>7, <1>9, <1>10, <1>11, <1>12, <1>13
        DEF PlacementInv, EveryRoundPlaces, WavefrontFitsBuffers

(* The round has placed a net.  A batch is opened behind one that was joined,  *)
(* and its slot is that of no other open batch.                               *)
LEMMA EndRoundPlacement ==
  ASSUME IInv, EndRound, KernelInv'
  PROVE  PlacementInv'
<1> DEFINE kept     == {n \in active : status[n] = "active"}
           assigned == Cardinality(active) - Cardinality(kept)
           rest     == kept \cup (pending \ active)
           opens    == slot_size[Slot(Newest)] > 0 /\ rest # {}
<1>1. /\ pc = "host"
      /\ stalled' = IF assigned = 0 THEN stalled + 1 ELSE 0
      /\ pending' = rest
      /\ wavefront' = Retune(assigned)
      /\ active' = Prefix(rest, wavefront')
      /\ pc' = IF stalled' > MaxStalled THEN "failed" ELSE IF rest = {} THEN "done" ELSE "pick"
      /\ todo' = active'
      /\ IF opens THEN OpenBatch ELSE UNCHANGED <<slot_base, live_cnt, slot_maps, slot_size>>
      /\ batch_count' = IF pc' = "done" THEN BatchTotal ELSE -1
      /\ UNCHANGED <<footprint, owner, batch_of_net, scan_from, pick, status>>
  BY DEF EndRound
<1>2. TypeOK /\ PlacementInv /\ StatusAgrees /\ PicksAreFree /\ TypeOK'
  BY DEF IInv, KernelInv
<1>3. CountsAgree /\ BitmapsAreMarks /\ ScansAreFinal /\ OwnersInFlight /\ BestIsPlaced
  BY <1>2 DEF PlacementInv
<1>4. assigned # 0
  <2>1. active \in SUBSET Net /\ kept \in SUBSET active
    BY <1>2 DEF TypeOK
  <2>2. PICK k \in active : Placed(k)
    BY <1>1, <1>3 DEF BestIsPlaced
  <2>3. k \notin kept
    BY <1>1, <1>2, <2>2 DEF StatusAgrees
  <2>4. IsFiniteSet(active) /\ Cardinality(active) \in Nat /\ Cardinality(kept) \in Nat
    BY <2>1, NetsAreFinite
  <2>5. Cardinality(active) # Cardinality(kept)
    BY <2>1, <2>3, <2>4, FS_Subset
  <2> QED BY <2>4, <2>5
<1> HIDE DEF assigned
<1>5. stalled' = 0 /\ pc' = IF rest = {} THEN "done" ELSE "pick"
  BY <1>1, <1>4, SizesAssumption
<1>6. rest \in SUBSET Net
  BY <1>2 DEF TypeOK
<1> HIDE DEF kept, rest
<1>7. \A b : Members(b)' = Members(b)
  BY <1>1 DEF Members
<1>8. \A b, m : Refuses(b, m)' <=> Refuses(b, m)
  BY <1>1, <1>7 DEF Refuses, Points, Marks
<1>9. /\ Newest' = IF opens THEN Newest + 1 ELSE Newest
      /\ \A b \in Live' : b \in Live \/ (opens /\ b = Newest + 1)
      /\ opens => /\ slot_size'[Slot(Newest + 1)] = 0
                  /\ slot_maps'[Slot(Newest + 1)] = {}
                  /\ Newest + 1 \in Nat
      /\ \A b \in Live' : b \in Live =>
           slot_size'[Slot(b)] = slot_size[Slot(b)] /\ slot_maps'[Slot(b)] = slot_maps[Slot(b)]
  <2>1. CASE opens
    <3>1. OpenBatch
      BY <1>1, <2>1
    <3>2. Newest' = Newest + 1 /\ Newest + 1 \in Nat
      BY <1>2, <3>1, LiveBatches, SizesAssumption DEF OpenBatch, Newest
    <3>3. \A b \in Live' : b \in Live \/ b = Newest + 1
      BY <1>2, <3>1, <3>2, LiveBatches DEF OpenBatch, Live, Newest
    <3>4. Slot(Newest + 1) \in 0 .. Ring - 1
      BY <3>2, SlotType
    <3>5. slot_size'[Slot(Newest + 1)] = 0 /\ slot_maps'[Slot(Newest + 1)] = {}
      BY <1>2, <3>1, <3>4 DEF OpenBatch, TypeOK
    <3>6. ASSUME NEW b \in Live', b \in Live
          PROVE  /\ slot_size'[Slot(b)] = slot_size[Slot(b)]
                 /\ slot_maps'[Slot(b)] = slot_maps[Slot(b)]
      <4>1. b \in Nat /\ b < Newest + 1 /\ Newest + 1 < b + Ring
        BY <1>2, <3>1, <3>6, LiveBatches, SizesAssumption DEF OpenBatch, Live, Newest
      <4>2. Slot(b) # Slot(Newest + 1) /\ Slot(b) \in 0 .. Ring - 1
        BY <3>2, <4>1, SlotInjective, SlotType
      <4> QED BY <1>2, <3>1, <4>2 DEF OpenBatch, TypeOK
    <3> QED BY <2>1, <3>2, <3>3, <3>5, <3>6
  <2>2. CASE ~opens
    BY <1>1, <2>2 DEF Newest, Live
  <2> QED BY <2>1, <2>2
<1>10. Members(Newest + 1) = {}
  BY <1>2, LiveBatches DEF PicksAreFree, Members, Placed
<1>11. opens => Members(Newest) # {}
  <2> SUFFICES ASSUME opens PROVE Members(Newest) # {}
    OBVIOUS
  <2>1. Cardinality(Members(Newest)) = MinOf(slot_size[Slot(Newest)], cap)
    BY <1>2, <1>3, LiveBatches DEF CountsAgree
  <2>2. Cardinality(Members(Newest)) # 0
    BY <2>1, CapIsPositive DEF MinOf
  <2> QED BY <2>2, FS_EmptySet
<1>12. Newest \in Nat /\ slot_size[Slot(Newest)] \in Nat
  BY <1>2, LiveBatches DEF TypeOK
<1>13. CountsAgree'
  <2>1. \A b \in 0 .. Newest' : Cardinality(Members(b)) <= cap
    <3>1. Cardinality(Members(Newest + 1)) = 0
      BY <1>10, FS_EmptySet
    <3> QED BY <1>3, <1>9, <1>12, <3>1, CapIsPositive DEF CountsAgree, BatchSizeBound
  <2>2. ASSUME NEW b \in Live'
        PROVE  Cardinality(Members(b)) = MinOf(slot_size'[Slot(b)], cap)
    <3>1. CASE b \in Live
      BY <1>3, <1>9, <3>1 DEF CountsAgree
    <3>2. CASE opens /\ b = Newest + 1
      <4>1. slot_size'[Slot(b)] = 0
        BY <1>9, <3>2
      <4>2. Members(b) = {}
        BY <1>10, <3>2
      <4>3. MinOf(0, cap) = 0
        BY CapIsPositive DEF MinOf
      <4> QED BY <4>1, <4>2, <4>3, FS_EmptySet
    <3> QED BY <1>9, <3>1, <3>2
  <2>3. \A b \in 0 .. Newest' - 1 : Members(b) # {}
    BY <1>3, <1>9, <1>11, <1>12 DEF CountsAgree
  <2>4. pc' \in {"pick", "commit"} => slot_size'[Slot(Newest')] = 0
    <3>1. CASE opens
      BY <1>9, <3>1
    <3>2. CASE ~opens
      BY <1>1, <1>5, <1>9, <1>12, <3>2
    <3> QED BY <3>1, <3>2
  <2>5. BatchSizeBound'
    BY <1>7, <2>1 DEF BatchSizeBound
  <2>6. \A b \in Live' : Cardinality(Members(b)') = MinOf(slot_size'[Slot(b)], cap)
    BY <1>7, <2>2
  <2>7. \A b \in 0 .. Newest' - 1 : Members(b)' # {}
    BY <1>7, <2>3
  <2>8. pc' \in {"pick", "commit"} => slot_size'[Slot(Newest)'] = 0
    BY <2>4 DEF Slot
  <2> QED BY <2>5, <2>6, <2>7, <2>8 DEF CountsAgree
<1>14. BitmapsAreMarks'
  <2>1. ASSUME NEW b \in Live'
        PROVE  slot_maps'[Slot(b)] \subseteq UNION {Marks(m) : m \in Members(b)}
    BY <1>3, <1>9 DEF BitmapsAreMarks
  <2> QED BY <1>1, <1>7, <2>1 DEF BitmapsAreMarks, Marks
<1>15. \A n \in Net : ~Picked(n)'
  BY <1>1, <1>5 DEF Picked, Handled
<1>16. ScansAreFinal'
  <2> SUFFICES ASSUME NEW n \in Net
               PROVE  /\ scan_from[n] <= Newest'
                      /\ Placed(n) => scan_from[n] = batch_of_net[n]
                      /\ \A b \in Live' : b < scan_from[n] => Refuses(b, n)
    BY <1>1, <1>8, <1>15 DEF ScansAreFinal, Placed
  <2>1. scan_from[n] \in Nat /\ scan_from[n] <= Newest
    BY <1>2, <1>3 DEF TypeOK, ScansAreFinal
  <2>2. \A b \in Live' : b < scan_from[n] => b \in Live
    BY <1>9, <1>12, <2>1
  <2> QED BY <1>3, <1>9, <1>12, <2>1, <2>2 DEF ScansAreFinal
<1>17. OwnersInFlight' /\ RoomIsLeft'
  <2>1. OwnersInFlight'
    BY <1>1, <1>3 DEF OwnersInFlight
  <2>2. RoomIsLeft'
    BY <1>15 DEF RoomIsLeft
  <2> QED BY <2>1, <2>2
<1>18. wavefront' \in Nat \ {0} /\ wavefront' <= MaxWavefront
  <2>1. wavefront' \in Nat \ {0} /\ wavefront \in Nat /\ wavefront <= MaxWavefront
    BY <1>2 DEF TypeOK, PlacementInv
  <2>2. wavefront_cap <= MaxWavefront /\ wavefront_cap \in Nat
    BY SizesAssumption DEF wavefront_cap, MinOf
  <2>3. wavefront \div 2 \in Nat /\ wavefront \div 2 <= MaxWavefront
    BY <2>1, SizesAssumption
  <2>4. \/ wavefront' = MaxOf(MinWavefront, wavefront \div 2)
        \/ wavefront' = MinOf(wavefront_cap, wavefront * 2)
        \/ wavefront' = wavefront
    BY <1>1 DEF Retune
  <2>5. CASE wavefront' = MaxOf(MinWavefront, wavefront \div 2)
    BY <2>1, <2>3, <2>5, SizesAssumption DEF MaxOf
  <2>6. CASE wavefront' = MinOf(wavefront_cap, wavefront * 2)
    BY <2>1, <2>2, <2>6, SizesAssumption DEF MinOf
  <2> QED BY <2>1, <2>4, <2>5, <2>6
<1>19. WavefrontFitsBuffers'
  <2>1. active' \in SUBSET Net /\ Cardinality(active') <= wavefront'
    BY <1>1, <1>2, <1>6, <1>18, PrefixSize DEF TypeOK
  <2>2. Cardinality(active') \in Nat /\ Cardinality(active') <= NetCnt
    BY <2>1, NetsAreFinite
  <2> QED BY <1>18, <2>1, <2>2, SizesAssumption DEF WavefrontFitsBuffers, wavefront_cap, MinOf
<1>20. BestIsPlaced'
  <2>1. rest # {} => active' # {}
    BY <1>1, <1>6, <1>18, PrefixIsNotEmpty
  <2> QED BY <1>5, <2>1 DEF BestIsPlaced
<1>21. pc' = "done" => pending' = {} /\ batch_count' = BatchTotal'
  <2>1. SUFFICES ASSUME rest = {} PROVE pending' = {} /\ BatchTotal' = BatchTotal
    BY <1>1, <1>5
  <2>2. ~opens
    BY <2>1
  <2> QED BY <1>1, <2>1, <2>2 DEF BatchTotal, Newest, Slot
<1> QED BY <1>5, <1>13, <1>14, <1>16, <1>17, <1>18, <1>19, <1>20, <1>21
        DEF PlacementInv, EveryRoundPlaces

-----------------------------------------------------------------------------
LEMMA InvariantStep == IInv /\ [Next]_vars => IInv'
<1> SUFFICES ASSUME IInv, [Next]_vars PROVE IInv'
  OBVIOUS
<1>1. KernelInv /\ PlacementInv
  BY DEF IInv
<1>2. CASE \E n \in Net : PickNet(n) \/ CommitNet(n) \/ CheckNet(n) \/ StampNet(n)
                          \/ ReleaseNet(n)
  <2>1. KernelInv'
    BY <1>1, <1>2, PickPreserves, CommitPreserves, CheckPreserves, StampPreserves,
       ReleasePreserves
  <2>2. PlacementInv'
    BY <1>2, PickPlacement, CommitPlacement, CheckPlacement, StampPlacement,
       ReleasePlacement
  <2> QED BY <2>1, <2>2 DEF IInv
<1>3. CASE Launch
  BY <1>1, <1>3, LaunchPreserves, LaunchPlacement DEF IInv
<1>4. CASE EndRound
  BY <1>1, <1>4, EndRoundPreserves, EndRoundPlacement DEF IInv
<1>5. CASE UNCHANGED vars
  <2>1. UNCHANGED <<footprint, pc, todo, pending, active, wavefront, slot_base, live_cnt,
                    stalled, batch_count, slot_maps, slot_size, owner, batch_of_net,
                    scan_from, pick, status>>
    BY <1>5 DEF vars, device, host
  <2>2. KernelInv'
    BY <1>1, <2>1 DEF KernelInv, TypeOK, WavefrontIsPrefix, StatusAgrees, PicksAreFree,
         OwnersAreBest, MarksAreStamped, NoOvertaking, ConflictFree, Placed, Handled,
         Marks, Points, Live, Newest
  <2>3. CountsAgree' /\ BitmapsAreMarks'
    BY <1>1, <2>1 DEF PlacementInv, CountsAgree, BatchSizeBound, BitmapsAreMarks,
         Members, Marks, Live, Newest, Slot
  <2>4. ScansAreFinal' /\ OwnersInFlight' /\ RoomIsLeft' /\ BestIsPlaced'
    BY <1>1, <2>1 DEF PlacementInv, ScansAreFinal, OwnersInFlight, RoomIsLeft,
         BestIsPlaced, Placed, Picked, Handled, Refuses, HasRoom, Members, Marks,
         Points, Live, Newest, Slot
  <2>5. /\ EveryRoundPlaces' /\ wavefront' <= MaxWavefront /\ WavefrontFitsBuffers'
        /\ pc' = "done" => pending' = {} /\ batch_count' = BatchTotal'
    BY <1>1, <2>1 DEF PlacementInv, EveryRoundPlaces, WavefrontFitsBuffers, BatchTotal,
         Newest, Slot
  <2> QED BY <2>2, <2>3, <2>4, <2>5 DEF IInv, PlacementInv
<1> QED BY <1>2, <1>3, <1>4, <1>5 DEF Next

(* IInv is inductive: the picks, the owner map, the counters and the scans of  *)
(* the five kernels stay consistent with the placements in every state.        *)
THEOREM Invariance == Spec => []IInv
<1>1. Init => IInv
  BY InitInv, InitPlacement DEF IInv
<1> QED BY <1>1, InvariantStep, PTL DEF Spec

(* However the warps of a kernel race for the last places, no batch holds more *)
(* nets than the router has buffers for.                                       *)
THEOREM BatchesAreBounded == Spec => []BatchSizeBound
<1>1. IInv => BatchSizeBound
  BY DEF IInv, PlacementInv, CountsAgree
<1> QED BY <1>1, Invariance, PTL

(* Every round places a net: the stall counter that would send the job back to *)
(* the CPU never leaves 0.                                                     *)
THEOREM NeverStalls == Spec => []EveryRoundPlaces
<1>1. IInv => EveryRoundPlaces
  BY DEF IInv, PlacementInv
<1> QED BY <1>1, Invariance, PTL

(* However the host retunes the wavefront, the kernels have as many entries as *)
(* there are warps.                                                            *)
THEOREM BuffersSuffice == Spec => []WavefrontFitsBuffers
<1>1. IInv => WavefrontFitsBuffers
  BY DEF IInv, PlacementInv
<1> QED BY <1>1, Invariance, PTL

(* Resuming a scan at scan_from never skips an open batch that had room.       *)
THEOREM FirstFitIsKept == Spec => []FirstFitAmongOpen
<1>1. IInv => FirstFitAmongOpen
  BY DEF IInv, PlacementInv, ScansAreFinal, FirstFitAmongOpen
<1> QED BY <1>1, Invariance, PTL

(* What generate() returns is a partition of all nets into non-empty batches:  *)
(* the empty batch that the comment at database_cuda.hpp:463-465 expects does  *)
(* not occur, and the compaction of lines 466-471 never drops one of these.    *)
THEOREM ResultIsComplete == Spec => []ResultComplete
<1>1. IInv => ResultComplete
  <2> SUFFICES ASSUME IInv, pc = "done"
               PROVE  /\ \A n \in Net : batch_of_net[n] \in 0 .. batch_count - 1
                      /\ \A b \in 0 .. batch_count - 1 : Members(b) # {}
    BY DEF ResultComplete
  <2>1. TypeOK /\ WavefrontIsPrefix /\ PicksAreFree /\ CountsAgree
    BY DEF IInv, KernelInv, PlacementInv
  <2>2. pending = {} /\ batch_count = BatchTotal
    BY DEF IInv, PlacementInv
  <2>3. \A n \in Net : batch_of_net[n] \in 0 .. Newest
    BY <2>1, <2>2, LiveBatches DEF TypeOK, WavefrontIsPrefix, PicksAreFree, Placed
  <2>4. /\ slot_size[Slot(Newest)] \in Nat
        /\ Cardinality(Members(Newest)) = MinOf(slot_size[Slot(Newest)], cap)
    BY <2>1, LiveBatches DEF TypeOK, CountsAgree
  <2>5. CASE slot_size[Slot(Newest)] = 0
    <3>1. batch_count = Newest
      BY <2>1, <2>2, <2>5, LiveBatches DEF BatchTotal, Newest
    <3>2. Cardinality(Members(Newest)) = 0
      BY <2>4, <2>5, CapIsPositive DEF MinOf
    <3>3. \A n \in Net : batch_of_net[n] # Newest
      BY <3>2, MembersAreNets DEF Members
    <3>4. Newest \in Nat
      BY <2>1, LiveBatches
    <3>5. \A n \in Net : batch_of_net[n] \in 0 .. Newest - 1
      BY <2>3, <3>3, <3>4
    <3>6. \A b \in 0 .. Newest - 1 : Members(b) # {}
      BY <2>1 DEF CountsAgree
    <3> QED BY <3>1, <3>5, <3>6
  <2>6. CASE slot_size[Slot(Newest)] # 0
    <3>1. batch_count = Newest + 1 /\ Newest \in Nat
      BY <2>1, <2>2, <2>6, LiveBatches DEF BatchTotal, Newest
    <3>2. Cardinality(Members(Newest)) # 0
      BY <2>4, <2>6, CapIsPositive DEF MinOf
    <3>3. Members(Newest) # {}
      BY <3>2, FS_EmptySet
    <3> QED BY <2>1, <2>3, <3>1, <3>3 DEF CountsAgree
  <2> QED BY <2>5, <2>6
<1> QED BY <1>1, Invariance, PTL

-----------------------------------------------------------------------------
(* When every batch below b has a member and some net has no batch, there are  *)
(* more nets than b: the batches never outnumber the nets.                     *)
LEMMA BatchesFitNets ==
  ASSUME NEW n \in Net, batch_of_net[n] = -1, NEW b \in Nat,
         \A lower \in 0 .. b - 1 : Members(lower) # {}
  PROVE  b \in 0 .. NetCnt - 1
<1> DEFINE S == {m \in Net : batch_of_net[m] \in 0 .. b - 1}
           f == [m \in S |-> batch_of_net[m]]
<1>1. S \in SUBSET Net /\ n \in Net /\ n \notin S
  OBVIOUS
<1>2. IsFiniteSet(Net) /\ Cardinality(Net) = NetCnt
  <2>1. 0 \in Int /\ NetCnt - 1 \in Int /\ ~ (0 > NetCnt - 1) /\ NetCnt - 1 - 0 + 1 = NetCnt
    BY SizesAssumption
  <2> QED BY ONLY <2>1, FS_Interval DEF Net
<1>3. IsFiniteSet(S) /\ Cardinality(S) \in Nat /\ Cardinality(S) <= NetCnt
  BY <1>1, NetsAreFinite
<1>4. Cardinality(S) # NetCnt
  BY <1>1, <1>2, FS_Subset
<1>5. f \in Surjection(S, 0 .. b - 1)
  BY DEF Members, Surjection
<1>6. Cardinality(0 .. b - 1) <= Cardinality(S)
  BY <1>3, <1>5, FS_Surjection
<1>7. Cardinality(0 .. b - 1) = b
  BY FS_Interval
<1> QED BY <1>3, <1>4, <1>6, <1>7, SizesAssumption

(* The check kernel places a net the way the abstract specification does.      *)
LEMMA CheckImplements ==
  ASSUME IInv, KernelInv', NEW n \in Net, CheckNet(n)
  PROVE  Partition!Next \/ UNCHANGED <<footprint, batch_of_net>>
<1> DEFINE b      == pick[n]
           placed == OwnsItsPoints(n) /\ b >= 0 /\ HasRoom(Slot(b))
<1>1. /\ pc = "check" /\ n \in todo /\ footprint' = footprint
      /\ batch_of_net' = IF placed THEN [batch_of_net EXCEPT ![n] = b] ELSE batch_of_net
  BY DEF CheckNet
<1>2. SUFFICES ASSUME placed PROVE Partition!Next
  BY <1>1
<1>3. TypeOK /\ StatusAgrees /\ PicksAreFree /\ CountsAgree /\ ScansAreFinal
  BY DEF IInv, KernelInv, PlacementInv
<1>4. b \in Live /\ b \in Nat /\ b <= Newest /\ Newest \in Nat
  <2>1. Picked(n)
    BY <1>1, <1>3 DEF Picked, TypeOK
  <2> QED BY <1>3, <2>1, LiveBatches DEF ScansAreFinal
<1>5. batch_of_net[n] = -1
  BY <1>1, <1>3 DEF TypeOK, StatusAgrees, Placed
<1>6. \A lower \in 0 .. b - 1 : Members(lower) # {}
  BY <1>3, <1>4 DEF CountsAgree
<1>7. Cardinality(Members(b)) < cap
  BY <1>2, <1>3, <1>4, LiveBatches DEF CountsAgree, HasRoom, MinOf, TypeOK
<1>8. ASSUME NEW m \in Members(b)
      PROVE  IF m < n THEN Marks(m) \cap Points(n) = {} ELSE Marks(n) \cap Points(m) = {}
  <2>1. m \in Net /\ batch_of_net[m] = b /\ m # n
    BY <1>4, <1>5, <1>8 DEF Members
  <2>2. batch_of_net'[m] = b /\ batch_of_net'[n] = b
    BY <1>1, <1>2, <1>3, <2>1 DEF TypeOK
  <2>3. \A x, y \in Net : x < y /\ batch_of_net'[x] = b /\ batch_of_net'[y] = b
                            => Marks(x) \cap Points(y) = {}
    BY <1>1, <1>4 DEF KernelInv, ConflictFree, Placed, Marks, Points
  <2>4. m < n \/ n < m
    BY <2>1, SizesAssumption DEF Net
  <2> QED BY <2>1, <2>2, <2>3, <2>4
<1>9. b \in 0 .. NetCnt - 1
  BY <1>4, <1>5, <1>6, BatchesFitNets
<1>10. Partition!Place(n, b)
  <2>1. Partition!Members(b) = Members(b)
        /\ \A lower : Partition!Members(lower) = Members(lower)
    BY DEF Partition!Members, Members, Partition!Net, Net
  <2>2. Partition!Cardinality(Members(b)) = Cardinality(Members(b))
    BY DEF Partition!Cardinality, Cardinality
  <2>3. \A m \in Members(b) : IF m < n THEN Partition!Clear(m, n) ELSE Partition!Clear(n, m)
    BY <1>8 DEF Partition!Clear, Marks, Points
  <2> QED BY <1>1, <1>2, <1>5, <1>6, <1>7, <2>1, <2>2, <2>3 DEF Partition!Place
<1> QED BY <1>9, <1>10 DEF Partition!Next, Partition!Net, Net

(* The five kernels and the host's rounds implement the sequential promise:    *)
(* they start with no net placed, and every step places one net as             *)
(* BatchPartition does or places none. (That all nets are placed in the end is *)
(* liveness, and model-checked.)                                               *)
THEOREM PartitionRefined ==
  Spec => Partition!Init /\ [][Partition!Next]_<<footprint, batch_of_net>>
<1>1. Init => Partition!Init
  BY DEF Init, Partition!Init, Partition!Net, Net
<1>2. IInv /\ IInv' /\ [Next]_vars => [Partition!Next]_<<footprint, batch_of_net>>
  <2> SUFFICES ASSUME IInv, IInv', [Next]_vars
               PROVE  Partition!Next \/ UNCHANGED <<footprint, batch_of_net>>
    OBVIOUS
  <2>1. CASE \E n \in Net : CheckNet(n)
    BY <2>1, CheckImplements DEF IInv
  <2>2. CASE \E n \in Net : PickNet(n) \/ CommitNet(n) \/ StampNet(n) \/ ReleaseNet(n)
    BY <2>2 DEF PickNet, CommitNet, StampNet, ReleaseNet
  <2>3. CASE Launch \/ EndRound \/ UNCHANGED vars
    BY <2>3 DEF Launch, EndRound, vars, device
  <2> QED BY <2>1, <2>2, <2>3 DEF Next
<1> QED BY <1>1, <1>2, Invariance, PTL DEF Spec
=============================================================================
