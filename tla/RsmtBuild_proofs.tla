--------------------------- MODULE RsmtBuild_proofs ---------------------------
(***************************************************************************)
(* Proofs about RsmtBuild: whatever the threads on the two paths, the      *)
(* size of a chunk, the nets and their degrees, no net is in the hands of  *)
(* two threads, and after the join every net has been given one tree.      *)
(***************************************************************************)
EXTENDS RsmtBuild, Ascending_proofs

High == {i \in Net : high[i]}

TypeOK ==
  /\ \E n \in 1 .. MaxNets : high \in [1 .. n -> BOOLEAN]
  /\ cpu \in {"wait", "run", "done"} /\ gpu \in {"solve", "rebuild", "done"}
  /\ joined \in BOOLEAN
  /\ claimed \subseteq Net /\ next_chunk \in Nat
  /\ todo \in [Thread -> Seq(Net)]
  /\ seen \in [Thread -> Nat \cup {None}]
  /\ built \in [Net -> Nat] /\ TOT_RSMT_LENGTH \in Nat

(* The net has been given out: by the loop, or with a chunk of the list.      *)
Chunked(i) == \E k \in 1 .. Len(gpu_flute_nets) : k <= next_chunk /\ gpu_flute_nets[k] = i
Handed(i)  == IF high[i] THEN Chunked(i) ELSE i \in claimed

Mine(t) == ToSet(todo[t])

(* A net is in the hands of at most one thread, of the path it belongs to,    *)
(* only once it was given out, and only until it is built.                    *)
OwnersOK ==
  /\ \A t \in Thread : \A i \in Mine(t) :
       Handed(i) /\ built[i] = 0 /\ (high[i] <=> t \in GpuThreads)
  /\ \A t, u \in Thread : t # u => Mine(t) \cap Mine(u) = {}
  /\ \A t \in Thread : \A k, l \in 1 .. Len(todo[t]) : todo[t][k] = todo[t][l] => k = l

(* No net that was given out is lost.                                         *)
ProgressOK ==
  \A i \in Net : IF Handed(i) THEN built[i] = 1 \/ \E t \in Thread : i \in Mine(t)
                              ELSE built[i] = 0

EndOK ==
  /\ cpu = "done" => claimed = Net /\ \A t \in CpuThreads : todo[t] = <<>>
  /\ gpu = "done" => next_chunk >= Len(gpu_flute_nets) /\ \A t \in GpuThreads : todo[t] = <<>>
  /\ joined => BothEnded

BuildInv == TypeOK /\ OwnersOK /\ ProgressOK /\ EndOK
-----------------------------------------------------------------------------
(* The list has every net of a high degree once.                              *)
LEMMA HighListed ==
  ASSUME TypeOK
  PROVE  /\ Len(gpu_flute_nets) \in Nat
         /\ gpu_flute_nets \in Seq(High)
         /\ \A i \in High : \E k \in 1 .. Len(gpu_flute_nets) : gpu_flute_nets[k] = i
         /\ \A k, l \in 1 .. Len(gpu_flute_nets) : gpu_flute_nets[k] = gpu_flute_nets[l] => k = l
<1>1. PICK n \in 1 .. MaxNets : high \in [1 .. n -> BOOLEAN]
  BY DEF TypeOK
<1>2. n \in Int /\ Net = 1 .. n
  BY <1>1, BuildAssumption DEF Net
<1>3. IsFiniteSet(Net) /\ Net \in SUBSET Int
  <2>1. 1 \in Int
    OBVIOUS
  <2> QED BY <1>2, <2>1, FS_Interval
<1>4. IsFiniteSet(High) /\ High \in SUBSET Int
  BY <1>3, FS_Subset DEF High
<1>5. gpu_flute_nets = Ascending(High)
  BY DEF gpu_flute_nets, High
<1>6. /\ Cardinality(High) \in Nat
      /\ Ascending(High) \in Seq(High) /\ Len(Ascending(High)) = Cardinality(High)
      /\ \A i \in High : \E k \in 1 .. Cardinality(High) : Ascending(High)[k] = i
      /\ \A k, l \in 1 .. Cardinality(High) : k < l => Ascending(High)[k] < Ascending(High)[l]
  BY <1>4, AscendingProperties
<1>7. ASSUME NEW k \in 1 .. Cardinality(High), NEW l \in 1 .. Cardinality(High),
             Ascending(High)[k] = Ascending(High)[l]
      PROVE  k = l
  <2>1. Ascending(High)[k] \in Int
    BY <1>4, <1>6, ElementOfSeq
  <2>2. ~ (Ascending(High)[k] < Ascending(High)[l]) /\ ~ (Ascending(High)[l] < Ascending(High)[k])
    BY <1>7, <2>1
  <2>3. ~ (k < l) /\ ~ (l < k)
    BY <1>6, <2>2
  <2> QED BY <1>6, <2>3
<1> QED BY <1>5, <1>6, <1>7

LEMMA ListStays ==
  ASSUME high' = high
  PROVE  Net' = Net /\ gpu_flute_nets' = gpu_flute_nets
BY DEF Net, gpu_flute_nets

LEMMA MembersOf ==
  ASSUME NEW S, NEW s \in Seq(S)
  PROVE  /\ Len(s) \in Nat /\ ToSet(s) \subseteq S
         /\ \A i : i \in ToSet(s) <=> \E k \in 1 .. Len(s) : s[k] = i
         /\ s = <<>> <=> ToSet(s) = {}
<1>1. Len(s) \in Nat /\ DOMAIN s = 1 .. Len(s) /\ \A k \in 1 .. Len(s) : s[k] \in S
  BY LenProperties, ElementOfSeq
<1>2. \A i : i \in ToSet(s) <=> \E k \in 1 .. Len(s) : s[k] = i
  BY <1>1 DEF ToSet
<1>3. s = <<>> => ToSet(s) = {}
  BY DEF ToSet
<1>4. s # <<>> => s[1] \in ToSet(s)
  <2>1. s # <<>> => 1 \in 1 .. Len(s)
    BY <1>1, EmptySeq
  <2> QED BY <1>2, <2>1
<1> QED BY <1>1, <1>2, <1>3, <1>4

LEMMA HandsOf ==
  ASSUME TypeOK, NEW t \in Thread
  PROVE  /\ todo[t] \in Seq(Net) /\ Len(todo[t]) \in Nat
         /\ \A i : i \in Mine(t) <=> \E k \in 1 .. Len(todo[t]) : todo[t][k] = i
         /\ Mine(t) \subseteq Net
         /\ todo[t] = <<>> <=> Mine(t) = {}
<1>1. todo[t] \in Seq(Net)
  BY DEF TypeOK
<1> QED BY <1>1, MembersOf DEF Mine
-----------------------------------------------------------------------------
LEMMA BuildInit == Init => BuildInv
<1> SUFFICES ASSUME Init PROVE BuildInv
  OBVIOUS
<1>1. PICK n \in 1 .. MaxNets : high \in [1 .. n -> BOOLEAN]
  BY DEF Init
<1>2. todo = [t \in Thread |-> <<>>] /\ next_chunk = 0 /\ claimed = {} /\ joined = FALSE
      /\ built = [i \in Net |-> 0]
  BY DEF Init
<1>3. TypeOK
  <2>1. todo \in [Thread -> Seq(Net)]
    BY <1>2, EmptySeq
  <2>2. \E m \in 1 .. MaxNets : high \in [1 .. m -> BOOLEAN]
    BY <1>1
  <2> QED BY <2>1, <2>2 DEF Init, TypeOK
<1>4. \A t \in Thread : Mine(t) = {} /\ todo[t] = <<>> /\ Len(todo[t]) = 0
  BY <1>2, <1>3, HandsOf
<1>5. \A i : ~ Chunked(i)
  BY <1>2, <1>3, HighListed DEF Chunked
<1>6. \A i \in Net : ~ Handed(i)
  BY <1>2, <1>5 DEF Handed
<1>7. OwnersOK /\ ProgressOK
  BY <1>2, <1>4, <1>6 DEF OwnersOK, ProgressOK
<1>8. EndOK
  <2>1. cpu # "done"
    BY DEF Init
  <2>2. gpu = "done" => gpu_flute_nets = <<>>
    BY DEF Init
  <2>3. gpu_flute_nets = <<>> => Len(gpu_flute_nets) = 0
    OBVIOUS
  <2> QED BY <1>2, <1>4, <2>1, <2>2, <2>3 DEF EndOK, Thread
<1> QED BY <1>3, <1>7, <1>8 DEF BuildInv

(* Steps that only move the phases or the sum.                                *)
LEMMA HandsStay ==
  ASSUME TypeOK, OwnersOK, ProgressOK, UNCHANGED <<high, claimed, next_chunk, todo, built>>
  PROVE  OwnersOK' /\ ProgressOK'
<1>1. Net' = Net /\ gpu_flute_nets' = gpu_flute_nets
  BY ListStays
<1>2. (\A t \in Thread : Mine(t)' = Mine(t)) /\ (\A i : Handed(i)' <=> Handed(i))
  BY <1>1 DEF Mine, Handed, Chunked
<1> QED BY <1>1, <1>2 DEF OwnersOK, ProgressOK

LEMMA PhaseSteps ==
  ASSUME BuildInv, EndLoop \/ Solve \/ EndRebuild \/ Join \/ (\E t \in Thread : LoadLength(t))
                   \/ UNCHANGED vars
  PROVE  BuildInv'
<1> USE DEF BuildInv
<1>1. UNCHANGED <<high, claimed, next_chunk, todo, built, TOT_RSMT_LENGTH>>
  BY DEF EndLoop, Solve, EndRebuild, Join, LoadLength, vars
<1>2. Net' = Net /\ gpu_flute_nets' = gpu_flute_nets
  BY <1>1, ListStays
<1>3. OwnersOK' /\ ProgressOK'
  BY <1>1, HandsStay
<1>4. /\ cpu' \in {"wait", "run", "done"} /\ gpu' \in {"solve", "rebuild", "done"}
      /\ joined' \in BOOLEAN
  BY DEF TypeOK, EndLoop, Solve, EndRebuild, Join, LoadLength, vars
<1>5. seen' \in [Thread -> Nat \cup {None}]
  BY DEF TypeOK, EndLoop, Solve, EndRebuild, Join, LoadLength, vars
<1>6. TypeOK'
  BY <1>1, <1>2, <1>4, <1>5 DEF TypeOK
<1>7. EndOK'
  BY <1>1, <1>2 DEF EndOK, BothEnded, EndLoop, Solve, EndRebuild, Join, LoadLength, vars
<1> QED BY <1>3, <1>6, <1>7

LEMMA StartStep ==
  ASSUME BuildInv, NEW t \in CpuThreads, StartIteration(t)
  PROVE  BuildInv'
<1> USE DEF BuildInv
<1>1. PICK i \in Net \ claimed :
        /\ claimed' = claimed \cup {i}
        /\ todo' = [todo EXCEPT ![t] = IF high[i] THEN <<>> ELSE <<i>>]
  BY DEF StartIteration
<1>2. /\ UNCHANGED <<high, overlap, cpu, gpu, joined, next_chunk, seen, built, TOT_RSMT_LENGTH>>
      /\ cpu = "run" /\ todo[t] = <<>> /\ t \in Thread /\ t \notin GpuThreads
  BY BuildAssumption DEF StartIteration, Thread
<1>3. Net' = Net /\ gpu_flute_nets' = gpu_flute_nets
  BY <1>2, ListStays
<1>4. todo' \in [Thread -> Seq(Net)]
  <2>1. <<>> \in Seq(Net) /\ <<i>> \in Seq(Net)
    OBVIOUS
  <2> QED BY <1>1, <2>1 DEF TypeOK
<1>5. TypeOK'
  BY <1>1, <1>2, <1>3, <1>4 DEF TypeOK
<1>6. \A u \in Thread : u # t => todo'[u] = todo[u]
  BY <1>1 DEF TypeOK
<1>7. todo'[t] = IF high[i] THEN <<>> ELSE <<i>>
  BY <1>1, <1>2 DEF TypeOK
<1>8. \A u \in Thread : u # t => Mine(u)' = Mine(u)
  BY <1>6 DEF Mine
<1>9. Mine(t) = {} /\ Mine(t)' = IF high[i] THEN {} ELSE {i}
  <2>1. Mine(t) = {}
    BY <1>2, HandsOf
  <2>2. ToSet(<<>>) = {}
    BY DEF ToSet
  <2>3. ToSet(<<i>>) = {i}
    BY DEF ToSet
  <2>4. Mine(t)' = ToSet(todo'[t])
    BY DEF Mine
  <2> QED BY <1>7, <2>1, <2>2, <2>3, <2>4
<1>10. \A j : Chunked(j)' <=> Chunked(j)
  BY <1>2, <1>3 DEF Chunked
<1>11. \A j \in Net : Handed(j)' <=> Handed(j) \/ (j = i /\ ~ high[i])
  BY <1>1, <1>2, <1>10 DEF Handed
<1>12. ~ high[i] => ~ Handed(i) /\ built[i] = 0 /\ \A u \in Thread : i \notin Mine(u)
  BY <1>1 DEF Handed, ProgressOK, OwnersOK
<1>13. \A u \in Thread : Mine(u) \subseteq Net
  BY HandsOf
<1>14. ASSUME NEW u \in Thread, NEW j \in Mine(u)'
       PROVE  Handed(j)' /\ built'[j] = 0 /\ (high'[j] <=> u \in GpuThreads)
  <2>1. CASE u = t
    BY <1>1, <1>2, <1>9, <1>11, <1>12, <1>14, <2>1
  <2>2. CASE u # t
    BY <1>2, <1>8, <1>11, <1>13, <1>14, <2>2 DEF OwnersOK
  <2> QED BY <2>1, <2>2
<1>15. ASSUME NEW u \in Thread, NEW v \in Thread, u # v
       PROVE  Mine(u)' \cap Mine(v)' = {}
  BY <1>8, <1>9, <1>12, <1>15 DEF OwnersOK
<1>16. ASSUME NEW u \in Thread, NEW k \in 1 .. Len(todo'[u]), NEW l \in 1 .. Len(todo'[u]),
              todo'[u][k] = todo'[u][l]
       PROVE  k = l
  <2>1. CASE u = t
    <3>1. Len(<<>>) = 0 /\ Len(<<i>>) = 1
      OBVIOUS
    <3> QED BY <1>7, <1>16, <2>1, <3>1
  <2>2. CASE u # t
    BY <1>6, <1>16, <2>2 DEF OwnersOK
  <2> QED BY <2>1, <2>2
<1>17. OwnersOK'
  BY <1>14, <1>15, <1>16 DEF OwnersOK
<1>18. ProgressOK'
  <2> SUFFICES ASSUME NEW j \in Net
               PROVE  IF Handed(j)' THEN built'[j] = 1 \/ \E u \in Thread : j \in Mine(u)'
                                    ELSE built'[j] = 0
    BY <1>3 DEF ProgressOK
  <2>1. CASE j = i /\ ~ high[i]
    BY <1>2, <1>9, <1>11, <2>1
  <2>2. CASE ~ (j = i /\ ~ high[i])
    <3>1. Handed(j)' <=> Handed(j)
      BY <1>11, <2>2
    <3>2. \A u \in Thread : j \in Mine(u) => j \in Mine(u)'
      BY <1>8, <1>9
    <3> QED BY <1>2, <3>1, <3>2 DEF ProgressOK
  <2> QED BY <2>1, <2>2
<1>19. EndOK'
  <2>1. \A u \in GpuThreads : todo'[u] = todo[u]
    BY <1>2, <1>6 DEF Thread
  <2> QED BY <1>2, <1>3, <2>1 DEF EndOK, BothEnded
<1> QED BY <1>5, <1>17, <1>18, <1>19

LEMMA ClaimStep ==
  ASSUME BuildInv, NEW t \in GpuThreads, ClaimChunk(t)
  PROVE  BuildInv'
<1> USE DEF BuildInv
<1> DEFINE list == gpu_flute_nets
           last == Min({next_chunk + CHUNK, Len(list)})
           new  == SubSeq(list, next_chunk + 1, last)
           Got  == {list[k] : k \in next_chunk + 1 .. last}
<1>1. /\ UNCHANGED <<high, overlap, cpu, gpu, joined, claimed, seen, built, TOT_RSMT_LENGTH>>
      /\ gpu = "rebuild" /\ todo[t] = <<>> /\ t \in Thread /\ t \in GpuThreads
      /\ next_chunk < Len(list) /\ next_chunk' = next_chunk + CHUNK
      /\ todo' = [todo EXCEPT ![t] = new]
  BY DEF ClaimChunk, ChunkStep, Thread
<1>2. /\ Len(list) \in Nat /\ list \in Seq(High) /\ next_chunk \in Nat /\ CHUNK \in Nat
      /\ CHUNK > 0
      /\ \A k, l \in 1 .. Len(list) : list[k] = list[l] => k = l
  BY HighListed, BuildAssumption DEF TypeOK
<1>3. list' = list /\ Net' = Net
  BY <1>1, ListStays
<1>4. last \in Nat /\ last <= Len(list) /\ next_chunk + 1 <= last /\ last <= next_chunk + CHUNK
      /\ \A k \in 1 .. Len(list) : k <= next_chunk + CHUNK => k <= last
  <2>1. next_chunk + CHUNK \in Nat /\ next_chunk + 1 <= next_chunk + CHUNK
        /\ next_chunk + 1 <= Len(list)
    BY <1>1, <1>2
  <2>2. CASE next_chunk + CHUNK <= Len(list)
    <3>1. last = next_chunk + CHUNK
      BY <1>2, <2>1, <2>2 DEF Min
    <3> HIDE DEF last, list
    <3> QED BY <1>2, <2>1, <2>2, <3>1
  <2>3. CASE ~ (next_chunk + CHUNK <= Len(list))
    <3>1. last = Len(list)
      BY <1>2, <2>1, <2>3 DEF Min
    <3> HIDE DEF last, list
    <3> QED BY <1>2, <2>1, <2>3, <3>1
  <2> QED BY <2>2, <2>3
<1> HIDE DEF list, last
<1>5. \A k \in next_chunk + 1 .. last : k \in 1 .. Len(list) /\ list[k] \in High
  <2> SUFFICES ASSUME NEW k \in next_chunk + 1 .. last
               PROVE  k \in 1 .. Len(list) /\ list[k] \in High
    OBVIOUS
  <2>1. k \in 1 .. Len(list)
    BY <1>2, <1>4
  <2> QED BY <1>2, <2>1, ElementOfSeq
<1>6. /\ new \in Seq(High) /\ Len(new) = last - next_chunk
      /\ \A k \in 1 .. Len(new) : new[k] = list[next_chunk + k]
  <2>1. next_chunk + 1 \in Int /\ last \in Int
    BY <1>2, <1>4
  <2>2. /\ new \in Seq(High)
        /\ Len(new) = IF next_chunk + 1 <= last THEN last - (next_chunk + 1) + 1 ELSE 0
        /\ \A k \in 1 .. last - (next_chunk + 1) + 1 : new[k] = list[next_chunk + 1 + k - 1]
    BY <1>5, <2>1, SubSeqProperties
  <2> HIDE DEF new
  <2>3. Len(new) = last - next_chunk
    BY <1>2, <1>4, <2>2
  <2>4. ASSUME NEW k \in 1 .. Len(new) PROVE new[k] = list[next_chunk + k]
    <3>1. k \in 1 .. last - (next_chunk + 1) + 1 /\ next_chunk + 1 + k - 1 = next_chunk + k
      BY <1>2, <1>4, <2>3
    <3> QED BY <2>2, <3>1
  <2> QED BY <2>2, <2>3, <2>4
<1> HIDE DEF new
<1>7. High \subseteq Net /\ \A i \in High : high[i]
  BY DEF High
<1>8. new \in Seq(Net)
  BY <1>6, <1>7, SeqMonotonic
<1>9. todo' \in [Thread -> Seq(Net)] /\ todo'[t] = new
      /\ \A u \in Thread : u # t => todo'[u] = todo[u]
  BY <1>1, <1>8 DEF TypeOK
<1>10. TypeOK'
  <2>1. next_chunk' \in Nat
    BY <1>1, <1>2
  <2> QED BY <1>1, <1>3, <1>9, <2>1 DEF TypeOK
<1>11. \A u \in Thread : u # t => Mine(u)' = Mine(u)
  BY <1>9 DEF Mine
<1>12. Mine(t)' = Got
  <2>1. \A i : i \in Mine(t)' <=> \E k \in 1 .. Len(todo'[t]) : todo'[t][k] = i
    BY <1>8, <1>9, MembersOf DEF Mine
  <2>2. ASSUME NEW k \in 1 .. Len(new) PROVE new[k] \in Got
    <3>1. next_chunk + k \in next_chunk + 1 .. last
      BY <1>2, <1>4, <1>6
    <3> QED BY <1>6, <3>1
  <2>3. ASSUME NEW k \in next_chunk + 1 .. last
        PROVE  \E l \in 1 .. Len(new) : new[l] = list[k]
    <3> DEFINE l == k - next_chunk
    <3>1. l \in 1 .. Len(new) /\ next_chunk + l = k
      BY <1>2, <1>4, <1>6
    <3> QED BY <1>6, <3>1
  <2>4. \A i \in Got : \E l \in 1 .. Len(new) : new[l] = i
    BY <2>3
  <2> HIDE DEF Got
  <2> QED BY <1>9, <2>1, <2>2, <2>4
<1>13. Got \subseteq High
  BY <1>5
<1>14. \A k \in 1 .. Len(list) : k <= next_chunk => k \notin next_chunk + 1 .. last
  BY <1>2, <1>4
<1>15. \A i \in Got : ~ Chunked(i)
  <2> SUFFICES ASSUME NEW k \in next_chunk + 1 .. last, Chunked(list[k])
               PROVE  FALSE
    OBVIOUS
  <2>1. PICK l \in 1 .. Len(list) : l <= next_chunk /\ list[l] = list[k]
    BY DEF Chunked, list
  <2>2. k = l
    BY <1>2, <1>5, <2>1
  <2> QED BY <1>14, <2>1, <2>2
<1>16. \A i : Chunked(i)' <=> Chunked(i) \/ i \in Got
  <2>1. \A k \in 1 .. Len(list) :
          k <= next_chunk + CHUNK <=> k <= next_chunk \/ k \in next_chunk + 1 .. last
    BY <1>2, <1>4
  <2>2. \A i : Chunked(i)' <=> \E k \in 1 .. Len(list) : k <= next_chunk + CHUNK /\ list[k] = i
    BY <1>1, <1>3 DEF Chunked, list
  <2>3. \A i : Chunked(i) <=> \E k \in 1 .. Len(list) : k <= next_chunk /\ list[k] = i
    BY DEF Chunked, list
  <2>4. \A i : i \in Got <=> \E k \in 1 .. Len(list) : k \in next_chunk + 1 .. last /\ list[k] = i
    BY <1>5
  <2> HIDE DEF Got
  <2> QED BY <2>1, <2>2, <2>3, <2>4
<1> HIDE DEF Got
<1>17. \A i \in Net : Handed(i)' <=> Handed(i) \/ i \in Got
  BY <1>1, <1>7, <1>13, <1>16 DEF Handed
<1>18. \A i \in Got : ~ Handed(i) /\ built[i] = 0 /\ \A u \in Thread : i \notin Mine(u)
  <2>1. \A i \in Got : ~ Handed(i) /\ i \in Net
    BY <1>7, <1>13, <1>15 DEF Handed
  <2> QED BY <2>1 DEF ProgressOK, OwnersOK
<1>19. \A u \in Thread : Mine(u) \subseteq Net
  BY HandsOf
<1>20. ASSUME NEW u \in Thread, NEW j \in Mine(u)'
       PROVE  Handed(j)' /\ built'[j] = 0 /\ (high'[j] <=> u \in GpuThreads)
  <2>1. CASE u = t
    BY <1>1, <1>7, <1>12, <1>13, <1>17, <1>18, <1>20, <2>1
  <2>2. CASE u # t
    BY <1>1, <1>11, <1>17, <1>19, <1>20, <2>2 DEF OwnersOK
  <2> QED BY <2>1, <2>2
<1>21. ASSUME NEW u \in Thread, NEW v \in Thread, u # v
       PROVE  Mine(u)' \cap Mine(v)' = {}
  BY <1>11, <1>12, <1>18, <1>21 DEF OwnersOK
<1>22. ASSUME NEW u \in Thread, NEW k \in 1 .. Len(todo'[u]), NEW l \in 1 .. Len(todo'[u]),
              todo'[u][k] = todo'[u][l]
       PROVE  k = l
  <2>1. CASE u = t
    <3>1. k \in 1 .. Len(new) /\ l \in 1 .. Len(new) /\ new[k] = new[l]
      BY <1>9, <1>22, <2>1
    <3>2. list[next_chunk + k] = list[next_chunk + l]
      BY <1>6, <3>1
    <3>3. next_chunk + k \in 1 .. Len(list) /\ next_chunk + l \in 1 .. Len(list)
      BY <1>2, <1>4, <1>6, <3>1
    <3>4. next_chunk + k = next_chunk + l
      BY <1>2, <3>2, <3>3
    <3> QED BY <1>2, <3>4
  <2>2. CASE u # t
    BY <1>9, <1>22, <2>2 DEF OwnersOK
  <2> QED BY <2>1, <2>2
<1>23. OwnersOK'
  BY <1>20, <1>21, <1>22 DEF OwnersOK
<1>24. ProgressOK'
  <2> SUFFICES ASSUME NEW j \in Net
               PROVE  IF Handed(j)' THEN built'[j] = 1 \/ \E u \in Thread : j \in Mine(u)'
                                    ELSE built'[j] = 0
    BY <1>3 DEF ProgressOK
  <2>1. CASE j \in Got
    BY <1>1, <1>12, <1>17, <2>1
  <2>2. CASE j \notin Got
    <3>1. Handed(j)' <=> Handed(j)
      BY <1>17, <2>2
    <3>2. Mine(t) = {}
      BY <1>1, HandsOf
    <3>3. \A u \in Thread : j \in Mine(u) => j \in Mine(u)'
      BY <1>11, <3>2
    <3> QED BY <1>1, <3>1, <3>3 DEF ProgressOK
  <2> QED BY <2>1, <2>2
<1>25. EndOK'
  <2>1. \A u \in CpuThreads : todo'[u] = todo[u]
    BY <1>1, <1>9, BuildAssumption DEF Thread
  <2> QED BY <1>1, <2>1, <1>3 DEF EndOK, BothEnded
<1> QED BY <1>10, <1>23, <1>24, <1>25

LEMMA StoreStep ==
  ASSUME BuildInv, NEW t \in Thread, StoreLength(t)
  PROVE  BuildInv'
<1> USE DEF BuildInv
<1> DEFINE i == Head(todo[t])
<1>1. /\ UNCHANGED <<high, overlap, cpu, gpu, joined, claimed, next_chunk>>
      /\ todo[t] # <<>> /\ seen[t] # None
      /\ TOT_RSMT_LENGTH' = seen[t] + 1 /\ seen' = [seen EXCEPT ![t] = None]
      /\ built' = [built EXCEPT ![i] = built[i] + 1]
      /\ todo' = [todo EXCEPT ![t] = Tail(todo[t])]
  BY DEF StoreLength
<1>2. Net' = Net /\ gpu_flute_nets' = gpu_flute_nets
  BY <1>1, ListStays
<1>3. todo[t] \in Seq(Net) /\ Len(todo[t]) \in Nat /\ Len(todo[t]) > 0
      /\ \A j : j \in Mine(t) <=> \E k \in 1 .. Len(todo[t]) : todo[t][k] = j
  BY <1>1, HandsOf, EmptySeq
<1>4. /\ i \in Net /\ i = todo[t][1] /\ Tail(todo[t]) \in Seq(Net)
      /\ Len(Tail(todo[t])) = Len(todo[t]) - 1
      /\ \A k \in 1 .. Len(Tail(todo[t])) : Tail(todo[t])[k] = todo[t][k + 1]
  BY <1>1, <1>3, HeadTailProperties
<1> HIDE DEF i
<1>5. i \in Mine(t) /\ built[i] = 0 /\ built[i] \in Nat
  <2>1. 1 \in 1 .. Len(todo[t])
    BY <1>3
  <2> QED BY <1>3, <1>4, <2>1 DEF OwnersOK, TypeOK
<1>6. todo' \in [Thread -> Seq(Net)] /\ todo'[t] = Tail(todo[t])
      /\ \A u \in Thread : u # t => todo'[u] = todo[u]
  BY <1>1, <1>4 DEF TypeOK
<1>7. built' \in [Net -> Nat] /\ built'[i] = 1 /\ \A j \in Net : j # i => built'[j] = built[j]
  BY <1>1, <1>4, <1>5 DEF TypeOK
<1>8. TypeOK'
  <2>1. seen[t] \in Nat /\ seen' \in [Thread -> Nat \cup {None}]
    BY <1>1 DEF TypeOK
  <2> QED BY <1>1, <1>2, <1>6, <1>7, <2>1 DEF TypeOK
<1>9. \A u \in Thread : u # t => Mine(u)' = Mine(u)
  BY <1>6 DEF Mine
<1>10. \A j : j \in Mine(t)' <=> j \in Mine(t) /\ j # i
  <2>1. \A j : j \in Mine(t)' <=> \E k \in 1 .. Len(todo'[t]) : todo'[t][k] = j
    BY <1>4, <1>6, MembersOf DEF Mine
  <2>2. ASSUME NEW k \in 1 .. Len(Tail(todo[t]))
        PROVE  Tail(todo[t])[k] \in Mine(t) /\ Tail(todo[t])[k] # i
    <3>1. k + 1 \in 1 .. Len(todo[t]) /\ 1 \in 1 .. Len(todo[t]) /\ k + 1 # 1
      BY <1>3, <1>4
    <3>2. todo[t][k + 1] # todo[t][1]
      BY <3>1 DEF OwnersOK
    <3> QED BY <1>3, <1>4, <3>1, <3>2
  <2>3. ASSUME NEW k \in 1 .. Len(todo[t]), todo[t][k] # i
        PROVE  \E l \in 1 .. Len(Tail(todo[t])) : Tail(todo[t])[l] = todo[t][k]
    <3> DEFINE l == k - 1
    <3>1. k # 1
      BY <1>4, <2>3
    <3>2. l \in 1 .. Len(Tail(todo[t])) /\ l + 1 = k
      BY <1>3, <1>4, <3>1
    <3> QED BY <1>4, <3>2
  <2> QED BY <1>3, <1>6, <2>1, <2>2, <2>3
<1>11. \A j : Handed(j)' <=> Handed(j)
  BY <1>1, <1>2 DEF Handed, Chunked
<1>12. \A u \in Thread : Mine(u) \subseteq Net
  BY HandsOf
<1>13. ASSUME NEW u \in Thread, NEW j \in Mine(u)'
       PROVE  j \in Mine(u) /\ j # i
  BY <1>5, <1>9, <1>10, <1>13 DEF OwnersOK
<1>14. ASSUME NEW u \in Thread, NEW j \in Mine(u)'
       PROVE  Handed(j)' /\ built'[j] = 0 /\ (high'[j] <=> u \in GpuThreads)
  BY <1>1, <1>7, <1>11, <1>12, <1>13, <1>14 DEF OwnersOK
<1>15. ASSUME NEW u \in Thread, NEW v \in Thread, u # v
       PROVE  Mine(u)' \cap Mine(v)' = {}
  BY <1>13, <1>15 DEF OwnersOK
<1>16. ASSUME NEW u \in Thread, NEW k \in 1 .. Len(todo'[u]), NEW l \in 1 .. Len(todo'[u]),
              todo'[u][k] = todo'[u][l]
       PROVE  k = l
  <2>1. CASE u = t
    <3>1. /\ k \in Int /\ l \in Int
          /\ k + 1 \in 1 .. Len(todo[t]) /\ l + 1 \in 1 .. Len(todo[t])
      BY <1>3, <1>4, <1>6, <2>1
    <3>2. todo[t][k + 1] = todo[t][l + 1]
      BY <1>4, <1>6, <1>16, <2>1
    <3>3. k + 1 = l + 1
      BY <3>1, <3>2 DEF OwnersOK
    <3> QED BY <3>1, <3>3
  <2>2. CASE u # t
    BY <1>6, <1>16, <2>2 DEF OwnersOK
  <2> QED BY <2>1, <2>2
<1>17. OwnersOK'
  BY <1>14, <1>15, <1>16 DEF OwnersOK
<1>18. ProgressOK'
  <2> SUFFICES ASSUME NEW j \in Net
               PROVE  IF Handed(j) THEN built'[j] = 1 \/ \E u \in Thread : j \in Mine(u)'
                                   ELSE built'[j] = 0
    BY <1>2, <1>11 DEF ProgressOK
  <2>1. CASE j = i
    BY <1>5, <1>7, <2>1 DEF OwnersOK
  <2>2. CASE j # i
    <3>1. \A u \in Thread : j \in Mine(u) => j \in Mine(u)'
      BY <1>9, <1>10, <2>2
    <3> QED BY <1>7, <2>2, <3>1 DEF ProgressOK
  <2> QED BY <2>1, <2>2
<1>19. EndOK'
  <2>1. ASSUME NEW u \in Thread, todo[u] = <<>> PROVE todo'[u] = <<>>
    BY <1>1, <1>6, <2>1
  <2> QED BY <1>1, <1>2, <2>1 DEF EndOK, BothEnded, Thread
<1> QED BY <1>8, <1>17, <1>18, <1>19

(* Who holds which net, what was given out and what is built, at every step   *)
(* of the two paths.                                                          *)
THEOREM BuildInvariance == Spec => []BuildInv
<1>1. BuildInv /\ [Next]_vars => BuildInv'
  BY PhaseSteps, StartStep, ClaimStep, StoreStep DEF Next
<1> QED BY <1>1, BuildInit, PTL DEF Spec

(* No net is ever in the hands of two threads, and once the GPU thread is     *)
(* joined every net has been given exactly one tree, for any team, any number *)
(* of workers, size of a chunk and degrees of the nets (EveryTreeBuiltOnce).  *)
THEOREM EveryTreeOnce == Spec => []EveryTreeBuiltOnce
<1>1. BuildInv => EveryTreeBuiltOnce
  <2> SUFFICES ASSUME BuildInv PROVE EveryTreeBuiltOnce
    OBVIOUS
  <2>1. \A t, u \in Thread : t # u => ToSet(todo[t]) \cap ToSet(todo[u]) = {}
    BY DEF BuildInv, OwnersOK, Mine
  <2>2. ASSUME joined, NEW i \in Net PROVE built[i] = 1
    <3>1. /\ claimed = Net /\ next_chunk >= Len(gpu_flute_nets)
          /\ \A t \in Thread : todo[t] = <<>>
      BY <2>2 DEF BuildInv, EndOK, BothEnded, Thread
    <3>2. \A t \in Thread : i \notin Mine(t)
      BY <3>1, HandsOf DEF BuildInv
    <3>3. high[i] => Chunked(i)
      <4> SUFFICES ASSUME high[i] PROVE Chunked(i)
        OBVIOUS
      <4>1. PICK k \in 1 .. Len(gpu_flute_nets) : gpu_flute_nets[k] = i
        BY HighListed DEF BuildInv, High
      <4>2. Len(gpu_flute_nets) \in Nat /\ next_chunk \in Nat
        BY HighListed DEF BuildInv, TypeOK
      <4>3. k <= next_chunk
        BY <3>1, <4>2
      <4> QED BY <4>1, <4>3 DEF Chunked
    <3>4. Handed(i)
      BY <3>1, <3>3 DEF Handed
    <3> QED BY <3>2, <3>4 DEF BuildInv, ProgressOK
  <2> QED BY <2>1, <2>2 DEF EveryTreeBuiltOnce
<1> QED BY <1>1, BuildInvariance, PTL
=============================================================================
