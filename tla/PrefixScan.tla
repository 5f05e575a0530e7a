------------------------------ MODULE PrefixScan ------------------------------
(***************************************************************************)
(* The block-wide prefix sum of one track, as compute_presum,              *)
(* compute_presum_general, compute_presum_reference and the two congestion *)
(* sums write it: the cells are copied to shared memory one place up, then *)
(* in round d every element whose bit d is set adds the last element of    *)
(* the block of 2^d below its own; a barrier ends the round.  width is     *)
(* 1 << d, and a shift by d a division by it.                              *)
(*                                                                         *)
(* Within a round the threads of the block run in any order, and an        *)
(* addition is a load of the two operands and a store of the result.       *)
(* A sum is the number of times each cell of the track went into it.       *)
(***************************************************************************)
EXTENDS Integers

CONSTANT MaxN                  \* bound: the longest track looked at

ASSUME ScanAssumption == MaxN \in Nat \ {0, 1}

VARIABLES
  cells,                       \* of the track (Y or X)
  scan_pc,                     \* "load", "round", "done"
  width,                       \* 1 << d, in round d
  untouched,                   \* elements no thread has touched since the barrier
  loaded,                      \* element -> operand held in a register
  sum                          \* shared memory; what is left there is <<>>

scanVars == <<cells, scan_pc, width, untouched, loaded, sum>>

Index == 0 .. cells - 1
NoOperand == <<>>             \* nothing loaded
Zero  == [c \in Index |-> 0]
Plus(a, b) == [c \in Index |-> a[c] + b[c]]

ScanInit ==
  /\ cells \in 2 .. MaxN
  /\ scan_pc = "load" /\ width = 1 /\ untouched = Index
  /\ loaded = [i \in Index |-> NoOperand]
  /\ sum = [i \in Index |-> <<>>]

\* sum[0] = 0 by thread 0, sum[y + 1] = the cost of cell y by the others
Load(i) ==
  /\ scan_pc = "load" /\ i \in untouched
  /\ sum' = [sum EXCEPT ![i] = IF i = 0 THEN Zero ELSE [Zero EXCEPT ![i - 1] = 1]]
  /\ untouched' = untouched \ {i}
  /\ UNCHANGED <<cells, scan_pc, width, loaded>>

\* idx >> d & 1
Adds(i) == (i \div width) % 2 = 1

\* (idx >> d << d) - 1
Source(i) == (i \div width) * width - 1

LoadOperand(i) ==
  /\ scan_pc = "round" /\ i \in untouched /\ Adds(i) /\ loaded[i] = NoOperand
  /\ loaded' = [loaded EXCEPT ![i] = sum[Source(i)]]
  /\ UNCHANGED <<cells, scan_pc, width, untouched, sum>>

StoreSum(i) ==
  /\ scan_pc = "round" /\ i \in untouched /\ loaded[i] # NoOperand
  /\ sum' = [sum EXCEPT ![i] = Plus(@, loaded[i])]
  /\ loaded' = [loaded EXCEPT ![i] = NoOperand]
  /\ untouched' = untouched \ {i}
  /\ UNCHANGED <<cells, scan_pc, width>>

\* mutant: one round short
LastRoundShort(next) == 2 * next >= cells

\* the loop ends: (1 << d) < Y no longer holds
LastRound(next) == next >= cells

\* every thread has come to the barrier
AllArrived == IF scan_pc = "load" THEN untouched = {} ELSE \A i \in untouched : ~Adds(i)

\* __syncthreads: the elements that add nothing are done as well
Barrier ==
  /\ scan_pc \in {"load", "round"}
  /\ AllArrived
  /\ width' = IF scan_pc = "load" THEN 1 ELSE 2 * width
  /\ scan_pc' = IF LastRound(width') THEN "done" ELSE "round"
  /\ untouched' = Index
  /\ UNCHANGED <<cells, loaded, sum>>

ScanNext == Barrier \/ \E i \in Index : Load(i) \/ LoadOperand(i) \/ StoreSum(i)

ScanSpec == ScanInit /\ [][ScanNext]_scanVars
-----------------------------------------------------------------------------
\* What the DP subtracts from one another: element i holds every cell below i
\* exactly once, for track lengths that are no power of two as well.
PrefixSums ==
  scan_pc = "done" => \A i \in Index : sum[i] = [c \in Index |-> IF c < i THEN 1 ELSE 0]

=============================================================================
