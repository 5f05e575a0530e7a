------------------------------ MODULE RouteGrid -------------------------------
(***************************************************************************)
(* The costs both routing stages read: the via cost of a cell and the      *)
(* prefix sums of the wire costs of its track (graph.hpp).  Costs are      *)
(* small numbers; several cost maps are looked at, one in a behaviour.     *)
(* Here too: the net that is routed, a Steiner tree with its pins.         *)
(***************************************************************************)
EXTENDS GridSize, Summation, Sequences, FiniteSets, FiniteSetsExt, SequencesExt

CONSTANTS
  L,                           \* routing layers 0 .. L - 1
  DIR,                         \* 1: the even layers run along y
  Costs,                       \* the cost maps: [edge, via], layer -> x -> y -> cost
  Inf                          \* INF, the cost of what cannot be

ASSUME RouteGridAssumption ==
  /\ L \in Nat \ {0, 1} /\ DIR \in {0, 1} /\ Inf \in Nat
  /\ \A k \in DOMAIN Costs :
       /\ Costs[k].edge \in [0 .. L - 1 -> [0 .. X - 1 -> [0 .. Y - 1 -> Nat]]]
       /\ Costs[k].via \in [0 .. L - 1 -> [0 .. X - 1 -> [0 .. Y - 1 -> Nat]]]

VARIABLES
  tree,                        \* up: parents, at: places, metal: of the pin, or NoMetal
  table                        \* which cost map

Layer == 0 .. L - 1
NoLayer == L                   \* the layer of a Steiner node: any will do

MinOf(a, b) == IF a < b THEN a ELSE b
MaxOf(a, b) == IF a > b THEN a ELSE b

NoMetal == -1
TreeNode == DOMAIN tree.up
IsPin(i) == tree.metal[i] # NoMetal

\* Metal 0 is no routing layer: its pins are reached from the lowest one.
PinLayer(i) == IF IsPin(i) THEN MaxOf(tree.metal[i] - 1, 0) ELSE NoLayer

Flat(p, q) == p.x = q.x \/ p.y = q.y

\* l & 1 ^ DIR
Vertical(l) == (l + DIR) % 2 = 1

presum ==
  [k \in DOMAIN Costs |-> [l \in Layer |-> [x \in 0 .. X - 1 |-> [y \in 0 .. Y - 1 |->
    LET edge == Costs[k].edge[l] IN
      IF Vertical(l) THEN Summed(edge[x], 0, y)
      ELSE Summed([c \in 0 .. X - 1 |-> edge[c][y]], 0, x)]]]]

wire_segment_cost(k, l, p, q) ==
  presum[k][l][MaxOf(p.x, q.x)][MaxOf(p.y, q.y)]
    - presum[k][l][MinOf(p.x, q.x)][MinOf(p.y, q.y)]

\* The vias of a stack from layer lo to layer hi
StackCost(k, lo, hi, p) ==
  Summed([l \in Layer |-> Costs[k].via[l][p.x][p.y]], lo, hi - lo)

\* The ranges of layers a via stack covers, and the order loops meet them in
LayerRange == {r \in Layer \X Layer : r[1] <= r[2]}
Covers(r, l) == r[1] <= l /\ l <= r[2]
Before(r, s) == r[1] < s[1] \/ (r[1] = s[1] /\ r[2] < s[2])

\* Strict comparison in a loop: the first of the cheapest
FirstCheapest(S, cost(_), first(_, _)) ==
  LET total == [a \in S |-> cost(a)]
      least == Min({total[a] : a \in S})
      cheapest == {a \in S : total[a] = least}
  IN  CHOOSE a \in cheapest : \A b \in cheapest : a = b \/ first(a, b)

At3(p, l) == [x |-> p.x, y |-> p.y, l |-> l]
Segment(p, m, q, n) == <<At3(p, m), At3(q, n)>>
=============================================================================
