------------------------------ MODULE DetourDag -------------------------------
(***************************************************************************)
(* The routing DAG of Stage 2 for one net.  net::generate_detours walks    *)
(* the Steiner tree from its root and gives every tree node, besides the   *)
(* node where it stands, mirrors of it on either side of a congested       *)
(* region; bends and Z shapes connect what is not on one line.  A DAG node *)
(* has a slot for each tree child (a mirror of a pin has one more, for the *)
(* pin), and the nodes attached to a slot are the alternatives the dynamic *)
(* program chooses from.  get_routing_tree_cuda then walks the choices     *)
(* down, a level of the DAG at a time; what it reaches is the route.       *)
(*                                                                         *)
(* Costs and layers are left out: any alternative may be the cheapest.     *)
(* The region of a congested edge is computed; which edges are congested   *)
(* and how far the mirrors of a region reach is any choice.                *)
(***************************************************************************)
EXTENDS GridSize, Sequences, FiniteSets, FiniteSetsExt, SequencesExt

CONSTANT Shapes                \* the trees looked at: node -> parent, 0 for the root

ASSUME DagAssumption ==
  \A parents \in Shapes : \A x \in DOMAIN parents : parents[x] \in 0 .. x - 1

VARIABLES
  up,                          \* the rooted rsmt: parent of each node
  at,                          \* node -> [x, y]
  pin,                         \* node -> whether it is a pin
  mark,                        \* node -> direction in which the edge above it
                               \*   is congested, or None
  todo,                        \* calls of dfs_detours still to be made
  dag,                         \* the DAG nodes in the order of create_node
  level,                       \* depth the traceback has come to
  best_path,                   \* DAG node -> slot -> the cheapest alternative
  reached                      \* DAG nodes with layer_output >= 0

vars == <<up, at, pin, mark, todo, dag, level, best_path, reached>>
netVars == <<up, at, pin, mark>>

None == -1
Dir  == {0, 1}
Node == DOMAIN up
Root == 1
Children(x) == SetToSortSeq({e \in Node : up[e] = x}, <)
Straight(p, q) == p.x = q.x \/ p.y = q.y

\* The direction of a congested edge: 1 for a vertical one, 0 for a horizontal
\* one, either for a diagonal one.
EdgeDirs(p, q) == IF p.x = q.x THEN {1} ELSE IF p.y = q.y THEN {0} ELSE Dir

Placements(parents) ==
  {f \in [DOMAIN parents -> [x : 0 .. X - 1, y : 0 .. Y - 1]] : IsInjective(f)}

\* A leaf of the tree is a pin.
PinSets(parents) ==
  {f \in [DOMAIN parents -> BOOLEAN] :
     \A x \in DOMAIN parents : f[x] \/ \E e \in DOMAIN parents : parents[e] = x /\ e # x}

Congestions(parents, places) ==
  {f \in [DOMAIN parents -> Dir \cup {None}] :
     /\ f[Root] = None
     /\ \A x \in DOMAIN parents \ {Root} :
          f[x] = None \/ f[x] \in EdgeDirs(places[parents[x]], places[x])}

FirstCall == [x |-> Root, node |-> 0, slot |-> 0, mirrors |-> [d \in Dir |-> <<>>]]

Init ==
  /\ up \in Shapes
  /\ at \in Placements(up)
  /\ pin \in PinSets(up)
  /\ mark \in Congestions(up, at)
  /\ todo = <<FirstCall>>
  /\ dag = <<>>
  /\ level = 0 /\ best_path = <<>> /\ reached = {}
-----------------------------------------------------------------------------
(* markCongestion: the congested region of each node, named by its top node *)

Aligned(x) == Straight(at[up[x]], at[x])

Region ==
  [d \in Dir |->
     LET r[x \in Node] ==
           IF x # Root /\ mark[x] = d /\ Aligned(x) /\ up[x] # Root THEN r[up[x]]
           ELSE IF x # Root /\ (mark[x] = d \/ \E e \in Node : up[e] = x /\ mark[e] = d)
           THEN x ELSE None
     IN  [x \in Node |-> r[x]]]

Shifted(d, p, c) == IF d = 1 THEN [p EXCEPT !.x = c] ELSE [p EXCEPT !.y = c]
Coord(d, p) == IF d = 1 THEN p.x ELSE p.y
Bound(d) == IF d = 1 THEN X - 1 ELSE Y - 1

\* get_mirror_places: an interval about the node's own place, which is left out
Places(d, p) ==
  {SetToSortSeq((lo .. hi) \ {Coord(d, p)}, <) :
     lo \in 0 .. Coord(d, p), hi \in Coord(d, p) .. Bound(d)}
-----------------------------------------------------------------------------
(* create_node and connect_node *)

Made(role, x, p, slots, from) ==
  [role |-> role, of |-> x, at |-> p, slots |-> slots, from |-> from]

AddNode(nodes, new) ==
  Append(nodes, new @@
    [depth |-> Max({0} \cup {nodes[new.from[k][1]].depth + 1 : k \in DOMAIN new.from})])

Grow(nodes, made) == FoldLeft(AddNode, nodes, made)

\* The two bends between a DAG node and a place that is not on its line
Bends(nodes, p, slot, x, q) ==
  <<Made("bend", x, [nodes[p].at EXCEPT !.y = q.y], 1, <<<<p, slot>>>>),
    Made("bend", x, [nodes[p].at EXCEPT !.x = q.x], 1, <<<<p, slot>>>>)>>

\* The Z shapes: two bends, the second hanging from the first
ZBends(nodes, p, slot, x, q) ==
  LET a == nodes[p].at
      Abs(n) == IF n < 0 THEN -n ELSE n
      Between(m, n, k, all) == (m * k + n * (all - k)) \div all
      Cuts(len) == IF len > 10 THEN 10 ELSE len
      Z(first, one, two) ==
        <<Made("bend", x, one, 1, <<<<p, slot>>>>), Made("bend", x, two, 1, <<<<first, 0>>>>)>>
      xs == Cuts(Abs(a.x - q.x))
      ys == Cuts(Abs(a.y - q.y))
      AddX(acc, k) == LET c == Between(a.x, q.x, k, xs) IN
                      Grow(acc, Z(Len(acc) + 1, [a EXCEPT !.x = c], [q EXCEPT !.x = c]))
      AddY(acc, k) == LET c == Between(a.y, q.y, k, ys) IN
                      Grow(acc, Z(Len(acc) + 1, [a EXCEPT !.y = c], [q EXCEPT !.y = c]))
      withX == FoldLeft(AddX, nodes, [k \in 1 .. xs - 1 |-> k])
  IN  FoldLeft(AddY, withX, [k \in 1 .. ys - 1 |-> k])

\* DAG nodes of nodes2 that are not in nodes
Added(nodes, nodes2) == [k \in 1 .. Len(nodes2) - Len(nodes) |-> Len(nodes) + k]

\* The last bend of each path: those no other one hangs from
Ends(nodes, nodes2) ==
  SelectSeq(Added(nodes, nodes2),
            LAMBDA n : \A k \in DOMAIN nodes2 : \A f \in ToSet(nodes2[k].from) : f[1] # n)
-----------------------------------------------------------------------------
(* dfs_detours *)

PinSlot(x) == Len(Children(x))
MirrorSlots(x) == Len(Children(x)) + IF pin[x] THEN 1 ELSE 0

\* The i-th mirror of node x: it continues a mirror of the tree parent when both
\* are in one region, else it hangs from the parent itself.
AddMirror(nodes, call, d, place, i) ==
  LET x == call.x
      q == Shifted(d, at[x], place)
      bends == Bends(nodes, call.node, call.slot, x, q)
      mirror(from) == Made("mirror", x, q, MirrorSlots(x), from)
  IN  IF Region[d][x] # x
      THEN AddNode(nodes, mirror(<<<<call.mirrors[d][i], call.slot>>>>))
      ELSE IF Straight(nodes[call.node].at, q)
      THEN AddNode(nodes, mirror(<<<<call.node, call.slot>>>>))
      ELSE Grow(nodes, bends \o
             <<mirror(<<<<Len(nodes) + 2, 0>>, <<Len(nodes) + 1, 0>>>>)>>)

AddMirrors(nodes, call, d, places) ==
  FoldLeft(LAMBDA acc, i : AddMirror(acc, call, d, places[i], i), nodes,
           [i \in DOMAIN places |-> i])

\* The nodes that lead from the tree parent to x
AddPaths(nodes, call) ==
  IF Straight(nodes[call.node].at, at[call.x]) THEN nodes
  ELSE LET bent == Grow(nodes, Bends(nodes, call.node, call.slot, call.x, at[call.x]))
       IN  ZBends(bent, call.node, call.slot, call.x, at[call.x])

\* The mirrors of the parent that x has to be reached from
ParentMirrors(call) ==
  LET Leaves(d) == Region[d][up[call.x]] # None /\ Region[d][call.x] # Region[d][up[call.x]]
      Of(d) == IF Leaves(d) THEN call.mirrors[d] ELSE <<>>
  IN  Of(0) \o Of(1)

OffLine(nodes, call) ==
  SelectSeq(ParentMirrors(call), LAMBDA m : ~Straight(nodes[m].at, at[call.x]))

\* mutant: a mirror on the line of the node is forgotten
NoneOnLine(nodes, call) == <<>>

OnLine(nodes, call) ==
  SelectSeq(ParentMirrors(call), LAMBDA m : Straight(nodes[m].at, at[call.x]))

AddFromMirrors(nodes, call) ==
  FoldLeft(LAMBDA acc, m : Grow(acc, Bends(acc, m, call.slot, call.x, at[call.x])),
           nodes, OffLine(nodes, call))

AddTreeNode(nodes, call, pre) ==
  LET direct == IF Straight(nodes[call.node].at, at[call.x])
                THEN <<<<call.node, call.slot>>>> ELSE <<>>
      on == OnLine(nodes, call)
  IN  AddNode(nodes, Made("node", call.x, at[call.x], Len(Children(call.x)),
        direct \o [k \in DOMAIN pre |-> <<pre[k], 0>>]
               \o [k \in DOMAIN on |-> <<on[k], call.slot>>]))

\* mutant: the duplicate of a pin is put where the mirror is
PinsAtMirrors(nodes, mirrors, x) ==
  IF pin[x]
  THEN Grow(nodes, [k \in DOMAIN mirrors |->
              Made("pin", x, nodes[mirrors[k]].at, 0, <<<<mirrors[k], PinSlot(x)>>>>)])
  ELSE nodes

AddPins(nodes, mirrors, x) ==
  IF pin[x]
  THEN Grow(nodes, [k \in DOMAIN mirrors |->
              Made("pin", x, at[x], 0, <<<<mirrors[k], PinSlot(x)>>>>)])
  ELSE nodes

Calls(x, node, mirrors) ==
  [k \in DOMAIN Children(x) |->
     [x |-> Children(x)[k], node |-> node, slot |-> k - 1, mirrors |-> mirrors]]

VisitRoot ==
  /\ todo # <<>> /\ Head(todo).x = Root
  /\ dag' = AddNode(dag, Made("node", Root, at[Root], Len(Children(Root)), <<>>))
  /\ todo' = Calls(Root, 1, [d \in Dir |-> <<>>])
  /\ UNCHANGED <<netVars, level, best_path, reached>>

\* The places of the mirrors are chosen where a region begins; below, they are
\* those of the parent's mirrors.
MirrorPlaces(call, d) ==
  IF Region[d][call.x] = None THEN {<<>>}
  ELSE IF Region[d][call.x] = call.x THEN Places(d, at[call.x])
  ELSE {[k \in DOMAIN call.mirrors[d] |-> Coord(d, dag[call.mirrors[d][k]].at)]}

Visit ==
  /\ todo # <<>> /\ Head(todo).x # Root
  /\ LET call == Head(todo) IN
     \E places0 \in MirrorPlaces(call, 0), places1 \in MirrorPlaces(call, 1) :
       LET m0 == AddMirrors(dag, call, 0, places0)
           m1 == AddMirrors(m0, call, 1, places1)
           MirrorsIn(a, b) == SelectSeq(Added(a, b), LAMBDA n : b[n].role = "mirror")
           mirrors == [d \in Dir |-> IF d = 0 THEN MirrorsIn(dag, m0) ELSE MirrorsIn(m0, m1)]
           paths == AddFromMirrors(AddPaths(m1, call), call)
           whole == AddTreeNode(paths, call, Ends(m1, paths))
       IN  /\ dag' = AddPins(AddPins(whole, mirrors[0], call.x), mirrors[1], call.x)
           /\ todo' = Calls(call.x, Len(whole), mirrors) \o Tail(todo)
  /\ UNCHANGED <<netVars, level, best_path, reached>>
-----------------------------------------------------------------------------
(* get_routing_tree_cuda, one launch for each level *)

Alternatives(n, slot) == {c \in DOMAIN dag : <<n, slot>> \in ToSet(dag[c].from)}

\* The choices of one node; a slot nobody is attached to has none.
PathChoices(n) ==
  LET alternatives == [s \in 0 .. dag[n].slots - 1 |-> Alternatives(n, s)]
  IN  {f \in [DOMAIN alternatives -> UNION Range(alternatives)] :
         \A s \in DOMAIN f : f[s] \in alternatives[s]}

Chosen(n) ==
  dag[n].from = <<>> \/ \E f \in ToSet(dag[n].from) :
                          f[1] \in reached /\ best_path[f[1]][f[2]] = n

TraceLevel ==
  /\ todo = <<>> /\ \E n \in DOMAIN dag : dag[n].depth = level
  /\ LET now == {n \in DOMAIN dag : dag[n].depth = level /\ Chosen(n)} IN
       /\ reached' = reached \cup now
       /\ \E f \in [now -> UNION {PathChoices(n) : n \in now}] :
            /\ \A n \in now : f[n] \in PathChoices(n)
            /\ best_path' = best_path @@ f
  /\ level' = level + 1
  /\ UNCHANGED <<netVars, todo, dag>>

Next == VisitRoot \/ Visit \/ TraceLevel

Spec == Init /\ [][Next]_vars
-----------------------------------------------------------------------------
Built == todo = <<>>
Traced == Built /\ \A n \in DOMAIN dag : dag[n].depth < level

ROUTE_PER_PIN == 27

\* Integers in net_routes: its length, and two for each wire and each stack
RouteSize ==
  LET wires == {n \in reached : dag[n].from # <<>>} IN 1 + 2 * (Cardinality(wires) + Cardinality(reached))

\* The DAG is sound when it is built.  The two assertions of connect_node hold of
\* every edge: parent and child are on one line, so a wire can join them, and the
\* parent has the slot the child is attached to.  And nothing is a dead end, which
\* is what mirror_places.size() == mirrors.size() of dfs_detours is for: every slot
\* of every node, mirrors and bends included, has an alternative to choose.
DagIsSound ==
  /\ \A n \in DOMAIN dag :
       /\ dag[n].at \in [x : 0 .. X - 1, y : 0 .. Y - 1]
       /\ \A k \in DOMAIN dag[n].from :
            LET f == dag[n].from[k] IN
              /\ Straight(dag[f[1]].at, dag[n].at)
              /\ f[2] \in 0 .. dag[f[1]].slots - 1
  /\ Built => \A n \in DOMAIN dag : \A s \in 0 .. dag[n].slots - 1 : Alternatives(n, s) # {}

\* Whatever alternatives are the cheapest, the traceback stands at every node of
\* the Steiner tree once, at its own place or at one mirror of it, and reaches
\* every pin once at the pin's own place: directly, or through the pin slot of
\* the mirror it stands at.  The kernel takes the first parent that chose a node;
\* no node is chosen by two reached parents, so the order of the parents is of no
\* consequence and the route is a tree.  Each node reached appends a wire and a
\* stack at most, with an atomicAdd that looks at no limit: they are few enough for
\* the ROUTE_PER_PIN integers the net has for each pin.
TracebackIsATree ==
  /\ \A n \in reached : dag[n].from # <<>> =>
       Cardinality({f \in ToSet(dag[n].from) : f[1] \in reached /\ best_path[f[1]][f[2]] = n}) = 1
  /\ Traced =>
       \A x \in Node :
         /\ Cardinality({n \in reached : dag[n].of = x /\ dag[n].role \in {"node", "mirror"}}) = 1
         /\ pin[x] => Cardinality({n \in reached : dag[n].of = x /\ dag[n].at = at[x]
                                                    /\ dag[n].role \in {"node", "pin"}}) = 1
  /\ Traced /\ dag # <<>> => RouteSize <= ROUTE_PER_PIN * Cardinality({x \in Node : pin[x]})
=============================================================================
