------------------------------ MODULE MCRouteNet ------------------------------
(* Routing a net on a 3 by 2 grid of three layers *)
EXTENDS RouteNet

P(x, y) == [x |-> x, y |-> y]
NetTree(parents, places, points) == [up |-> parents, at |-> places, access_points |-> points]
A(x, y, l) == [x |-> x, y |-> y, l |-> l]

MCShapes == {<<0, 1>>, <<0, 1, 2>>, <<0, 1, 1>>, <<0, 1, 2, 2>>}

\* An L between two pins one of which is two of the file, a straight edge, a path
\* through a bend, a fork with a Steiner node, a pin with three neighbours and five
\* pins in the file; pins on metal 0 to 3
MCTrees == {
  NetTree(<<0, 1>>, <<P(0, 0), P(2, 1)>>,
          <<<<A(0, 0, 0)>>, <<A(2, 1, 3)>>, <<A(1, 1, 2), A(0, 0, 2)>>>>),
  NetTree(<<0, 1>>, <<P(2, 0), P(0, 0)>>, <<<<A(2, 1, 1), A(2, 0, 1)>>, <<A(0, 0, 1)>>>>),
  NetTree(<<0, 1, 2>>, <<P(0, 1), P(0, 0), P(2, 1)>>,
          <<<<A(0, 1, 2)>>, <<A(0, 0, 0)>>, <<A(2, 1, 1)>>>>),
  NetTree(<<0, 1, 1>>, <<P(1, 0), P(0, 1), P(2, 0)>>, <<<<A(0, 1, 0)>>, <<A(2, 0, 3)>>>>),
  NetTree(<<0, 1, 2, 2>>, <<P(0, 0), P(1, 0), P(1, 1), P(2, 0)>>,
          <<<<A(0, 0, 1)>>, <<A(1, 0, 0)>>, <<A(1, 1, 3), A(0, 1, 2)>>, <<A(2, 0, 2)>>,
            <<A(0, 1, 2), A(1, 0, 0)>>>>) }

CostMap(a, b, c, m) ==
  [edge |-> [l \in 0 .. L - 1 |-> [x \in 0 .. X - 1 |-> [y \in 0 .. Y - 1 |-> 1 + ((a * l + b * x + c * y) % m)]]],
   via  |-> [l \in 0 .. L - 1 |-> [x \in 0 .. X - 1 |-> [y \in 0 .. Y - 1 |-> 1 + ((c * l + a * x + b * y) % m)]]]]

\* all alike; dear on some layers; dear in some columns
MCCosts == <<CostMap(0, 0, 0, 2), CostMap(5, 3, 2, 7), CostMap(2, 7, 4, 9)>>
===============================================================================
