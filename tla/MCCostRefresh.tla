----------------------------- MODULE MCCostRefresh -----------------------------
(* CostRefresh on two tracks of four cells.                                    *)
EXTENDS CostRefresh

Route(wires, vias) == [wires |-> wires, vias |-> vias]

\* long and short wires, a via inside, at the start and at the end of a track; only
\* the via of the last route stands on another route's wire, which makes the first
\* edge of track h the one that is not Uncrossed
MCRoutes ==
  {Route({<<"h", 0, 2>>}, {<<"h", 0>>, <<"v", 1>>}),
   Route({<<"h", 1, 2>>, <<"v", 2, 3>>}, {<<"v", 3>>}),
   Route({}, {<<"v", 0>>, <<"v", 1>>, <<"h", 3>>}),
   Route({}, {<<"h", 0>>})}

\* a via in the middle of a track that another net's wire runs along, and a route
\* that stays away from both
MCCrossingRoutes ==
  {Route({<<"h", 0, 3>>}, {}), Route({<<"v", 0, 1>>}, {<<"h", 1>>}),
   Route({<<"v", 2, 3>>}, {})}
=============================================================================
