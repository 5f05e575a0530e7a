------------------------------ MODULE CostRefresh ------------------------------
(***************************************************************************)
(* Demand and its costs over the batches of both routing stages.           *)
(*                                                                         *)
(* The grid is a set of tracks: a row of a horizontal layer or a column of *)
(* a vertical one, Len cells each.  A route is a set of wire segments      *)
(* <<track, lo, hi>> and a set of cells <<track, i>> that its vias pass.   *)
(* demand counts half units.  One batch launches, on one stream:           *)
(*   (stage 2 only) commit_wire_demand and commit_via_demand with K = -1;  *)
(*   update_cost, compute_presum, finish_cost_refresh;                     *)
(*   the DP, whose traceback writes routes and pre_demand;                 *)
(*   batch_wire_update and commit_via_demand with K = 1.                   *)
(* The costs are rebuilt only where the dirty list and the dirty tracks    *)
(* say so.  A step is one segment, one via cell or one track of a kernel;  *)
(* kernels do not overlap.                                                 *)
(*                                                                         *)
(* A cost is abstracted to the demand values it is computed from.          *)
(* timestamp[] is only compared with the running stamp, so it is the set   *)
(* stamped of the cells that carry it.                                     *)
(***************************************************************************)
EXTENDS Ascending, Sequences, FiniteSetsExt

CONSTANTS
  Track, Len1,           \* Len1: the last position of a track (Y - 1 or X - 1)
  Nets,
  Routes,                \* the possible routes: records of wires and vias
  Limit                  \* dirty_cell_limit

ASSUME CostAssumption ==
  /\ Len1 \in Nat \ {0, 1} /\ Limit \in Nat /\ IsFiniteSet(Nets)
  /\ \A r \in Routes :
       /\ IsFiniteSet(r.wires) /\ IsFiniteSet(r.vias)
       /\ \A w \in r.wires : w[1] \in Track /\ w[2] \in 0 .. Len1 /\ w[3] \in 0 .. Len1
                             /\ w[2] < w[3]
       /\ r.vias \subseteq Track \X (0 .. Len1)

Cell == Track \X (0 .. Len1)

VARIABLES
  incr,                  \* the switches: vcost, presum, commit; set once in init
  stage, waiting,        \* routing stage, and its nets that had no batch yet
  batch,                 \* the nets of the running batch
  pc, todo,              \* the kernel running, and its items still to be done
  routes,                \* the route of each net; NoRoute before stage 1
  demand, pre_demand,
  stamped,
  dirty,                 \* the dirty list: cnt, overflow, cells
  track_dirty, pre_flag, \* pre_flag: pre_demand_track_dirty
  vcost, presum

plan    == <<incr, stage, waiting, batch>>
vars    == <<plan, pc, todo, routes, demand, pre_demand, stamped, dirty, track_dirty,
             pre_flag, vcost, presum>>

NoRoute == [wires |-> {}, vias |-> {}]
NoCell  == <<"none", 0>>

-----------------------------------------------------------------------------
(* The costs                                                                *)

\* update_single_vcost_ispd24: the demands a cell's via cost is computed from
VcostOf(d, c) ==
  LET t == c[1]  i == c[2]
  IN  IF i = 0 THEN <<d[<<t, 0>>]>>
      ELSE IF i = Len1 THEN <<d[<<t, i - 1>>]>>
      ELSE <<d[<<t, i>>], d[<<t, i - 1>>]>>

\* compute_presum: the demands a track's prefix sums are computed from
PresumOf(d, t) == [i \in 0 .. Len1 - 1 |-> d[<<t, i>>]]

\* update_vcost_selective: each listed cell and the next one on its track
Refreshed(cells) == cells \cup {<<c[1], c[2] + 1>> : c \in {e \in cells : e[2] < Len1}}

-----------------------------------------------------------------------------
(* The dirty list                                                           *)

\* reserve_dirty_cells for all of seq at once, then the writes.  A thread that
\* reads dirty_overflow just before another one sets it finds no room either.
RecordSegment(seq) ==
  IF ~incr.vcost \/ dirty.overflow THEN dirty
  ELSE [cnt      |-> dirty.cnt + Len(seq),
        overflow |-> dirty.cnt + Len(seq) > Limit,
        cells    |-> IF dirty.cnt + Len(seq) > Limit THEN dirty.cells
                     ELSE [k \in DOMAIN dirty.cells |->
                             IF k \in dirty.cnt .. dirty.cnt + Len(seq) - 1
                             THEN seq[k - dirty.cnt + 1] ELSE dirty.cells[k]]]

\* mark_dirty_cell for each cell of seq: one reservation per cell
RecordCells(seq) ==
  IF ~incr.vcost \/ dirty.overflow THEN dirty
  ELSE [cnt      |-> IF dirty.cnt + Len(seq) > Limit THEN Limit + 1
                     ELSE dirty.cnt + Len(seq),
        overflow |-> dirty.cnt + Len(seq) > Limit,
        cells    |-> [k \in DOMAIN dirty.cells |->
                        IF k \in dirty.cnt .. dirty.cnt + Len(seq) - 1
                        THEN seq[k - dirty.cnt + 1] ELSE dirty.cells[k]]]

FlagTrack(t) == [track_dirty EXCEPT ![t] = @ \/ incr.presum]

\* the slots update_vcost_selective reads
Listed == {dirty.cells[k] : k \in 0 .. Min({dirty.cnt, Limit}) - 1}

-----------------------------------------------------------------------------
(* What a segment and a via cell add to demand                              *)

SegmentCells(w) == {<<w[1], i>> : i \in w[2] .. w[3] - 1}
SegmentSeq(w)   == [k \in 1 .. w[3] - w[2] |-> <<w[1], w[2] + k - 1>>]
Stamps(w)       == {<<w[1], i>> : i \in w[2] .. w[3]}

\* cells a via's demand goes to: split in halves inside the track
ViaSeq(c) ==
  IF c[2] = 0 THEN <<c>>
  ELSE IF c[2] = Len1 THEN << <<c[1], c[2] - 1>> >>
  ELSE << <<c[1], c[2] - 1>>, c>>

SplitCells(c) == {ViaSeq(c)[k] : k \in DOMAIN ViaSeq(c)}

ViaHalves(c, e) == IF e \in SplitCells(c) THEN 2 \div Len(ViaSeq(c)) ELSE 0

AddSegment(w, K) ==
  [e \in Cell |-> IF e \in SegmentCells(w) THEN demand[e] + 2 * K ELSE demand[e]]
AddVia(c, K) ==
  [e \in Cell |-> IF e \in SplitCells(c) THEN demand[e] + K * ViaHalves(c, e) ELSE demand[e]]

Segments(S) == UNION {{<<n, w>> : w \in routes[n].wires} : n \in S}
ViaCells(S) == UNION {{<<n, c>> : c \in routes[n].vias} : n \in S}

Init ==
  /\ incr \in [vcost : BOOLEAN, presum : BOOLEAN, commit : BOOLEAN]
  /\ stage = 1 /\ waiting = Nets /\ batch = {}
  /\ pc = "idle" /\ todo = {}
  /\ routes = [n \in Nets |-> NoRoute]
  /\ demand = [c \in Cell |-> 0] /\ pre_demand = [c \in Cell |-> 0]
  /\ stamped = {}
  /\ dirty = [cnt |-> 0, overflow |-> TRUE, cells |-> [k \in 0 .. Limit - 1 |-> NoCell]]
  /\ track_dirty = [t \in Track |-> TRUE]
  /\ pre_flag = [t \in Track |-> FALSE]
  /\ vcost = [c \in Cell |-> <<>>] /\ presum = [t \in Track |-> <<>>]

-----------------------------------------------------------------------------
(* The host loops of Lshape_route (stage 1) and Lshape_route_detour (2)     *)

\* the next batch of the stage; a new stamp makes every cell unstamped
StartBatch ==
  /\ pc = "idle"
  /\ batch' \in (SUBSET waiting) \ {{}}
  /\ waiting' = waiting \ batch'
  /\ stamped' = {}
  /\ IF stage = 1 THEN pc' = "update" /\ todo' = {}
                  ELSE pc' = "ripup_wires" /\ todo' = Segments(batch')
  /\ UNCHANGED <<incr, stage, routes, demand, pre_demand, dirty, track_dirty, pre_flag,
                 vcost, presum>>

\* ripup(): any of the nets may cross an overflowed edge
StartStage2 ==
  /\ pc = "idle" /\ stage = 1 /\ waiting = {}
  /\ stage' = 2 /\ waiting' \in SUBSET Nets
  /\ UNCHANGED <<incr, batch, pc, todo, routes, demand, pre_demand, stamped, dirty,
                 track_dirty, pre_flag, vcost, presum>>

\* a kernel has handled its items, so the next one on the stream starts
NextKernel ==
  /\ todo = {}
  /\ \/ pc = "ripup_wires" /\ pc' = "ripup_vias" /\ todo' = ViaCells(batch)
        /\ UNCHANGED stamped
     \/ pc = "ripup_vias" /\ pc' = "update" /\ todo' = {} /\ stamped' = {}
     \/ pc = "route" /\ pc' = "scan" /\ todo' = Track /\ UNCHANGED stamped
     \/ pc = "scan" /\ pc' = "commit" /\ todo' = Track /\ UNCHANGED stamped
     \/ pc = "commit" /\ pc' = "vias" /\ todo' = ViaCells(batch) /\ UNCHANGED stamped
     \/ pc = "vias" /\ pc' = "idle" /\ todo' = {} /\ UNCHANGED stamped
  /\ UNCHANGED <<plan, routes, demand, pre_demand, dirty, track_dirty, pre_flag, vcost,
                 presum>>

\* commit_wire_demand, K = -1: one segment of one net
RipupWire(n, w) ==
  /\ pc = "ripup_wires" /\ <<n, w>> \in todo
  /\ todo' = todo \ {<<n, w>>}
  /\ demand' = AddSegment(w, -1)
  /\ dirty' = RecordSegment(SegmentSeq(w))
  /\ track_dirty' = FlagTrack(w[1])
  /\ stamped' = stamped \cup Stamps(w)
  /\ UNCHANGED <<plan, pc, routes, pre_demand, pre_flag, vcost, presum>>

\* commit_via_demand, K = -1 and K = 1: one cell of one via, unless a wire of
\* the same stamp passes there
ViaCell(n, c) ==
  /\ pc \in {"ripup_vias", "vias"} /\ <<n, c>> \in todo
  /\ todo' = todo \ {<<n, c>>}
  /\ IF c \in stamped
     THEN UNCHANGED <<demand, dirty, track_dirty>>
     ELSE /\ demand' = AddVia(c, IF pc = "vias" THEN 1 ELSE -1)
          /\ dirty' = RecordCells(ViaSeq(c))
          /\ track_dirty' = FlagTrack(c[1])
  /\ UNCHANGED <<plan, pc, routes, pre_demand, stamped, pre_flag, vcost, presum>>

\* mutant: closes the epoch before compute_presum has read it
UpdateAndReset ==
  /\ pc = "update"
  /\ vcost' = [c \in Cell |-> IF ~incr.vcost \/ dirty.overflow \/ c \in Refreshed(Listed)
                              THEN VcostOf(demand, c) ELSE vcost[c]]
  /\ dirty' = [dirty EXCEPT !.cnt = 0, !.overflow = FALSE]
  /\ track_dirty' = [t \in Track |-> FALSE]
  /\ pc' = "presum"
  /\ UNCHANGED <<plan, todo, routes, demand, pre_demand, stamped, pre_flag, presum>>

\* update_cost: the whole grid when the switch is off or the list is full
UpdateCost ==
  /\ pc = "update"
  /\ vcost' = [c \in Cell |-> IF ~incr.vcost \/ dirty.overflow \/ c \in Refreshed(Listed)
                              THEN VcostOf(demand, c) ELSE vcost[c]]
  /\ pc' = "presum"
  /\ UNCHANGED <<plan, todo, routes, demand, pre_demand, stamped, dirty, track_dirty,
                 pre_flag, presum>>

\* the early return of compute_presum
PresumSkips(t) == incr.presum /\ ~dirty.overflow /\ ~track_dirty[t]

ComputePresum ==
  /\ pc = "presum"
  /\ presum' = [t \in Track |-> IF PresumSkips(t) THEN presum[t] ELSE PresumOf(demand, t)]
  /\ pc' = "finish"
  /\ UNCHANGED <<plan, todo, routes, demand, pre_demand, stamped, dirty, track_dirty,
                 pre_flag, vcost>>

\* finish_cost_refresh: reset_dirty_state ends the epoch; the slots keep their cells
FinishRefresh ==
  /\ pc = "finish"
  /\ dirty' = [dirty EXCEPT !.cnt = 0, !.overflow = FALSE]
  /\ track_dirty' = [t \in Track |-> FALSE]
  /\ pc' = "route" /\ todo' = batch
  /\ UNCHANGED <<plan, routes, demand, pre_demand, stamped, pre_flag, vcost, presum>>

\* the two ends of the segments of a route in pre_demand
Ends(r, c) == Cardinality({w \in r.wires : <<w[1], w[2]>> = c})
              - Cardinality({w \in r.wires : <<w[1], w[3]>> = c})

FlagPre(r) == [t \in Track |-> pre_flag[t] \/ \E w \in r.wires : w[1] = t]

\* the traceback of one net: atomic_add_unit_demand_wire_segment for each segment
RouteNet(n, r) ==
  /\ pc = "route" /\ n \in todo
  /\ todo' = todo \ {n}
  /\ routes' = [routes EXCEPT ![n] = r]
  /\ pre_demand' = [c \in Cell |-> pre_demand[c] + Ends(r, c)]
  /\ pre_flag' = FlagPre(r)
  /\ stamped' = stamped \cup {<<w[1], w[3]>> : w \in r.wires}
  /\ UNCHANGED <<plan, pc, demand, dirty, track_dirty, vcost, presum>>

\* compute_presum_general: the sum below each cell of the track
Sums(t) ==
  LET sum[i \in 0 .. Len1] == IF i = 0 THEN 0 ELSE sum[i - 1] + pre_demand[<<t, i - 1>>]
  IN  sum

ScanTrack(t) ==
  /\ pc = "scan" /\ t \in todo
  /\ todo' = todo \ {t}
  /\ pre_demand' = IF incr.commit /\ ~pre_flag[t] THEN pre_demand
                   ELSE [c \in Cell |->
                           IF c[1] # t THEN pre_demand[c] ELSE Sums(t)[c[2]]]
  /\ UNCHANGED <<plan, pc, routes, demand, stamped, dirty, track_dirty, pre_flag, vcost,
                 presum>>

\* mutant: reads the cell's own sum instead of the next one's
UsedBelow(t) == {i \in 0 .. Len1 - 1 : pre_demand[<<t, i>>] > 0}

\* the grid edges of the track that wires of this batch use
UsedEdges(t) == {i \in 0 .. Len1 - 1 : pre_demand[<<t, i + 1>>] > 0}

UsedSeq(t, S) == [k \in 1 .. Cardinality(S) |-> <<t, Ascending(S)[k]>>]

\* commit_dirty_tracks; without the switch commit_all_edge and the memset, which
\* do the same on every track and leave the flags alone
CommitTrack(t) ==
  /\ pc = "commit" /\ t \in todo
  /\ todo' = todo \ {t}
  /\ IF incr.commit /\ ~pre_flag[t]
     THEN UNCHANGED <<demand, pre_demand, stamped, dirty, track_dirty, pre_flag>>
     ELSE LET used == UsedEdges(t)
          IN  /\ demand' = [c \in Cell |->
                   IF c[1] = t /\ c[2] \in used
                   THEN demand[c] + 2 * pre_demand[<<t, c[2] + 1>>] ELSE demand[c]]
              /\ dirty' = RecordCells(UsedSeq(t, used))
              /\ track_dirty' = IF used = {} THEN track_dirty ELSE FlagTrack(t)
              /\ stamped' = stamped \cup {<<t, i>> : i \in used}
              /\ pre_demand' = [c \in Cell |-> IF c[1] = t THEN 0 ELSE pre_demand[c]]
              /\ pre_flag' = IF incr.commit THEN [pre_flag EXCEPT ![t] = FALSE] ELSE pre_flag
  /\ UNCHANGED <<plan, pc, routes, vcost, presum>>

Next ==
  \/ StartBatch \/ StartStage2 \/ NextKernel
  \/ \E item \in todo : \/ pc = "ripup_wires" /\ RipupWire(item[1], item[2])
                        \/ pc \in {"ripup_vias", "vias"} /\ ViaCell(item[1], item[2])
  \/ UpdateCost \/ ComputePresum \/ FinishRefresh
  \/ \E n \in Nets, r \in Routes : RouteNet(n, r)
  \/ \E t \in Track : ScanTrack(t) \/ CommitTrack(t)

Spec == Init /\ [][Next]_vars
-----------------------------------------------------------------------------
\* The selective refresh leaves what a rebuild of the whole grid would: the DP
\* never reads a via cost or a prefix sum older than the demand, whatever mix of
\* switches is set and wherever in the batch the dirty list filled up (what
\* compare_vcost and compare_presum count).
CostsFresh ==
  pc = "route" => /\ \A c \in Cell : vcost[c] = VcostOf(demand, c)
                  /\ \A t \in Track : presum[t] = PresumOf(demand, t)

\* the cells a route's wires pass, and the via cells its own wires leave to it
Wired(r)   == UNION {Stamps(w) : w \in r.wires}
OwnVias(S) == {x \in ViaCells(S) : x[2] \notin Wired(routes[x[1]])}

\* What wires and via cells of nets put on a grid edge: two halves for a wire, one
\* for a via cell, and a second one when the via has no other edge to share with.
DemandOf(wires, vias, e) ==
  2 * Cardinality({x \in wires : e \in SegmentCells(x[2])})
  + Cardinality({x \in vias : e \in SplitCells(x[2])})
  + Cardinality({x \in vias : SplitCells(x[2]) = {e}})

\* No via that counts on the edge stands on another route's wire only.  Where one
\* does, what it adds and what its rip-up takes back depend on the batches.
Uncrossed(e) ==
  \A r, s \in Routes : \A c \in r.vias : e \in SplitCells(c) /\ c \in Wired(s) => c \in Wired(r)

\* Conservation over both stages: between batches the demand is what the current
\* routes use; a rip-up and the commit before it cancel exactly.  The scratch grid
\* is then all zero although only flagged tracks are cleared, so no wire of a batch
\* is committed again by the next one.
DemandMatchesRoutes ==
  pc = "idle" =>
    /\ \A e \in Cell : /\ Uncrossed(e) => demand[e] = DemandOf(Segments(Nets), OwnVias(Nets), e)
                       /\ pre_demand[e] = 0
    /\ incr.commit => \A t \in Track : ~pre_flag[t]

\* A rip-up takes back what the route had put there, so no demand is negative.
DemandNonNegative == \A e \in Cell : demand[e] >= 0

=============================================================================
